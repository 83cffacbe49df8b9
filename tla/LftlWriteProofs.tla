-------------------------- MODULE LftlWriteProofs --------------------------
(***************************************************************************)
(* What write_core programs, for units and data of any size: exactly the   *)
(* bytes it was given over those of the current slot, each unit once.      *)
(* From this the reads, the tracker and the all-or-nothing store.          *)
(***************************************************************************)
EXTENDS LftlWrite, TLAPS

-----------------------------------------------------------------------------
(* Units and bytes.                                                        *)

LEMMA DivMod ==
  ASSUME NEW a \in Nat, NEW m \in Nat \ {0}
  PROVE  /\ a \div m \in Nat /\ a % m \in 0..(m - 1)
         /\ a = (m * (a \div m)) + (a % m)
BY SMT

LEMMA Division ==
  ASSUME NEW a \in Nat
  PROVE  /\ a \div WriteSize \in Nat /\ a % WriteSize \in 0..(WriteSize - 1)
         /\ a = (WriteSize * (a \div WriteSize)) + (a % WriteSize)
BY SizesAssumption, DivMod

LEMMA Times ==
  ASSUME NEW i \in Nat, NEW j \in Nat
  PROVE  /\ WriteSize * i \in Nat
         /\ i < j => WriteSize * i + WriteSize <= WriteSize * j
         /\ WriteSize * (i + j) = WriteSize * i + WriteSize * j
         /\ (WriteSize * i) % WriteSize = 0
         /\ (WriteSize * i) \div WriteSize = i
         /\ i * WriteSize = WriteSize * i
BY SizesAssumption, SMT

(* A byte belongs to a unit from the k-th on.                              *)
LEMMA FromUnit ==
  ASSUME NEW b \in Nat, NEW k \in Nat
  PROVE  k <= b \div WriteSize <=> WriteSize * k <= b
<1> DEFINE q == b \div WriteSize
<1>1. q \in Nat /\ b % WriteSize \in 0..(WriteSize - 1)
      /\ b = (WriteSize * q) + (b % WriteSize)
  BY Division
<1>2. WriteSize * q \in Nat /\ WriteSize * k \in Nat /\ WriteSize \in Nat
      /\ (k < q => WriteSize * k + WriteSize <= WriteSize * q)
      /\ (q < k => WriteSize * q + WriteSize <= WriteSize * k)
  BY <1>1, Times, SizesAssumption
<1> HIDE DEF q
<1>3. k <= q <=> WriteSize * k <= b
  <2> DEFINE x == WriteSize * q
             y == WriteSize * k
             r == b % WriteSize
  <2>1. /\ x \in Nat /\ y \in Nat /\ r \in 0..(WriteSize - 1) /\ b = x + r
        /\ (k < q => y + WriteSize <= x) /\ (q < k => x + WriteSize <= y)
        /\ (k = q => x = y)
    BY <1>1, <1>2
  <2> HIDE DEF x, y, r
  <2>2. k <= q <=> y <= b
    BY <1>1, <1>2, <2>1
  <2> QED BY <2>2 DEF y
<1> QED BY <1>3 DEF q

(* What follows whole units is the rest of a division.                     *)
LEMMA Rest ==
  ASSUME NEW i \in Nat, NEW r \in 0..(WriteSize - 1)
  PROVE  (WriteSize * i + r) % WriteSize = r
BY SizesAssumption, SMT

(* The arguments of a call and the units around them.                      *)
First(c) == c.addr \div WriteSize
Count(c) == CeilDiv(c.size + Misalignment(c))

LEMMA Aligned ==
  ASSUME NEW c \in Calls
  PROVE  /\ First(c) \in Nat /\ Count(c) \in Nat
         /\ Misalignment(c) \in 0..(WriteSize - 1)
         /\ c.addr = (WriteSize * First(c)) + Misalignment(c)
         /\ WriteSize * First(c) \in Nat /\ WriteSize * Count(c) \in Nat
         /\ c.size + Misalignment(c) <= WriteSize * Count(c)
         /\ WriteSize * Count(c) < c.size + Misalignment(c) + WriteSize
<1>1. c.addr \in Nat /\ c.size \in Nat
  BY SizesAssumption DEF Calls
<1>2. /\ First(c) \in Nat /\ Misalignment(c) \in 0..(WriteSize - 1)
      /\ c.addr = (WriteSize * First(c)) + Misalignment(c)
  BY <1>1, Division DEF First, Misalignment
<1> DEFINE n == c.size + Misalignment(c) + WriteSize - 1
<1>3. n \in Nat /\ WriteSize \in Nat
  BY <1>1, <1>2, SizesAssumption
<1>4. /\ Count(c) \in Nat /\ n % WriteSize \in 0..(WriteSize - 1)
      /\ n = (WriteSize * Count(c)) + (n % WriteSize)
  BY <1>3, Division DEF Count, CeilDiv
<1>5. WriteSize * First(c) \in Nat /\ WriteSize * Count(c) \in Nat
  BY <1>2, <1>4, Times
<1> DEFINE y == WriteSize * Count(c)
           r == n % WriteSize
<1>6. y \in Nat /\ r \in 0..(WriteSize - 1) /\ n = y + r
  BY <1>4, <1>5
<1> HIDE DEF y, r
<1>7. c.size + Misalignment(c) <= y /\ y < c.size + Misalignment(c) + WriteSize
  BY <1>1, <1>2, <1>3, <1>6
<1> QED BY <1>2, <1>4, <1>5, <1>7 DEF y

LEMMA LocalsAre ==
  ASSUME NEW c \in Calls, NEW cells
  PROVE  Locals(c, cells) =
           [offset |-> WriteSize * First(c), size |-> c.size,
            aligned |-> WriteSize * Count(c), src |-> 0, cells |-> cells]
<1>1. c.addr - Misalignment(c) = WriteSize * First(c)
  BY Aligned
<1>2. Count(c) * WriteSize = WriteSize * Count(c)
  BY Aligned, Times
<1> QED BY <1>1, <1>2 DEF Locals, Count

-----------------------------------------------------------------------------
(* write_core programs the write over the current data.                    *)

(* What a byte of the next slot should be.                                 *)
Merged(c, b) == IF b \in BytesOf(c) THEN SourceByte(c, b - c.addr) ELSE cur[b]

(* Cells of which those from lo to before hi were programmed.              *)
Programmed(c, cells, lo, hi) ==
  [b \in Offsets |-> IF lo <= b /\ b < hi
                       THEN IF cells[b] = Erased THEN Merged(c, b) ELSE Spoiled
                       ELSE cells[b]]

(* Programming goes on where it stopped.                                   *)
LEMMA ProgramOn ==
  ASSUME NEW c, NEW cells, NEW lo \in Nat, NEW mid \in Nat, NEW hi \in Nat,
         lo <= mid, mid <= hi,
         NEW bytes, DOMAIN bytes = 0..(hi - mid - 1),
         \A k \in 0..(hi - mid - 1) : bytes[k] = Merged(c, mid + k)
  PROVE  NvmWrite(Programmed(c, cells, lo, mid), mid, bytes)
           = Programmed(c, cells, lo, hi)
<1> DEFINE before == Programmed(c, cells, lo, mid)
<1>1. DataSize \in Nat
  BY SizesAssumption
<1>2. ASSUME NEW b \in Offsets, b - mid \in 0..(hi - mid - 1)
      PROVE  /\ before[b] = cells[b]
             /\ bytes[b - mid] = Merged(c, b)
             /\ lo <= b /\ b < hi
  <2>1. b \in Nat /\ mid <= b /\ b < hi /\ mid + (b - mid) = b
    BY <1>1, <1>2 DEF Offsets
  <2>2. bytes[b - mid] = Merged(c, mid + (b - mid))
    BY <1>2
  <2> QED BY <2>1, <2>2 DEF Programmed
<1>3. ASSUME NEW b \in Offsets, b - mid \notin 0..(hi - mid - 1)
      PROVE  b \in Nat /\ (b < mid \/ hi <= b)
  BY <1>1, <1>3 DEF Offsets
<1>4. ASSUME NEW b \in Offsets
      PROVE  (IF b - mid \in DOMAIN bytes
                THEN IF before[b] = Erased THEN bytes[b - mid] ELSE Spoiled
                ELSE before[b])
             = Programmed(c, cells, lo, hi)[b]
  <2>1. CASE b - mid \in 0..(hi - mid - 1)
    <3>1. before[b] = cells[b] /\ bytes[b - mid] = Merged(c, b) /\ lo <= b /\ b < hi
      BY <1>2, <2>1
    <3> QED BY <2>1, <3>1 DEF Programmed
  <2>2. CASE b - mid \notin 0..(hi - mid - 1)
    <3>1. b \in Nat /\ (b < mid \/ hi <= b)
      BY <1>3, <2>2
    <3>2. before[b] = Programmed(c, cells, lo, hi)[b]
      BY <3>1 DEF Programmed
    <3> QED BY <2>2, <3>2
  <2> QED BY <2>1, <2>2
<1> QED BY <1>4 DEF NvmWrite, Programmed

(* The write has got to w.offset: what is left begins there, in the        *)
(* destination and in the source, and ends in the last unit.               *)
Reached(c, cells, w) ==
  /\ w = [offset |-> w.offset, size |-> w.size, aligned |-> w.aligned,
          src |-> w.src, cells |-> w.cells]
  /\ w.offset \in Nat /\ w.size \in Nat /\ w.src \in Nat
  /\ \E i \in Nat : w.aligned = WriteSize * i
  /\ w.size <= w.aligned /\ w.aligned < w.size + WriteSize
  /\ WriteSize * First(c) <= w.offset
  /\ w.offset + w.aligned = WriteSize * First(c) + WriteSize * Count(c)
  /\ w.src + w.size = c.size
  /\ w.size > 0 => w.offset = c.addr + w.src
  /\ w.cells = Programmed(c, cells, WriteSize * First(c), w.offset)

LEMMA HeadReaches ==
  ASSUME NEW c \in Calls, NEW cells \in [Offsets -> Cell]
  PROVE  Reached(c, cells, Head(c, Locals(c, cells)))
<1> DEFINE m == Misalignment(c)
           w == Locals(c, cells)
           lo == WriteSize * First(c)
           al == WriteSize * Count(c)
           n == c.size
<1>1. /\ m \in 0..(WriteSize - 1) /\ c.addr = lo + m /\ lo \in Nat /\ al \in Nat
      /\ n + m <= al /\ al < n + m + WriteSize
      /\ n \in Nat /\ WriteSize \in Nat \ {0} /\ Count(c) \in Nat
  BY Aligned, SizesAssumption DEF Calls
<1>2. w = [offset |-> lo, size |-> n, aligned |-> al, src |-> 0, cells |-> cells]
  BY LocalsAre
<1>3. Programmed(c, cells, lo, lo) = cells
  BY <1>1 DEF Programmed, Offsets
<1>4. CASE m = 0
  <2>1. Head(c, w) = w
    BY <1>4 DEF Head
  <2>2. \E i \in Nat : al = WriteSize * i
    BY <1>1
  <2> HIDE DEF w, m, lo, n, al
  <2>3. /\ n <= al /\ al < n + WriteSize /\ lo <= lo /\ 0 + n = n
        /\ lo = c.addr + 0 /\ lo \in Nat /\ n \in Nat /\ 0 \in Nat
    BY <1>1, <1>4
  <2>4. Reached(c, cells, w)
    BY <1>2, <1>3, <2>2, <2>3 DEF Reached, lo, n, al
  <2> QED BY <2>1, <2>4 DEF w
<1>5. CASE m # 0
  <2> DEFINE used == IF WriteSize - m > n THEN n ELSE WriteSize - m
             wu == [k \in 0..(WriteSize - 1) |->
                      IF k \in m..(m + used - 1) THEN SourceByte(c, 0 + k - m)
                      ELSE cur[lo + k]]
             after == NvmWrite(cells, lo, wu)
             h == Head(c, w)
  <2>1. h = [offset |-> lo + WriteSize, size |-> n - used,
             aligned |-> al - WriteSize, src |-> 0 + used, cells |-> after]
    BY <1>2, <1>5 DEF Head
  <2>2. used \in Nat /\ used <= n /\ m + used <= WriteSize
        /\ (used < n => used = WriteSize - m)
    BY <1>1
  <2>3. ASSUME NEW k \in 0..(WriteSize - 1)
        PROVE  wu[k] = Merged(c, lo + k)
    <3>1. lo + k \in BytesOf(c) <=> k \in m..(m + used - 1)
      BY <1>1, <2>2 DEF BytesOf
    <3>2. (lo + k) - c.addr = 0 + k - m
      BY <1>1
    <3> QED BY <3>1, <3>2 DEF Merged
  <2>4. after = Programmed(c, cells, lo, lo + WriteSize)
    <3>1. (lo + WriteSize) - lo - 1 = WriteSize - 1 /\ lo + WriteSize \in Nat
          /\ lo <= lo + WriteSize
      BY <1>1
    <3> HIDE DEF lo, wu
    <3>2. DOMAIN wu = 0..(WriteSize - 1)
      BY DEF wu
    <3>3. NvmWrite(Programmed(c, cells, lo, lo), lo, wu)
            = Programmed(c, cells, lo, lo + WriteSize)
      BY <1>1, <2>3, <3>1, <3>2, ProgramOn
    <3> QED BY <1>3, <3>3
  <2>5. \E i \in Nat : al - WriteSize = WriteSize * i
    <3>1. PICK i \in Nat : Count(c) = i + 1
      <4>1. Count(c) # 0
        <5>1. WriteSize * 0 = 0
          BY <1>1
        <5> QED BY <1>1, <1>5, <5>1
      <4>2. Count(c) - 1 \in Nat /\ Count(c) = (Count(c) - 1) + 1
        BY <1>1, <4>1
      <4> QED BY <4>2
    <3> DEFINE x == WriteSize * i
    <3>2. al = WriteSize * (i + 1)
      BY <3>1
    <3>3. WriteSize * (i + 1) = x + WriteSize * 1 /\ x \in Nat
      BY Times
    <3>4. WriteSize * 1 = WriteSize
      BY <1>1
    <3> HIDE DEF x, al
    <3>5. al - WriteSize = x
      BY <1>1, <3>2, <3>3, <3>4
    <3> QED BY <3>5 DEF x
  <2> HIDE DEF h, w, m, lo, n, al, used, after
  <2>6. /\ lo + WriteSize \in Nat /\ n - used \in Nat /\ 0 + used \in Nat
        /\ n - used <= al - WriteSize /\ al - WriteSize < n - used + WriteSize
        /\ lo <= lo + WriteSize
        /\ lo + WriteSize + (al - WriteSize) = lo + al
        /\ 0 + used + (n - used) = n
        /\ n - used > 0 => lo + WriteSize = c.addr + (0 + used)
    <3>1. CASE used < n
      BY <1>1, <2>2, <3>1
    <3>2. CASE used = n
      <4>1. al = WriteSize
        <5>1. PICK i \in Nat : al - WriteSize = WriteSize * i
          BY <2>5
        <5>2. al - WriteSize < WriteSize
          BY <1>1, <2>2, <3>2
        <5>3. i = 0
          <6>1. 0 < i => WriteSize * 0 + WriteSize <= WriteSize * i
            BY Times
          <6>2. WriteSize * 0 = 0 /\ WriteSize * i \in Nat
            BY <1>1, Times
          <6> QED BY <1>1, <5>1, <5>2, <6>1, <6>2
        <5>4. WriteSize * 0 = 0
          BY <1>1
        <5> QED BY <1>1, <5>1, <5>3, <5>4
      <4> QED BY <1>1, <2>2, <3>2, <4>1
    <3> QED BY <2>2, <1>1, <3>1, <3>2
  <2>7. Reached(c, cells, h)
    BY <2>1, <2>4, <2>5, <2>6 DEF Reached, lo, n, al
  <2> QED BY <2>7 DEF h, w
<1> QED BY <1>4, <1>5

LEMMA CoreProgrammed ==
  ASSUME NEW c \in Calls, NEW cells \in [Offsets -> Cell]
  PROVE  LET w == Tail(c, Body(c, Head(c, Locals(c, cells))))
         IN  /\ "cells" \in DOMAIN w
             /\ w.cells = Programmed(c, cells, WriteSize * First(c),
                            WriteSize * First(c) + WriteSize * Count(c))
<1> DEFINE lo == WriteSize * First(c)
           hi == WriteSize * First(c) + WriteSize * Count(c)
           w == Head(c, Locals(c, cells))
           whole == IF w.size # w.aligned THEN w.aligned - WriteSize ELSE w.aligned
           body == Body(c, w)
           mid == w.offset + whole
<1>1. Reached(c, cells, w)
  BY HeadReaches
<1>2. lo \in Nat /\ hi \in Nat /\ WriteSize \in Nat \ {0}
      /\ c.addr \in Nat /\ c.size \in Nat
  BY Aligned, SizesAssumption DEF Calls
<1>3. PICK i \in Nat : w.aligned = WriteSize * i
  BY <1>1 DEF Reached
<1>4. w.aligned \in Nat /\ (w.aligned # 0 => WriteSize <= w.aligned)
  <2>1. w.aligned \in Nat /\ WriteSize * 0 = 0
        /\ (0 < i => WriteSize * 0 + WriteSize <= WriteSize * i)
    BY <1>2, <1>3, Times
  <2> QED BY <1>2, <1>3, <2>1
<1> HIDE DEF w
<1>5. body = [offset |-> w.offset, size |-> w.size, aligned |-> whole,
              src |-> w.src,
              cells |-> NvmWrite(w.cells, w.offset,
                          [k \in 0..(whole - 1) |-> SourceByte(c, w.src + k)])]
  <2>1. w = [offset |-> w.offset, size |-> w.size, aligned |-> w.aligned,
             src |-> w.src, cells |-> w.cells]
    BY <1>1 DEF Reached
  <2> DEFINE new == NvmWrite(w.cells, w.offset,
                       [k \in 0..(whole - 1) |-> SourceByte(c, w.src + k)])
  <2>2. Body(c, w) = [w EXCEPT !.aligned = whole, !.cells = new]
    BY DEF Body
  <2> HIDE DEF whole, new
  <2>3. Body(c, w) = [offset |-> w.offset, size |-> w.size, aligned |-> whole,
                      src |-> w.src, cells |-> new]
    BY <2>1, <2>2
  <2> QED BY <2>3 DEF new
<1>6. /\ w.offset \in Nat /\ w.size \in Nat /\ w.src \in Nat
      /\ w.size <= w.aligned /\ w.aligned < w.size + WriteSize
      /\ lo <= w.offset /\ w.offset + w.aligned = hi
      /\ w.src + w.size = c.size
      /\ (w.size > 0 => w.offset = c.addr + w.src)
      /\ w.cells = Programmed(c, cells, lo, w.offset)
  BY <1>1 DEF Reached
<1> HIDE DEF lo, hi, body
<1>7. whole \in Nat /\ whole <= w.size /\ mid \in Nat /\ w.offset <= mid
      /\ (w.size # w.aligned => whole < w.size /\ w.size < whole + WriteSize
                                /\ mid + WriteSize = hi)
      /\ (w.size = w.aligned => whole = w.size /\ mid = hi)
  BY <1>2, <1>4, <1>6
<1>8. body.cells = Programmed(c, cells, lo, mid)
  <2> DEFINE bytes == [k \in 0..(whole - 1) |-> SourceByte(c, w.src + k)]
  <2> HIDE DEF whole, mid
  <2>1. mid - w.offset - 1 = whole - 1
    BY <1>6, <1>7 DEF mid
  <2>2. ASSUME NEW k \in 0..(whole - 1)
        PROVE  bytes[k] = Merged(c, w.offset + k)
    <3>1. w.offset + k \in BytesOf(c) /\ (w.offset + k) - c.addr = w.src + k
      BY <1>2, <1>6, <1>7 DEF BytesOf
    <3> QED BY <3>1 DEF Merged
  <2>3. DOMAIN bytes = 0..(whole - 1)
    OBVIOUS
  <2>5. w.offset \in Nat /\ w.offset <= mid /\ lo <= w.offset /\ mid \in Nat
    BY <1>6, <1>7
  <2> HIDE DEF bytes
  <2>4. NvmWrite(Programmed(c, cells, lo, w.offset), w.offset, bytes)
          = Programmed(c, cells, lo, mid)
    BY <1>2, <2>1, <2>2, <2>3, <2>5, ProgramOn
  <2> QED BY <1>5, <1>6, <2>4 DEF bytes
<1>9. CASE w.size = w.aligned
  <2>1. Tail(c, body) = body
    BY <1>5, <1>7, <1>9 DEF Tail
  <2>2. "cells" \in DOMAIN body
    BY <1>5
  <2> QED BY <1>7, <1>8, <1>9, <2>1, <2>2 DEF body, w, lo, hi
<1>10. CASE w.size # w.aligned
  <2> DEFINE part1 == w.size % WriteSize
             wu == [k \in 0..(WriteSize - 1) |->
                      IF k < part1 THEN SourceByte(c, w.src + whole + k)
                      ELSE cur[mid + k]]
  <2>1. part1 = w.size - whole
    <3>1. w.size = WriteSize * (i - 1) + (w.size - whole) /\ i - 1 \in Nat
      <4>1. i # 0
        BY <1>2, <1>3, <1>6, <1>10, Times
      <4>2. i - 1 \in Nat /\ i = (i - 1) + 1
        BY <4>1
      <4>3. WriteSize * i = WriteSize * (i - 1) + WriteSize * 1
        BY <4>2, Times
      <4>4. WriteSize * 1 = WriteSize /\ WriteSize * (i - 1) \in Nat
        BY <1>2, <4>2, Times
      <4>5. whole = WriteSize * (i - 1)
        BY <1>2, <1>3, <1>10, <4>3, <4>4
      <4> QED BY <1>6, <1>7, <4>2, <4>4, <4>5
    <3>2. w.size - whole \in 0..(WriteSize - 1)
      BY <1>2, <1>6, <1>7, <1>10
    <3>3. (WriteSize * (i - 1) + (w.size - whole)) % WriteSize = w.size - whole
      BY <3>1, <3>2, Rest
    <3> QED BY <3>1, <3>3
  <2>2. /\ "cells" \in DOMAIN Tail(c, body)
        /\ Tail(c, body).cells = NvmWrite(body.cells, mid, wu)
    <3>1. body.size # body.aligned /\ body.size = w.size /\ body.src = w.src
          /\ body.aligned = whole /\ body.offset = w.offset
      BY <1>5, <1>6, <1>7, <1>10
    <3>2. body = [offset |-> body.offset, size |-> body.size,
                  aligned |-> body.aligned, src |-> body.src,
                  cells |-> body.cells]
      BY <1>5
    <3> HIDE DEF whole
    <3> QED BY <3>1, <3>2 DEF Tail
  <2> HIDE DEF whole, mid, part1
  <2>3. ASSUME NEW k \in 0..(WriteSize - 1)
        PROVE  wu[k] = Merged(c, mid + k)
    <3>1. mid = c.addr + (w.src + whole)
      BY <1>2, <1>6, <1>7, <1>10 DEF mid
    <3>2. (mid + k) - c.addr = w.src + whole + k
          /\ (mid + k \in BytesOf(c) <=> k < part1)
      BY <1>2, <1>6, <1>7, <1>10, <2>1, <3>1 DEF BytesOf
    <3> QED BY <3>2 DEF Merged
  <2>4. hi - mid - 1 = WriteSize - 1 /\ mid <= hi /\ lo <= mid
    BY <1>2, <1>6, <1>7, <1>10
  <2>5. DOMAIN wu = 0..(WriteSize - 1)
    OBVIOUS
  <2> HIDE DEF wu
  <2>6. NvmWrite(Programmed(c, cells, lo, mid), mid, wu)
          = Programmed(c, cells, lo, hi)
    BY <1>2, <1>7, <2>3, <2>4, <2>5, ProgramOn
  <2> QED BY <1>8, <2>2, <2>6 DEF body, w, lo, hi
<1> QED BY <1>9, <1>10

(* A write outside of a transaction leaves the data, with its bytes over   *)
(* it, in the next slot: every unit is programmed once.                    *)
LEMMA BasicMerges ==
  ASSUME NEW c \in Calls, cur \in [Offsets -> Written],
         WriteSize * First(c) + WriteSize * Count(c) <= DataSize
  PROVE  BasicCore(c) = [b \in Offsets |-> Merged(c, b)]
<1> DEFINE lo == WriteSize * First(c)
           hi == WriteSize * First(c) + WriteSize * Count(c)
           head == [k \in 0..(lo - 1) |-> cur[k]]
           pre == NvmWrite(Blank, 0, head)
           w == Tail(c, Body(c, Head(c, Locals(c, pre))))
           rest == [k \in 0..(DataSize - hi - 1) |-> cur[hi + k]]
<1>1. /\ lo \in Nat /\ hi \in Nat /\ lo <= c.addr /\ c.addr + c.size <= hi
      /\ lo <= hi /\ c.addr \in Nat /\ c.size \in Nat /\ DataSize \in Nat
  BY Aligned, SizesAssumption DEF Calls
<1>2. pre = [b \in Offsets |-> IF b < lo THEN cur[b] ELSE Erased]
  <2>1. ASSUME NEW b \in Offsets
        PROVE  /\ b - 0 = b
               /\ b \in DOMAIN head <=> b < lo
               /\ b < lo => head[b] = cur[b]
    BY <1>1 DEF Offsets
  <2> HIDE DEF head, lo
  <2> QED BY <2>1 DEF NvmWrite, Blank
<1>3. pre \in [Offsets -> Cell]
  BY <1>2 DEF Cell, Byte
<1>4. Prefix(Locals(c, Blank)) = Locals(c, pre)
  <2>1. Locals(c, Blank).cells = Blank /\ Locals(c, Blank).offset = lo
    BY LocalsAre
  <2>2. Prefix(Locals(c, Blank)) = [Locals(c, Blank) EXCEPT !.cells = pre]
    BY <2>1 DEF Prefix
  <2> HIDE DEF pre
  <2> QED BY <2>2, LocalsAre
<1>5. "cells" \in DOMAIN w /\ w.cells = Programmed(c, pre, lo, hi)
  BY <1>3, CoreProgrammed
<1>6. Locals(c, Blank).offset + Locals(c, Blank).aligned = hi
  BY LocalsAre
<1>7. BasicCore(c) = NvmWrite(Programmed(c, pre, lo, hi), hi, rest)
  <2> HIDE DEF w, pre, hi
  <2>1. BasicCore(c) = Suffix(hi, w).cells
    BY <1>4, <1>6 DEF BasicCore, w
  <2>2. Suffix(hi, w).cells = NvmWrite(w.cells, hi, rest)
    BY <1>5 DEF Suffix
  <2> QED BY <1>5, <2>1, <2>2
<1>8. ASSUME NEW b \in Offsets
      PROVE  (IF b - hi \in DOMAIN rest
                THEN IF Programmed(c, pre, lo, hi)[b] = Erased THEN rest[b - hi]
                     ELSE Spoiled
                ELSE Programmed(c, pre, lo, hi)[b])
             = Merged(c, b)
  <2>1. b \in Nat /\ b < DataSize
    BY <1>1 DEF Offsets
  <2> HIDE DEF pre, lo, hi
  <2>2. CASE b < lo
    <3>1. b - hi \notin DOMAIN rest /\ b \notin BytesOf(c) /\ ~(lo <= b)
      BY <1>1, <2>1, <2>2 DEF BytesOf
    <3> HIDE DEF rest
    <3> QED BY <1>2, <2>2, <3>1 DEF Programmed, Merged
  <2>3. CASE lo <= b /\ b < hi
    <3>1. b - hi \notin DOMAIN rest /\ ~(b < lo)
      BY <1>1, <2>1, <2>3
    <3> HIDE DEF rest
    <3> QED BY <1>2, <2>3, <3>1 DEF Programmed
  <2>4. CASE hi <= b
    <3>1. /\ b - hi \in DOMAIN rest /\ hi + (b - hi) = b
          /\ b \notin BytesOf(c) /\ ~(b < lo) /\ ~(b < hi)
      BY <1>1, <2>1, <2>4 DEF BytesOf
    <3>2. rest[b - hi] = cur[b]
      BY <3>1
    <3> HIDE DEF rest
    <3> QED BY <1>2, <3>1, <3>2 DEF Programmed, Merged
  <2> QED BY <1>1, <2>1, <2>2, <2>3, <2>4
<1> HIDE DEF rest, pre, lo, hi
<1> QED BY <1>7, <1>8 DEF NvmWrite

-----------------------------------------------------------------------------
(* Checks and tracker.                                                     *)

(* What a call that is accepted satisfies.                                 *)
Fits(c) ==
  /\ WriteSize * First(c) + WriteSize * Count(c) <= DataSize
  /\ c.src = None \/ c.src + c.size <= DataSize

LEMMA Accepted ==
  ASSUME NEW c \in Calls, Check(c) = None, ~Void(c)
  PROVE  /\ c.op \in Writes => Fits(c)
         /\ c.op \in TransactionWrites \cup {"commit", "transaction_read"} =>
              tracker # None
         /\ c.op \in TransactionWrites => Span(c) \cap tracker = {}
         /\ c.op = "transaction_write" =>
              Misalignment(c) = 0 /\ c.size % WriteSize = 0
         /\ c.op = "basic_write" => tracker = None
         /\ c.op = "read" => c.addr + c.size <= DataSize
<1>1. {"NO_TRANSACTION", "TRANSACTION_OVERWRITE", "BASE_MISALIGNED",
       "SIZE_MISALIGNED", "FIRST_NOT_IN_DATA", "LAST_NOT_IN_DATA",
       "TRANSACTION_ONGOING"} \subseteq Errors
  BY DEF Errors
<1>2. \A e \in Errors : e # None
  BY NoneAssumption
<1>3. /\ Locals(c, Blank).offset = WriteSize * First(c)
      /\ Locals(c, Blank).aligned = WriteSize * Count(c)
  BY LocalsAre
<1> DEFINE limit == WriteSize * First(c) + WriteSize * Count(c)
           source == IF c.src = None THEN 0 ELSE c.src + c.size
<1>4. limit \in Nat /\ source \in Nat /\ c.addr + c.size \in Nat /\ DataSize \in Nat
  <2>1. limit \in Nat
    BY Aligned
  <2>2. c.addr \in Nat /\ c.size \in Nat /\ c.src \in {None} \cup AreaSources
        /\ DataSize \in Nat
    BY SizesAssumption DEF Calls, Sources
  <2>3. source \in Nat
    <3>1. CASE c.src = None
      BY <3>1
    <3>2. CASE c.src # None
      <4>1. c.src \in Nat
        BY <2>2, <3>2, FlagAssumption
      <4> QED BY <2>2, <3>2, <4>1
    <3> QED BY <3>1, <3>2
  <2> QED BY <2>1, <2>2, <2>3
<1> HIDE DEF limit
<1>5. /\ ~(c.op \in Writes /\ (limit > DataSize \/ source > DataSize))
      /\ ~(c.op = "read" /\ c.addr + c.size > DataSize)
  BY <1>1, <1>2, <1>3 DEF Check, limit
<1>6. /\ ~(c.op \in TransactionWrites \cup {"commit", "transaction_read"}
           /\ tracker = None)
      /\ ~(c.op \in TransactionWrites /\ Span(c) \cap tracker # {})
      /\ ~(c.op = "transaction_write" /\ Misalignment(c) # 0)
      /\ ~(c.op = "transaction_write" /\ c.size % WriteSize # 0)
      /\ ~(c.op = "basic_write" /\ tracker # None)
  BY <1>1, <1>2 DEF Check
<1> QED BY <1>4, <1>5, <1>6 DEF Fits, limit

(* Errors are errors.                                                      *)
LEMMA CheckTyped == \A c : Check(c) \in Errors \cup {None}
BY DEF Check, Errors

(* The units marked are the units around the bytes.                        *)
LEMMA SpanIs ==
  ASSUME NEW c \in Calls,
         c.op = "transaction_write" =>
           Misalignment(c) = 0 /\ c.size % WriteSize = 0
  PROVE  Span(c) = First(c) .. (First(c) + Count(c) - 1)
<1>1. CASE c.op = "transaction_write" \/ IsAligned(c)
  <2> DEFINE q == c.size \div WriteSize
  <2>1. Misalignment(c) = 0 /\ c.size % WriteSize = 0
    BY <1>1 DEF IsAligned
  <2>2. c.size \in Nat /\ q \in Nat /\ c.size = (WriteSize * q) + 0
    BY <2>1, Division DEF Calls
  <2>3. /\ Count(c) \in Nat /\ WriteSize * Count(c) \in Nat
        /\ c.size + 0 <= WriteSize * Count(c)
        /\ WriteSize * Count(c) < c.size + 0 + WriteSize
    BY <2>1, Aligned
  <2>4. /\ q < Count(c) => WriteSize * q + WriteSize <= WriteSize * Count(c)
        /\ Count(c) < q => WriteSize * Count(c) + WriteSize <= WriteSize * q
        /\ WriteSize * q \in Nat
    BY <2>2, <2>3, Times
  <2> DEFINE x == WriteSize * q
             y == WriteSize * Count(c)
  <2>5. /\ x \in Nat /\ y \in Nat /\ x <= y /\ y < x + WriteSize
        /\ q < Count(c) => x + WriteSize <= y
        /\ Count(c) < q => y + WriteSize <= x
    BY <2>2, <2>3, <2>4
  <2> HIDE DEF x, y, q
  <2>6. q = Count(c)
    BY <2>2, <2>3, <2>5, SizesAssumption
  <2> QED BY <1>1, <2>6 DEF Span, First, q
<1>2. CASE ~(c.op = "transaction_write" \/ IsAligned(c))
  BY <1>2 DEF Span, First, Count
<1> QED BY <1>1, <1>2

LEMMA InSpan ==
  ASSUME NEW c \in Calls, NEW b \in Nat
  PROVE  b \div WriteSize \in First(c) .. (First(c) + Count(c) - 1)
           <=> /\ WriteSize * First(c) <= b
               /\ b < WriteSize * First(c) + WriteSize * Count(c)
<1> DEFINE f == First(c)
           n == Count(c)
           u == b \div WriteSize
<1>1. f \in Nat /\ n \in Nat /\ f + n \in Nat /\ u \in Nat
      /\ WriteSize * (f + n) \in Nat
  <2>1. f \in Nat /\ n \in Nat /\ u \in Nat
    BY Aligned, Division
  <2>2. f + n \in Nat
    BY <2>1
  <2>3. WriteSize * (f + n) \in Nat
    BY <2>2, Times
  <2> QED BY <2>1, <2>2, <2>3
<1>2. f <= u <=> WriteSize * f <= b
  BY <1>1, FromUnit
<1>3. f + n <= u <=> WriteSize * (f + n) <= b
  BY <1>1, FromUnit
<1>4. WriteSize * (f + n) = WriteSize * f + WriteSize * n
  BY <1>1, Times
<1> HIDE DEF f, n, u
<1>5. u \in f .. (f + n - 1) <=> f <= u /\ ~(f + n <= u)
  BY <1>1
<1>6. ~(f + n <= u) <=> b < WriteSize * (f + n)
  BY <1>1, <1>3
<1> QED BY <1>2, <1>4, <1>5, <1>6 DEF f, n, u

(* No unit was marked before: the loop marks all.                          *)
LEMMA AllMarked ==
  ASSUME NEW c, Span(c) \cap tracker = {}
  PROVE  Marked(c) = Span(c)
BY DEF Marked

LEMMA SpanTyped ==
  ASSUME NEW c \in Calls
  PROVE  Span(c) \in Trackers
<1> DEFINE f == First(c)
           n == Count(c)
           q == c.size \div WriteSize
<1>1. /\ f \in Nat /\ n \in Nat /\ q \in Nat /\ DataSize \in Nat
      /\ c.size \in 0..DataSize /\ c.addr \in 0..(DataSize + 1)
      /\ Misalignment(c) \in Nat /\ WriteSize \in Nat \ {0}
  BY Aligned, Division, SizesAssumption DEF Calls
<1>2. q <= n
  <2>1. c.size <= WriteSize * n /\ c.size = (WriteSize * q) + (c.size % WriteSize)
        /\ c.size % WriteSize \in Nat
    <3>1. c.size \in Nat
      BY <1>1
    <3>2. /\ c.size % WriteSize \in 0..(WriteSize - 1)
          /\ c.size = (WriteSize * q) + (c.size % WriteSize)
      BY <3>1, Division
    <3>3. WriteSize * n \in Nat /\ c.size + Misalignment(c) <= WriteSize * n
      BY Aligned
    <3> DEFINE x == WriteSize * n
    <3> HIDE DEF x
    <3>4. c.size <= x
      BY <1>1, <3>1, <3>3 DEF x
    <3> QED BY <3>2, <3>4 DEF x
  <2>2. n < q => WriteSize * n + WriteSize <= WriteSize * q
    BY <1>1, Times
  <2> DEFINE x == WriteSize * n
             y == WriteSize * q
             r == c.size % WriteSize
  <2>3. /\ x \in Nat /\ y \in Nat /\ c.size <= x /\ c.size = y + r /\ r \in Nat
        /\ (n < q => x + WriteSize <= y)
    BY <1>1, <2>1, <2>2, Times
  <2> HIDE DEF x, y, r, n, q
  <2> QED BY <1>1, <2>3
<1>3. f + n - 1 <= 2 * DataSize
  <2>1. CASE f + n = 0
    BY <1>1, <2>1
  <2>2. CASE f + n # 0
    <3> DEFINE k == f + n - 1
               x == WriteSize * f
               y == WriteSize * n
               z == WriteSize * k
    <3>1. k \in Nat /\ f + n = k + 1
      BY <1>1, <2>2
    <3>2. WriteSize * (f + n) = x + y /\ WriteSize * (k + 1) = z + WriteSize * 1
          /\ WriteSize * 1 = WriteSize /\ z \in Nat
      BY <1>1, <3>1, Times
    <3>3. /\ c.addr = x + Misalignment(c) /\ x \in Nat /\ y \in Nat
          /\ y < c.size + Misalignment(c) + WriteSize
      BY Aligned
    <3>4. k <= z
      BY <1>1, <3>1
    <3> HIDE DEF x, y, z
    <3>5. z < c.addr + c.size
      BY <1>1, <3>1, <3>2, <3>3
    <3> QED BY <1>1, <3>1, <3>2, <3>4, <3>5
  <2> QED BY <2>1, <2>2
<1>4. Span(c) \subseteq f .. (f + n - 1)
  <2>1. Span(c) = f .. (f + q - 1) \/ Span(c) = f .. (f + n - 1)
    BY DEF Span, First, Count
  <2> HIDE DEF f, n, q
  <2>2. \A u \in f .. (f + q - 1) : u \in f .. (f + n - 1)
    BY <1>1, <1>2
  <2> QED BY <2>1, <2>2
<1>5. ASSUME NEW u \in Span(c)
      PROVE  u \in 0..(2 * DataSize)
  <2> HIDE DEF f, n
  <2> QED BY <1>1, <1>3, <1>4
<1> QED BY <1>5 DEF Trackers

-----------------------------------------------------------------------------
(* The inductive invariant.                                                *)

(* What the next slot holds in a transaction: the units that are marked    *)
(* were programmed, once, with the bytes of the transaction over the       *)
(* current data, or marked for nothing by a write that was refused; the    *)
(* others are erased.                                                      *)
NextSlot ==
  tracker # None =>
    \A b \in Offsets :
      IF b \div WriteSize \in tracker
        THEN \/ next[b] = IF b \in DOMAIN txn THEN txn[b] ELSE cur[b]
             \/ spoiled
        ELSE next[b] = Erased /\ b \notin DOMAIN txn

(* After a refusal no commit and no read of the transaction, and those are *)
(* inside the data.                                                        *)
Disciplined ==
  call # None =>
    /\ call.op \in {"commit", "transaction_read"} => ~spoiled
    /\ call.op = "transaction_read" => call.addr + call.size <= DataSize

(* The current slot is never erased, nor a transaction without writes.     *)
WInv ==
  /\ TypeOK
  /\ cur \in [Offsets -> Written]
  /\ \A b \in Offsets : next[b] # Spoiled
  /\ tracker = None <=> txn = None
  /\ txn # None => txn \in [DOMAIN txn -> Written]
  /\ NextSlot
  /\ Disciplined

LEMMA InitWInv == Init => WInv
<1> SUFFICES ASSUME Init PROVE WInv
  OBVIOUS
<1>1. \A b \in Offsets : <<0, b>> \in Written
  BY SizesAssumption, FlagAssumption DEF Offsets, Written
<1>2. next \in [Offsets -> Cell] /\ \A b \in Offsets : next[b] # Spoiled
  BY ValueAssumption DEF Init, Blank, Cell, Byte
<1>3. cur \in [Offsets -> Written] /\ cur \in [Offsets -> Byte]
  BY <1>1 DEF Init, Byte
<1>4. calls \in 0..MaxCalls
  BY FlagAssumption DEF Init
<1> QED BY <1>2, <1>3, <1>4 DEF Init, WInv, TypeOK, NextSlot, Disciplined

(* What a write takes from its source was written before, or is being.     *)
LEMMA SourceTyped ==
  ASSUME NEW c \in Calls, WInv, c.src = None \/ c.src + c.size <= DataSize,
         NEW k \in 0..(c.size - 1)
  PROVE  SourceByte(c, k) \in Written
<1>1. c.size \in 0..DataSize /\ calls \in 0..MaxCalls /\ DataSize \in Nat
      /\ cur \in [Offsets -> Written] /\ c.src \in {None} \cup AreaSources
  BY SizesAssumption DEF Calls, Sources, WInv, TypeOK
<1>2. CASE c.src = None
  <2>1. k \in 0..DataSize
    BY <1>1
  <2> QED BY <1>1, <1>2, <2>1 DEF SourceByte, Written
<1>3. CASE c.src # None
  <2>1. c.src \in Nat
    BY <1>1, <1>3, FlagAssumption
  <2>2. c.src + k \in Offsets
    BY <1>1, <1>3, <2>1 DEF Offsets
  <2> QED BY <1>1, <1>3, <2>2 DEF SourceByte
<1> QED BY <1>2, <1>3

LEMMA MergedTyped ==
  ASSUME NEW c \in Calls, WInv, Fits(c), NEW b \in Offsets
  PROVE  Merged(c, b) \in Written
<1>1. CASE b \in BytesOf(c)
  <2>1. b - c.addr \in 0..(c.size - 1)
    BY <1>1, SizesAssumption DEF BytesOf, Calls, Offsets
  <2>2. SourceByte(c, b - c.addr) \in Written
    BY <2>1, SourceTyped DEF Fits
  <2> QED BY <1>1, <2>2 DEF Merged
<1>2. CASE b \notin BytesOf(c)
  BY <1>2 DEF Merged, WInv
<1> QED BY <1>1, <1>2

(* The bytes of a call that fits are in the area, and in the units around. *)
LEMMA BytesInside ==
  ASSUME NEW c \in Calls, Fits(c)
  PROVE  /\ BytesOf(c) \subseteq Offsets
         /\ \A b \in BytesOf(c) :
              /\ WriteSize * First(c) <= b
              /\ b < WriteSize * First(c) + WriteSize * Count(c)
<1> DEFINE lo == WriteSize * First(c)
           n == WriteSize * Count(c)
<1>1. /\ lo \in Nat /\ n \in Nat /\ lo + n <= DataSize /\ DataSize \in Nat
      /\ c.addr = lo + Misalignment(c) /\ Misalignment(c) \in Nat
      /\ c.size + Misalignment(c) <= n /\ c.size \in Nat
  BY Aligned, SizesAssumption DEF Fits, Calls
<1> HIDE DEF lo, n
<1>2. \A b \in BytesOf(c) : b \in Nat /\ lo <= b /\ b < lo + n
  BY <1>1 DEF BytesOf
<1>3. \A b \in BytesOf(c) : b \in Offsets
  BY <1>1, <1>2 DEF Offsets
<1> QED BY <1>2, <1>3 DEF lo, n

-----------------------------------------------------------------------------
(* Each operation keeps the invariant.                                     *)

LEMMA BasicWriteKeeps ==
  ASSUME WInv, BasicWrite
  PROVE  /\ WInv'
         /\ cur' = [b \in Offsets |-> Merged(call, b)]
<1>1. call \in Calls /\ call # None /\ call.op = "basic_write"
      /\ Check(call) = None /\ ~Void(call)
  BY DEF BasicWrite, Execute, WInv, TypeOK
<1>2. Fits(call) /\ tracker = None
  BY <1>1, Accepted DEF Writes
<1>3. cur' = [b \in Offsets |-> Merged(call, b)]
  <2>1. cur \in [Offsets -> Written]
    BY DEF WInv
  <2>2. BasicCore(call) = [b \in Offsets |-> Merged(call, b)]
    BY <1>1, <1>2, <2>1, BasicMerges DEF Fits
  <2> QED BY <2>2 DEF BasicWrite
<1>4. cur' \in [Offsets -> Written]
  BY <1>1, <1>2, <1>3, MergedTyped
<1>5. cur' \in [Offsets -> Byte]
  BY <1>4 DEF Byte
<1>6. next' \in [Offsets -> Cell] /\ \A b \in Offsets : next'[b] # Spoiled
  BY ValueAssumption DEF BasicWrite, Blank, Cell, Byte
<1>7. call' = None /\ UNCHANGED <<tracker, err, spoiled, calls, txn, out>>
  BY DEF BasicWrite, Execute, Return
<1>8. TypeOK'
  BY <1>5, <1>6, <1>7 DEF TypeOK, WInv
<1>9. NextSlot' /\ Disciplined'
  BY <1>2, <1>7 DEF NextSlot, Disciplined
<1> QED BY <1>3, <1>4, <1>6, <1>7, <1>8, <1>9 DEF WInv

(* A transaction write: the units around its bytes were erased.            *)
LEMMA TransactionWriteKeeps ==
  ASSUME WInv, TransactionWrite
  PROVE  /\ WInv'
         /\ txn # None /\ txn' # None /\ BytesOf(call) \cap DOMAIN txn = {}
         /\ BytesOf(call) \subseteq Offsets
<1>1. call \in Calls /\ call # None /\ call.op \in TransactionWrites
      /\ Check(call) = None /\ ~Void(call)
  BY DEF TransactionWrite, Execute, WInv, TypeOK, Void, TransactionWrites
<1>2. /\ Fits(call) /\ tracker # None /\ Span(call) \cap tracker = {}
      /\ Span(call) = First(call) .. (First(call) + Count(call) - 1)
  BY <1>1, Accepted, SpanIs DEF Writes
<1>3. /\ tracker' = tracker \cup Span(call) /\ call' = None
      /\ next' = TransactionCore(call)
      /\ txn' = [b \in DOMAIN txn \cup BytesOf(call) |->
                   IF b \in BytesOf(call) THEN SourceByte(call, b - call.addr)
                   ELSE txn[b]]
      /\ UNCHANGED <<cur, err, spoiled, calls, out>>
  BY <1>2, AllMarked DEF TransactionWrite, Execute, Return
<1> DEFINE lo == WriteSize * First(call)
           hi == WriteSize * First(call) + WriteSize * Count(call)
           Here(b) == lo <= b /\ b < hi
<1>4. ASSUME NEW b \in Offsets
      PROVE  b \div WriteSize \in Span(call) <=> Here(b)
  BY <1>1, <1>2, InSpan, SizesAssumption DEF Offsets
<1>5. ASSUME NEW b \in BytesOf(call)
      PROVE  b \in Offsets /\ Here(b)
  BY <1>1, <1>2, BytesInside
<1>6. /\ txn # None /\ DOMAIN txn \subseteq Offsets /\ txn \in [DOMAIN txn -> Written]
      /\ next \in [Offsets -> Cell] /\ tracker \in Trackers
  BY <1>2 DEF WInv, TypeOK
<1>7. ASSUME NEW b \in Offsets
      PROVE  /\ b \div WriteSize \in tracker =>
                  \/ next[b] = IF b \in DOMAIN txn THEN txn[b] ELSE cur[b]
                  \/ spoiled
             /\ b \div WriteSize \notin tracker => next[b] = Erased /\ b \notin DOMAIN txn
  BY <1>2 DEF WInv, NextSlot
<1>8. next' = Programmed(call, next, lo, hi)
  BY <1>1, <1>3, <1>6, CoreProgrammed DEF TransactionCore
<1> HIDE DEF lo, hi
<1>9. ASSUME NEW b \in Offsets
      PROVE  next'[b] = IF Here(b) THEN Merged(call, b) ELSE next[b]
  <2>1. Here(b) => next[b] = Erased
    BY <1>2, <1>4, <1>7
  <2> QED BY <1>8, <2>1 DEF Programmed
<1>10. ASSUME NEW b \in Offsets
       PROVE  Merged(call, b) \in Written
  BY <1>1, <1>2, MergedTyped
<1>11. next' \in [Offsets -> Cell] /\ \A b \in Offsets : next'[b] # Spoiled
  <2>1. next' = [b \in Offsets |-> IF Here(b) THEN Merged(call, b) ELSE next[b]]
    <3> HIDE DEF Here
    <3>1. next' = [b \in Offsets |-> next'[b]]
      BY <1>8 DEF Programmed
    <3> QED BY <1>9, <3>1
  <2>2. \A b \in Offsets : next[b] # Spoiled /\ next[b] \in Cell
    BY <1>6 DEF WInv
  <2>3. \A b \in Offsets : Merged(call, b) # Spoiled /\ Merged(call, b) \in Cell
    BY <1>10, ValueAssumption DEF Cell, Byte
  <2> HIDE DEF Here
  <2> QED BY <2>1, <2>2, <2>3
<1>12. BytesOf(call) \cap DOMAIN txn = {}
  BY <1>2, <1>4, <1>5, <1>7
<1>13. ASSUME NEW b \in BytesOf(call)
       PROVE  SourceByte(call, b - call.addr) \in Written
  BY <1>5, <1>10 DEF Merged
<1>14. /\ txn' # None /\ DOMAIN txn' \subseteq Offsets
       /\ txn' \in [DOMAIN txn' -> Written] /\ txn' \in [DOMAIN txn' -> Byte]
  <2>1. DOMAIN txn' = DOMAIN txn \cup BytesOf(call) /\ DOMAIN txn' \subseteq Offsets
    BY <1>3, <1>5, <1>6
  <2>2. txn' \in [DOMAIN txn' -> Written]
    BY <1>3, <1>6, <1>13, <2>1
  <2>3. txn' \in [DOMAIN txn' -> Byte]
    BY <2>2 DEF Byte
  <2>4. DOMAIN txn' \in SUBSET Offsets
    BY <2>1
  <2>5. txn' # None
    BY <2>3, <2>4, NoneAssumption
  <2> QED BY <2>1, <2>2, <2>3, <2>5
<1>15. tracker' \in Trackers /\ tracker' # None
  <2>1. tracker' \in Trackers
    BY <1>1, <1>3, <1>6, SpanTyped DEF Trackers
  <2> QED BY <2>1, NoneAssumption
<1>16. NextSlot'
  <2> SUFFICES ASSUME NEW b \in Offsets
               PROVE  IF b \div WriteSize \in tracker'
                        THEN \/ next'[b] = IF b \in DOMAIN txn' THEN txn'[b] ELSE cur'[b]
                             \/ spoiled'
                        ELSE next'[b] = Erased /\ b \notin DOMAIN txn'
    BY DEF NextSlot
  <2>1. CASE Here(b)
    <3>1. b \div WriteSize \in tracker' /\ b \notin DOMAIN txn
      BY <1>2, <1>3, <1>4, <1>7, <2>1
    <3>2. next'[b] = Merged(call, b)
      BY <1>9, <2>1
    <3> QED BY <1>3, <3>1, <3>2 DEF Merged
  <2>2. CASE ~Here(b)
    <3>1. b \notin BytesOf(call)
      BY <1>5, <2>2
    <3>2. next'[b] = next[b] /\ (b \div WriteSize \in tracker' <=> b \div WriteSize \in tracker)
      BY <1>3, <1>4, <1>9, <2>2
    <3>3. /\ b \in DOMAIN txn' <=> b \in DOMAIN txn
          /\ b \in DOMAIN txn => txn'[b] = txn[b]
          /\ cur' = cur /\ spoiled' = spoiled
      BY <1>3, <3>1
    <3> QED BY <1>7, <3>2, <3>3
  <2> QED BY <2>1, <2>2
<1>17. TypeOK'
  BY <1>3, <1>11, <1>14, <1>15 DEF TypeOK, WInv
<1>18. WInv'
  BY <1>3, <1>11, <1>14, <1>15, <1>16, <1>17 DEF WInv, Disciplined
<1> QED BY <1>5, <1>6, <1>12, <1>14, <1>18

(* A commit completes the transaction with what it did not write.          *)
LEMMA CommitKeeps ==
  ASSUME WInv, Commit
  PROVE  /\ WInv'
         /\ tracker # None
         /\ cur' = [b \in Offsets |-> IF b \in DOMAIN txn THEN txn[b] ELSE cur[b]]
<1>1. call \in Calls /\ call # None /\ call.op = "commit"
      /\ Check(call) = None /\ ~Void(call)
  BY DEF Commit, Execute, WInv, TypeOK, Void
<1>2. tracker # None /\ ~spoiled
  BY <1>1, Accepted DEF WInv, Disciplined
<1>3. ASSUME NEW b \in Offsets
      PROVE  (IF b \div WriteSize \in tracker THEN next[b]
              ELSE IF next[b] = Erased THEN cur[b] ELSE Spoiled)
             = IF b \in DOMAIN txn THEN txn[b] ELSE cur[b]
  BY <1>2 DEF WInv, NextSlot
<1>4. cur' = [b \in Offsets |-> IF b \in DOMAIN txn THEN txn[b] ELSE cur[b]]
  BY <1>3 DEF Commit
<1>5. txn \in [DOMAIN txn -> Written] /\ cur \in [Offsets -> Written]
  BY <1>2 DEF WInv
<1>6. cur' \in [Offsets -> Written]
  BY <1>4, <1>5
<1>7. cur' \in [Offsets -> Byte]
  BY <1>6 DEF Byte
<1>8. next' \in [Offsets -> Cell] /\ \A b \in Offsets : next'[b] # Spoiled
  BY ValueAssumption DEF Commit, Blank, Cell, Byte
<1>9. call' = None /\ tracker' = None /\ txn' = None
      /\ UNCHANGED <<err, spoiled, calls, out>>
  BY DEF Commit, Execute, Return
<1>10. TypeOK'
  BY <1>7, <1>8, <1>9 DEF TypeOK, WInv
<1> QED BY <1>2, <1>4, <1>6, <1>8, <1>9, <1>10 DEF WInv, NextSlot, Disciplined

(* A read returns the data.                                                *)
LEMMA ReadKeeps ==
  ASSUME WInv, Read
  PROVE  WInv' /\ BytesOf(call) \subseteq Offsets
<1>1. call \in Calls /\ call # None /\ call.op = "read"
      /\ Check(call) = None /\ ~Void(call)
  BY DEF Read, Execute, WInv, TypeOK
<1>2. call.addr + call.size <= DataSize
  BY <1>1, Accepted
<1>3. BytesOf(call) \subseteq Offsets
  <2>1. call.addr \in Nat /\ call.size \in Nat /\ DataSize \in Nat
    BY <1>1, SizesAssumption DEF Calls
  <2> QED BY <1>2, <2>1 DEF BytesOf, Offsets
<1>4. out' = [b \in BytesOf(call) |-> cur[b]] /\ call' = None
      /\ UNCHANGED <<cur, next, tracker, err, spoiled, calls, txn>>
  BY DEF Read, Execute, Return
<1>5. DOMAIN out' \subseteq Offsets /\ out' \in [DOMAIN out' -> Cell]
  BY <1>3, <1>4 DEF WInv, Cell, Byte
<1> QED BY <1>3, <1>4, <1>5 DEF WInv, TypeOK, NextSlot, Disciplined

(* The units a read in a transaction delivers are in the data, and are     *)
(* those it names if it names whole ones.                                  *)
LEMMA DeliveredInside ==
  ASSUME NEW c \in Calls, c.addr + c.size <= DataSize
  PROVE  /\ Delivered(c) \subseteq Offsets
         /\ IsAligned(c) => Delivered(c) = BytesOf(c)
<1> DEFINE m == Misalignment(c)
           x == WriteSize * (c.size \div WriteSize)
           r == c.size % WriteSize
<1>1. /\ c.addr \in Nat /\ c.size \in Nat /\ DataSize \in Nat
      /\ m \in Nat /\ WriteSize * First(c) \in Nat
      /\ c.addr = (WriteSize * First(c)) + m
  BY Aligned, SizesAssumption DEF Calls
<1>2. /\ c.size \div WriteSize \in Nat /\ c.size = x + r
      /\ r \in 0..(WriteSize - 1)
  BY <1>1, Division
<1>3. x \in Nat /\ (c.size \div WriteSize) * WriteSize = x
  BY <1>2, Times
<1>4. Delivered(c) = (c.addr - m) .. (c.addr - m + x - 1)
  BY <1>3 DEF Delivered
<1>5. IsAligned(c) <=> m = 0 /\ r = 0
  BY DEF IsAligned
<1>6. m <= c.addr
  <2> DEFINE f == WriteSize * First(c)
  <2>1. f \in Nat /\ c.addr = f + m
    BY <1>1
  <2> HIDE DEF f, m
  <2> QED BY <1>1, <2>1
<1> HIDE DEF m, x, r
<1>7. Delivered(c) \subseteq Offsets
  <2>1. r \in Nat /\ x <= c.size
    BY <1>1, <1>2, <1>3, SizesAssumption
  <2> QED BY <1>1, <1>3, <1>4, <1>6, <2>1 DEF Offsets
<1>8. IsAligned(c) => Delivered(c) = BytesOf(c)
  BY <1>1, <1>2, <1>3, <1>4, <1>5 DEF BytesOf
<1> QED BY <1>7, <1>8

(* A read in a transaction returns what it wrote over the data.            *)
LEMMA TransactionReadKeeps ==
  ASSUME WInv, TransactionRead
  PROVE  /\ WInv' /\ tracker # None
         /\ Delivered(call) \subseteq Offsets
         /\ out' = [b \in Delivered(call) |->
                      IF b \in DOMAIN txn THEN txn[b] ELSE cur[b]]
<1>1. call \in Calls /\ call # None /\ call.op = "transaction_read"
      /\ Check(call) = None /\ ~Void(call)
  BY DEF TransactionRead, Execute, WInv, TypeOK, Void
<1>2. tracker # None
  BY <1>1, Accepted
<1>3. ~spoiled /\ call.addr + call.size <= DataSize
  BY <1>1 DEF WInv, Disciplined
<1>4. Delivered(call) \subseteq Offsets
  BY <1>1, <1>3, DeliveredInside
<1>5. ASSUME NEW b \in Delivered(call)
      PROVE  (IF b \div WriteSize \in tracker THEN next[b] ELSE cur[b])
             = IF b \in DOMAIN txn THEN txn[b] ELSE cur[b]
  <2>1. b \in Offsets
    BY <1>4
  <2> QED BY <1>2, <1>3, <2>1 DEF WInv, NextSlot
<1>6. out' = [b \in Delivered(call) |-> IF b \in DOMAIN txn THEN txn[b] ELSE cur[b]]
  BY <1>5 DEF TransactionRead
<1>7. txn \in [DOMAIN txn -> Written] /\ cur \in [Offsets -> Written]
  BY <1>2 DEF WInv
<1>8. DOMAIN out' \subseteq Offsets /\ out' \in [DOMAIN out' -> Cell]
  BY <1>4, <1>6, <1>7 DEF Cell, Byte
<1>9. call' = None /\ UNCHANGED <<cur, next, tracker, err, spoiled, calls, txn>>
  BY DEF TransactionRead, Execute, Return
<1>10. WInv'
  BY <1>8, <1>9 DEF WInv, TypeOK, NextSlot, Disciplined
<1> QED BY <1>2, <1>4, <1>6, <1>10

(* The application calls a function.                                       *)
LEMMA CallKeeps ==
  ASSUME WInv, CallWrite \/ CallCommit \/ CallRead \/ CallTransactionRead
  PROVE  /\ WInv'
         /\ Idle /\ call' \in Calls /\ call' # None
         /\ UNCHANGED <<cur, next, tracker, spoiled, txn, out>>
<1>1. ASSUME NEW op \in Writes \cup {"read", "transaction_read", "commit"},
             NEW range \in Ranges \cup {<<0, 0>>}, NEW src \in Sources,
             Call(op, range, src), calls' \in 0..MaxCalls, Idle,
             op \in {"commit", "transaction_read"} => ~spoiled,
             op = "transaction_read" => range[1] + range[2] <= DataSize
      PROVE  /\ WInv'
             /\ Idle /\ call' \in Calls /\ call' # None
             /\ UNCHANGED <<cur, next, tracker, spoiled, txn, out>>
  <2>1. range[1] \in 0..(DataSize + 1) /\ range[2] \in 0..DataSize
    BY <1>1, SizesAssumption DEF Ranges
  <2>2. call' = [op |-> op, addr |-> range[1], size |-> range[2], src |-> src]
        /\ UNCHANGED <<cur, next, tracker, err, spoiled, txn, out>>
    BY <1>1 DEF Call
  <2>3. call' \in Calls
    BY <2>1, <2>2 DEF Calls
  <2>4. call' # None
    BY <2>3, NoneAssumption
  <2>5. Disciplined'
    BY <1>1, <2>2 DEF Disciplined
  <2> QED BY <1>1, <2>2, <2>3, <2>4, <2>5 DEF WInv, TypeOK, NextSlot
<1>2. calls \in 0..MaxCalls /\ MaxCalls \in Nat
  BY FlagAssumption DEF WInv, TypeOK
<1>3. CASE CallWrite
  <2>1. calls' \in 0..MaxCalls
    BY <1>2, <1>3 DEF CallWrite
  <2>2. PICK op \in Writes, range \in Ranges, src \in Sources :
          Call(op, range, src)
    BY <1>3 DEF CallWrite
  <2> QED BY <1>1, <1>3, <2>1, <2>2 DEF CallWrite, Writes, TransactionWrites
<1>4. CASE CallCommit
  <2>1. <<0, 0>> \in Ranges \cup {<<0, 0>>} /\ None \in Sources
    BY DEF Sources
  <2> QED BY <1>1, <1>2, <1>4, <2>1 DEF CallCommit
<1>5. CASE CallRead
  <2>1. PICK range \in Ranges : Call("read", range, None)
    BY <1>5 DEF CallRead
  <2> QED BY <1>1, <1>2, <1>5, <2>1 DEF CallRead, TransactionWrites, Sources
<1>6. CASE CallTransactionRead
  <2>1. PICK range \in Ranges :
          /\ range[1] + range[2] <= DataSize
          /\ Call("transaction_read", range, None)
    BY <1>6 DEF CallTransactionRead
  <2> QED BY <1>1, <1>2, <1>6, <2>1 DEF CallTransactionRead, Sources
<1> QED BY <1>3, <1>4, <1>5, <1>6

(* A refused transaction write has marked some of its units.               *)
LEMMA RefuseKeeps ==
  ASSUME WInv, Refuse
  PROVE  WInv' /\ call' = None /\ UNCHANGED <<cur, txn, out>>
<1>1. call \in Calls /\ call # None /\ Check(call) # None /\ call' = None
      /\ err' \in Errors /\ UNCHANGED <<cur, next, calls, txn, out>>
  BY CheckTyped DEF Refuse, Return, WInv, TypeOK
<1>2. CASE call.op \in TransactionWrites /\ tracker # None
  <2>1. tracker' = tracker \cup Marked(call) /\ spoiled' = TRUE
    BY <1>2 DEF Refuse
  <2>2. Marked(call) \subseteq Span(call)
    BY DEF Marked
  <2>3. tracker' \in Trackers
    BY <1>1, <1>2, <2>1, <2>2, SpanTyped DEF WInv, TypeOK, Trackers
  <2>4. tracker' # None
    BY <2>3, NoneAssumption
  <2>5. NextSlot'
    BY <1>1, <1>2, <2>1 DEF WInv, NextSlot
  <2> QED BY <1>1, <1>2, <2>1, <2>3, <2>4, <2>5 DEF WInv, TypeOK, Disciplined
<1>3. CASE ~(call.op \in TransactionWrites /\ tracker # None)
  <2>1. UNCHANGED <<tracker, spoiled>>
    BY <1>3 DEF Refuse
  <2> QED BY <1>1, <2>1 DEF WInv, TypeOK, NextSlot, Disciplined
<1> QED BY <1>1, <1>2, <1>3

LEMMA OthersKeep ==
  ASSUME WInv, TakeResult \/ Nothing \/ Start \/ Abort
  PROVE  WInv'
<1>1. CASE TakeResult
  BY <1>1 DEF TakeResult, WInv, TypeOK, NextSlot, Disciplined
<1>2. CASE Nothing
  <2>1. /\ call' = None /\ UNCHANGED <<cur, next, tracker, err, spoiled, calls, txn>>
        /\ out' = out \/ out' = [b \in {} |-> Erased]
    BY <1>2 DEF Nothing, Return
  <2>2. out' = None \/ (DOMAIN out' \subseteq Offsets
                        /\ out' \in [DOMAIN out' -> Cell])
    BY <2>1 DEF WInv, TypeOK
  <2> QED BY <2>1, <2>2 DEF WInv, TypeOK, NextSlot, Disciplined
<1>3. CASE Start
  <2>1. /\ tracker' = {} /\ next' = Blank /\ spoiled' = FALSE
        /\ txn' = [b \in {} |-> Erased] /\ UNCHANGED <<cur, call, err, calls, out>>
        /\ call = None
    BY <1>3 DEF Start, Idle
  <2>2. next' \in [Offsets -> Cell] /\ \A b \in Offsets : next'[b] # Spoiled
    BY <2>1, ValueAssumption DEF Blank, Cell, Byte
  <2>3. /\ DOMAIN txn' = {} /\ txn' \in [{} -> Written] /\ txn' \in [{} -> Byte]
        /\ {} \in SUBSET Offsets
    BY <2>1
  <2>4. txn' # None
    BY <2>3, NoneAssumption
  <2>5. tracker' \in Trackers /\ tracker' # None
    BY <2>1, NoneAssumption DEF Trackers
  <2>6. TypeOK'
    BY <2>1, <2>2, <2>3, <2>5 DEF WInv, TypeOK
  <2>7. NextSlot'
    BY <2>1, <2>3 DEF NextSlot, Blank
  <2> QED BY <2>1, <2>2, <2>3, <2>4, <2>5, <2>6, <2>7 DEF WInv, Disciplined
<1>4. CASE Abort
  BY <1>4 DEF Abort, Idle, WInv, TypeOK, NextSlot, Disciplined
<1> QED BY <1>1, <1>2, <1>3, <1>4

LEMMA NextWInv == ASSUME WInv, [Next]_vars PROVE WInv'
<1>1. CASE TakeResult \/ Nothing \/ Start \/ Abort
  BY <1>1, OthersKeep
<1>2. CASE CallWrite \/ CallCommit \/ CallRead \/ CallTransactionRead
  BY <1>2, CallKeeps
<1>3. CASE Refuse
  BY <1>3, RefuseKeeps
<1>4. CASE BasicWrite
  BY <1>4, BasicWriteKeeps
<1>5. CASE TransactionWrite
  BY <1>5, TransactionWriteKeeps
<1>6. CASE Commit
  BY <1>6, CommitKeeps
<1>7. CASE Read
  BY <1>7, ReadKeeps
<1>8. CASE TransactionRead
  BY <1>8, TransactionReadKeeps
<1>9. CASE UNCHANGED vars
  BY <1>9 DEF vars, WInv, TypeOK, NextSlot, Disciplined
<1> QED BY <1>1, <1>2, <1>3, <1>4, <1>5, <1>6, <1>7, <1>8, <1>9 DEF Next

LEMMA Invariant == Spec => []WInv
<1>1. Init => WInv
  BY InitWInv
<1>2. WInv /\ [Next]_vars => WInv'
  BY NextWInv
<1> QED BY <1>1, <1>2, PTL DEF Spec

LEMMA WInvShows == WInv => TypeOK /\ TrackerExact /\ ProgrammedOnce
<1>1. ASSUME WInv PROVE TypeOK /\ TrackerExact /\ ProgrammedOnce
  <2>1. TypeOK /\ (\A b \in Offsets : next[b] # Spoiled)
    BY <1>1 DEF WInv
  <2>2. \A b \in Offsets : cur[b] # Spoiled /\ cur[b] # Erased
    BY <1>1, ValueAssumption DEF WInv, Byte
  <2>3. ASSUME tracker # None, NEW b \in Offsets
        PROVE  /\ b \div WriteSize \notin tracker => next[b] = Erased
               /\ b \div WriteSize \in tracker /\ ~spoiled => next[b] # Erased
    <3>1. txn \in [DOMAIN txn -> Written]
      BY <1>1, <2>3 DEF WInv
    <3>2. b \in DOMAIN txn => txn[b] # Erased
      BY <3>1, ValueAssumption
    <3> QED BY <1>1, <2>2, <2>3, <3>2 DEF WInv, NextSlot
  <2> QED BY <2>1, <2>2, <2>3 DEF TrackerExact, ProgrammedOnce
<1> QED BY <1>1

(* The slots, the tracker and the call of lftl_write and of a transaction  *)
(* keep their types, for units and data of any size.                       *)
THEOREM WriteTyped == Spec => []TypeOK
BY WInvShows, Invariant, PTL

(* For units and data of any size, lftl_transaction_write_any and           *)
(* write_core agree: the tracker marks every unit that was programmed,      *)
(* after refused writes too, and no other before one was refused.           *)
THEOREM TrackerIsExact == Spec => []TrackerExact
BY WInvShows, Invariant, PTL

(* No byte of the area is programmed twice after an erasure, whatever the  *)
(* units, the data and the calls.                                          *)
THEOREM UnitsProgrammedOnce == Spec => []ProgrammedOnce
BY WInvShows, Invariant, PTL

-----------------------------------------------------------------------------
(* Byte by byte, the calls are those of the all-or-nothing store.          *)

WStoreStep == [Store!Next]_(Store!vars)

(* A call that changes nothing asks nothing, or fails.                     *)
LEMMA EndStep ==
  ASSUME call' = None, UNCHANGED <<cur, txn, out>>
  PROVE  WStoreStep
<1>1. Asked' = None
  BY DEF Asked
<1> QED BY <1>1 DEF WStoreStep, Store!vars, Store!Next, Store!Fail, Store!InDoubt

(* What an accepted call asks for is a request.                            *)
LEMMA AskedUpdate ==
  ASSUME WInv, call # None, call.op = "basic_write", Check(call) = None
  PROVE  /\ Asked = [kind |-> "update",
                     writes |-> [b \in BytesOf(call) |->
                                   SourceByte(call, b - call.addr)]]
         /\ Store!IsRequest(Asked)
<1> DEFINE f == [b \in BytesOf(call) |-> SourceByte(call, b - call.addr)]
<1>1. call \in Calls
  BY DEF WInv, TypeOK
<1>2. Asked = [kind |-> "update", writes |-> f]
  BY DEF Asked
<1>3. BytesOf(call) \subseteq Offsets /\ f \in [BytesOf(call) -> Byte]
  <2>1. CASE Void(call)
    <3>1. call.addr \in Nat /\ call.size = 0
      BY <1>1, <2>1, SizesAssumption DEF Calls, Void
    <3>2. BytesOf(call) = {}
      BY <3>1 DEF BytesOf
    <3> QED BY <3>2
  <2>2. CASE ~Void(call)
    <3>1. Fits(call)
      BY <1>1, <2>2, Accepted DEF Writes
    <3>2. BytesOf(call) \subseteq Offsets
      BY <1>1, <3>1, BytesInside
    <3>3. ASSUME NEW b \in BytesOf(call)
          PROVE  SourceByte(call, b - call.addr) \in Byte
      <4>1. Merged(call, b) \in Written
        BY <1>1, <3>1, <3>2, MergedTyped
      <4> QED BY <4>1 DEF Merged, Byte
    <3> QED BY <3>2, <3>3
  <2> QED BY <2>1, <2>2
<1>4. DOMAIN f = BytesOf(call)
  OBVIOUS
<1> HIDE DEF f
<1>5. f # None /\ Asked # None
  <2>1. Asked \in [kind : {"update"}, writes : [BytesOf(call) -> Byte]]
    BY <1>2, <1>3
  <2>2. BytesOf(call) \in SUBSET Offsets
    BY <1>3
  <2> QED BY <1>3, <2>1, <2>2, NoneAssumption
<1>6. Store!IsUpdate(f)
  BY <1>3, <1>4, <1>5 DEF Store!IsUpdate, Cell
<1> QED BY <1>2, <1>5, <1>6 DEF Store!IsRequest, f

LEMMA AskedCommit ==
  ASSUME WInv, call # None, call.op = "commit", tracker # None
  PROVE  /\ Asked = [kind |-> "update", writes |-> txn]
         /\ Store!IsRequest(Asked)
<1>1. Asked = [kind |-> "update", writes |-> txn]
  BY DEF Asked
<1>2. txn # None /\ DOMAIN txn \in SUBSET Offsets /\ txn \in [DOMAIN txn -> Byte]
  BY DEF WInv, TypeOK
<1>3. Asked # None
  <2>1. Asked \in [kind : {"update"}, writes : [DOMAIN txn -> Byte]]
    BY <1>1, <1>2
  <2> QED BY <1>2, <2>1, NoneAssumption
<1>4. Store!IsUpdate(txn)
  BY <1>2 DEF Store!IsUpdate, Cell
<1> QED BY <1>1, <1>3, <1>4 DEF Store!IsRequest

(* The bytes a read returns.                                               *)
Returned(c) == IF c.op = "read" THEN BytesOf(c) ELSE Delivered(c)

LEMMA AskedRead ==
  ASSUME WInv, call # None, call.op \in {"read", "transaction_read"},
         Check(call) = None
  PROVE  /\ Asked = [kind |-> IF call.op = "read" THEN "read" ELSE "read_newer",
                     units |-> Returned(call)]
         /\ Store!IsRequest(Asked)
<1>1. Asked = [kind |-> IF call.op = "read" THEN "read" ELSE "read_newer",
               units |-> Returned(call)]
  <2>1. CASE call.op = "read"
    BY <2>1 DEF Asked, Returned
  <2>2. CASE call.op = "transaction_read"
    <3>1. Asked = [kind |-> "read_newer",
                   units |-> IF IsAligned(call) THEN BytesOf(call)
                             ELSE Delivered(call)]
      BY <2>2 DEF Asked
    <3>2. IsAligned(call) => Delivered(call) = BytesOf(call)
      BY <2>2, DeliveredInside DEF WInv, TypeOK, Disciplined
    <3>3. Asked = [kind |-> "read_newer", units |-> Delivered(call)]
      BY <3>1, <3>2
    <3> QED BY <2>2, <3>3 DEF Returned
  <2> QED BY <2>1, <2>2
<1>2. call \in Calls /\ call.addr \in Nat /\ call.size \in Nat /\ DataSize \in Nat
  BY SizesAssumption DEF WInv, TypeOK, Calls
<1>3. Returned(call) \subseteq Offsets
  <2>1. CASE Void(call)
    BY <1>2, <2>1 DEF Void, BytesOf, Offsets, Returned
  <2>2. CASE ~Void(call)
    <3>1. call.addr + call.size <= DataSize
      BY <1>2, <2>2, Accepted DEF WInv, Disciplined
    <3>2. BytesOf(call) \subseteq Offsets
      BY <1>2, <3>1 DEF BytesOf, Offsets
    <3> QED BY <1>2, <3>1, <3>2, DeliveredInside DEF Returned
  <2> QED BY <2>1, <2>2
<1>4. Asked # None
  <2>1. Returned(call) \in SUBSET Offsets
    BY <1>3
  <2>2. Asked \in [kind : {"read", "read_newer"}, units : {Returned(call)}]
    BY <1>1
  <2> QED BY <2>1, <2>2, NoneAssumption
<1> QED BY <1>1, <1>3, <1>4 DEF Store!IsRequest

LEMMA AskedRequest ==
  WInv /\ call # None /\ Asked # None => Store!IsRequest(Asked)
BY AskedUpdate, AskedCommit, AskedRead DEF Asked

LEMMA CallingStep ==
  ASSUME WInv, CallWrite \/ CallCommit \/ CallRead \/ CallTransactionRead
  PROVE  WStoreStep
<1>1. /\ WInv' /\ Idle /\ call' # None
      /\ UNCHANGED <<cur, next, tracker, spoiled, txn, out>>
  BY CallKeeps
<1>2. Asked = None
  BY <1>1 DEF Idle, Asked
<1>3. CASE Asked' = None
  BY <1>1, <1>2, <1>3 DEF WStoreStep, Store!vars
<1>4. CASE Asked' # None
  <2>1. WInv' /\ (call # None)' /\ (Asked # None)'
    BY <1>1, <1>4
  <2>2. Store!IsRequest(Asked)'
    BY <2>1, AskedRequest, PTL
  <2>3. out' = None
    BY <1>1 DEF Idle
  <2> QED BY <1>1, <1>2, <2>2, <2>3
          DEF WStoreStep, Store!Next, Store!Request, Store!IsRequest, Store!IsUpdate
<1> QED BY <1>3, <1>4

(* An update that returns takes effect as a whole.                         *)
LEMMA UpdateStep ==
  ASSUME WInv, BasicWrite \/ Commit
  PROVE  WStoreStep
<1>1. call' = None /\ out' = out /\ call # None /\ Check(call) = None /\ call \in Calls
  BY DEF BasicWrite, Commit, Execute, Return, WInv, TypeOK
<1>2. Asked' = None
  BY <1>1 DEF Asked
<1>3. CASE BasicWrite
  <2>1. call.op = "basic_write" /\ ~Void(call)
    BY <1>3 DEF BasicWrite, Execute
  <2>2. /\ Asked = [kind |-> "update",
                    writes |-> [b \in BytesOf(call) |->
                                  SourceByte(call, b - call.addr)]]
        /\ Asked # None
    BY <1>1, <2>1, AskedUpdate DEF Store!IsRequest
  <2>3. cur' = [b \in Offsets |-> Merged(call, b)]
    BY <1>3, BasicWriteKeeps
  <2>4. cur' = Store!Goal
    BY <2>2, <2>3 DEF Merged, Store!Goal, Store!Overlay
  <2>5. txn' = None
    <3>1. tracker = None
      BY <1>1, <2>1, Accepted
    <3> QED BY <1>3, <3>1 DEF WInv, BasicWrite
  <2> QED BY <1>1, <1>2, <2>2, <2>4, <2>5
          DEF WStoreStep, Store!Next, Store!Apply, Store!Asked
<1>4. CASE Commit
  <2>1. /\ tracker # None /\ txn' = None /\ call.op = "commit"
        /\ cur' = [b \in Offsets |-> IF b \in DOMAIN txn THEN txn[b] ELSE cur[b]]
    BY <1>4, CommitKeeps DEF Commit, Execute
  <2>2. Asked = [kind |-> "update", writes |-> txn] /\ Asked # None
    BY <1>1, <2>1, AskedCommit DEF Store!IsRequest
  <2>3. cur' = Store!Goal
    BY <2>1, <2>2 DEF Store!Goal, Store!Overlay
  <2> QED BY <1>1, <1>2, <2>1, <2>2, <2>3
          DEF WStoreStep, Store!Next, Store!Apply, Store!Asked
<1> QED BY <1>3, <1>4

(* A read returns the data, in a transaction with its writes over it.      *)
LEMMA ReadingStep ==
  ASSUME WInv, Read \/ TransactionRead
  PROVE  WStoreStep
<1>1. /\ call' = None /\ call # None /\ Check(call) = None
      /\ UNCHANGED <<cur, txn>> /\ call.op \in {"read", "transaction_read"}
  BY DEF Read, TransactionRead, Execute, Return
<1>2. Asked' = None
  BY <1>1 DEF Asked
<1>3. Asked = [kind |-> IF call.op = "read" THEN "read" ELSE "read_newer",
               units |-> Returned(call)]
      /\ Asked # None
  BY <1>1, AskedRead DEF Store!IsRequest
<1>4. CASE Read
  <2>1. call.op = "read" /\ out' = [b \in BytesOf(call) |-> cur[b]]
    BY <1>4 DEF Read, Execute
  <2> QED BY <1>1, <1>2, <1>3, <2>1
          DEF WStoreStep, Store!Next, Store!Read, Store!Asked, Returned
<1>5. CASE TransactionRead
  <2>1. /\ call.op = "transaction_read" /\ tracker # None
        /\ Delivered(call) \subseteq Offsets
        /\ out' = [b \in Delivered(call) |-> IF b \in DOMAIN txn THEN txn[b] ELSE cur[b]]
    BY <1>5, TransactionReadKeeps DEF TransactionRead, Execute
  <2>2. txn # None
    BY <2>1 DEF WInv
  <2>3. \A b \in Delivered(call) :
          Store!Overlay(cur, txn)[b] = IF b \in DOMAIN txn THEN txn[b] ELSE cur[b]
    BY <2>1 DEF Store!Overlay
  <2>4. out' = [b \in Delivered(call) |-> Store!Overlay(cur, txn)[b]]
    BY <2>1, <2>3
  <2> QED BY <1>1, <1>2, <1>3, <2>1, <2>2, <2>4
          DEF WStoreStep, Store!Next, Store!ReadNewer, Store!Asked, Returned
<1> QED BY <1>4, <1>5

(* A read of no byte returns none, a write of no byte does nothing.        *)
LEMMA NothingStep ==
  ASSUME WInv, Nothing
  PROVE  WStoreStep
<1>1. /\ call' = None /\ call # None /\ Void(call) /\ UNCHANGED <<cur, txn>>
      /\ out' = IF call.op = "read" THEN [b \in {} |-> Erased] ELSE out
      /\ call \in Calls
  BY DEF Nothing, Return, WInv, TypeOK
<1>2. CASE call.op = "read"
  <2>1. Check(call) = None
    BY <1>1 DEF Check
  <2>2. call.addr \in Nat /\ call.size = 0
    BY <1>1, SizesAssumption DEF Void, Calls
  <2>3. BytesOf(call) = {}
    BY <2>2 DEF BytesOf
  <2>4. Asked = [kind |-> "read", units |-> {}] /\ Asked # None
    BY <1>1, <1>2, <2>1, <2>3, AskedRead DEF Store!IsRequest, Returned
  <2>5. Asked' = None /\ out' = [b \in {} |-> cur[b]]
    BY <1>1, <1>2 DEF Asked
  <2> QED BY <1>1, <2>4, <2>5 DEF WStoreStep, Store!Next, Store!Read, Store!Asked
<1>3. CASE call.op # "read"
  BY <1>1, <1>3, EndStep
<1> QED BY <1>2, <1>3

(* A transaction gains the bytes of a write that returns.                  *)
LEMMA TransactionStep ==
  ASSUME WInv, Start \/ TransactionWrite \/ Abort
  PROVE  WStoreStep
<1>1. CASE Start
  <2>1. /\ UNCHANGED <<cur, call, calls, out>> /\ call = None /\ txn = None
        /\ txn' = [b \in {} |-> Erased]
    BY <1>1 DEF Start, Idle, WInv
  <2>2. Asked = None /\ Asked' = None
    BY <2>1 DEF Asked
  <2> QED BY <2>1, <2>2 DEF WStoreStep, Store!Next, Store!Start
<1>2. CASE TransactionWrite
  <2>1. /\ call' = None /\ call # None /\ call.op \in TransactionWrites
        /\ UNCHANGED <<cur, out>>
        /\ txn' = [b \in DOMAIN txn \cup BytesOf(call) |->
                     IF b \in BytesOf(call) THEN SourceByte(call, b - call.addr)
                     ELSE txn[b]]
    BY <1>2 DEF TransactionWrite, Execute, Return
  <2>2. Asked = None /\ Asked' = None
    BY <2>1 DEF Asked, TransactionWrites
  <2>3. WInv' /\ txn # None /\ BytesOf(call) \cap DOMAIN txn = {}
    BY <1>2, TransactionWriteKeeps
  <2>4. txn' # None
    BY <1>2, TransactionWriteKeeps
  <2>5. /\ DOMAIN txn \subseteq DOMAIN txn'
        /\ \A b \in DOMAIN txn : txn'[b] = txn[b]
    BY <2>1, <2>3
  <2>6. Store!IsUpdate(txn)'
    BY <2>3, <2>4 DEF Store!IsUpdate, WInv, TypeOK, Cell
  <2> QED BY <2>1, <2>2, <2>3, <2>5, <2>6
          DEF WStoreStep, Store!Next, Store!Write, Store!IsUpdate
<1>3. CASE Abort
  <2>1. UNCHANGED <<cur, call, out>> /\ call = None /\ txn' = None
    BY <1>3 DEF Abort, Idle
  <2>2. Asked = None /\ Asked' = None
    BY <2>1 DEF Asked
  <2> QED BY <2>1, <2>2 DEF WStoreStep, Store!Next, Store!Abort
<1> QED BY <1>1, <1>2, <1>3

LEMMA StepIsStoreStep == ASSUME WInv, [Next]_vars PROVE WStoreStep
<1>1. CASE TakeResult
  <2>1. out' = None /\ UNCHANGED <<cur, next, tracker, call, calls, txn>>
    BY <1>1 DEF TakeResult
  <2>2. Asked' = Asked
    BY <2>1 DEF Asked, Check, Span, SourceByte
  <2> QED BY <2>1, <2>2 DEF WStoreStep, Store!Next, Store!Forget
<1>2. CASE CallWrite \/ CallCommit \/ CallRead \/ CallTransactionRead
  BY <1>2, CallingStep
<1>3. CASE Refuse
  BY <1>3, RefuseKeeps, EndStep
<1>4. CASE BasicWrite \/ Commit
  BY <1>4, UpdateStep
<1>5. CASE Read \/ TransactionRead
  BY <1>5, ReadingStep
<1>6. CASE Nothing
  BY <1>6, NothingStep
<1>7. CASE Start \/ TransactionWrite \/ Abort
  BY <1>7, TransactionStep
<1>8. CASE UNCHANGED vars
  <2>1. Asked' = Asked
    BY <1>8 DEF vars, Asked, Check, Span, SourceByte
  <2> QED BY <1>8, <2>1 DEF WStoreStep, Store!vars, vars
<1> QED BY <1>1, <1>2, <1>3, <1>4, <1>5, <1>6, <1>7, <1>8 DEF Next

(* What lftl_basic_write and a transaction write change, and what lftl_read *)
(* returns, are exactly the bytes they name, for write units and data of    *)
(* any size, and any address, size and source. lftl_transaction_read        *)
(* returns the bytes it names if they are whole units, and otherwise the    *)
(* units its address and size are rounded down to.                          *)
THEOREM BytesAsNamed == Spec => StoreSteps
<1>1. WInv /\ [Next]_vars => [Store!Next]_(Store!vars)
  BY StepIsStoreStep DEF WStoreStep
<1> QED BY <1>1, Invariant, PTL DEF Spec, StoreSteps

=============================================================================
