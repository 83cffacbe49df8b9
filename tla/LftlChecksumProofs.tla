------------------------- MODULE LftlChecksumProofs -------------------------
(***************************************************************************)
(* Whatever the size of the data and of the buffer, an error that spans no *)
(* more than 27 bits is detected, and so is any odd number of wrong bits,  *)
(* and two of them less than a period apart. The CRC is linear: the        *)
(* difference of the two checksums is divided by the polynomial as they    *)
(* are, it never leaves the low 27 bits, and there the division loses      *)
(* nothing.                                                                *)
(***************************************************************************)
EXTENDS LftlChecksum, FiniteSetTheorems, TLAPS

Low == 0..26

-----------------------------------------------------------------------------
(* The division.                                                           *)

(* The polynomial has its highest bit at 26.                               *)
LEMMA PolyShape == Poly \subseteq Low /\ 26 \in Poly
BY DEF Poly, Low

LEMMA ShiftLinear ==
  ASSUME NEW a \in Word, NEW b \in Word
  PROVE  Xor(ShiftRight(a), ShiftRight(b)) = ShiftRight(Xor(a, b))
BY DEF Xor, ShiftRight, Word

LEMMA XorAlgebra ==
  ASSUME NEW a, NEW b, NEW c
  PROVE  /\ Xor(a, b) = Xor(b, a)
         /\ Xor(Xor(a, c), b) = Xor(Xor(a, b), c)
         /\ Xor(a, Xor(b, c)) = Xor(Xor(a, b), c)
         /\ Xor(Xor(a, c), Xor(b, c)) = Xor(a, b)
         /\ Xor(a, a) = {}
         /\ Xor(a, {}) = a
         /\ Xor(a, b) = {} => a = b
BY DEF Xor

LEMMA XorWord ==
  ASSUME NEW a \in Word, NEW b \in Word
  PROVE  Xor(a, b) \in Word
BY DEF Xor, Word

LEMMA ByteIsWord == Byte \subseteq Word
BY DEF Byte, Word

LEMMA DivideWord ==
  ASSUME NEW a \in Word
  PROVE  Divide(a) \in Word
<1>1. ShiftRight(a) \in Word
  BY DEF ShiftRight, Word
<1>2. Poly \in Word
  BY PolyShape DEF Low, Word
<1> QED BY <1>1, <1>2, XorWord DEF Divide

LEMMA DivideLinear ==
  ASSUME NEW a \in Word, NEW b \in Word
  PROVE  Xor(Divide(a), Divide(b)) = Divide(Xor(a, b))
<1> DEFINE s == ShiftRight(a)
           t == ShiftRight(b)
<1>1. ShiftRight(Xor(a, b)) = Xor(s, t)
  BY ShiftLinear
<1>2. 0 \in Xor(a, b) <=> ((0 \in a) # (0 \in b))
  BY DEF Xor
<1> HIDE DEF s, t
<1>3. CASE 0 \in a /\ 0 \in b
  <2>1. Divide(a) = Xor(s, Poly) /\ Divide(b) = Xor(t, Poly)
    BY <1>3 DEF Divide, s, t
  <2>2. Divide(Xor(a, b)) = Xor(s, t)
    BY <1>1, <1>2, <1>3 DEF Divide
  <2> QED BY <2>1, <2>2, XorAlgebra
<1>4. CASE 0 \in a /\ 0 \notin b
  <2>1. Divide(a) = Xor(s, Poly) /\ Divide(b) = t
    BY <1>4 DEF Divide, s, t
  <2>2. Divide(Xor(a, b)) = Xor(Xor(s, t), Poly)
    BY <1>1, <1>2, <1>4 DEF Divide
  <2> QED BY <2>1, <2>2, XorAlgebra
<1>5. CASE 0 \notin a /\ 0 \in b
  <2>1. Divide(a) = s /\ Divide(b) = Xor(t, Poly)
    BY <1>5 DEF Divide, s, t
  <2>2. Divide(Xor(a, b)) = Xor(Xor(s, t), Poly)
    BY <1>1, <1>2, <1>5 DEF Divide
  <2> QED BY <2>1, <2>2, XorAlgebra
<1>6. CASE 0 \notin a /\ 0 \notin b
  <2>1. Divide(a) = s /\ Divide(b) = t
    BY <1>6 DEF Divide, s, t
  <2>2. Divide(Xor(a, b)) = Xor(s, t)
    BY <1>1, <1>2, <1>6 DEF Divide
  <2> QED BY <2>1, <2>2
<1> QED BY <1>3, <1>4, <1>5, <1>6

(* Nothing is lost in the low bits.                                        *)
LEMMA DivideLow ==
  ASSUME NEW d \in SUBSET Low
  PROVE  /\ Divide(d) \in SUBSET Low
         /\ Divide(d) = {} <=> d = {}
<1>1. ShiftRight(d) \subseteq 0..25
  BY DEF ShiftRight, Low
<1>2. Divide(d) \in SUBSET Low
  <2>1. ShiftRight(d) \subseteq Low
    BY <1>1 DEF Low
  <2>2. Xor(ShiftRight(d), Poly) \subseteq Low
    BY <2>1, PolyShape DEF Xor
  <2> QED BY <2>1, <2>2 DEF Divide
<1>3. CASE 0 \in d
  <2>1. 26 \in Divide(d)
    BY <1>1, <1>3, PolyShape DEF Divide, Xor
  <2> QED BY <1>2, <1>3, <2>1
<1>4. CASE 0 \notin d /\ d # {}
  <2>1. PICK b \in d : b # 0
    BY <1>4
  <2>2. b - 1 \in ShiftRight(d)
    BY <2>1 DEF ShiftRight, Low
  <2> QED BY <1>2, <1>4, <2>2 DEF Divide
<1>5. CASE d = {}
  BY <1>5, <1>2 DEF Divide, ShiftRight
<1> QED BY <1>3, <1>4, <1>5

(* Every division drops one of the five upper bits.                        *)
LEMMA DivideNarrows ==
  ASSUME NEW m \in 27..31, NEW w \in SUBSET (0..m)
  PROVE  Divide(w) \in SUBSET (0..(m - 1))
<1>1. ShiftRight(w) \subseteq 0..(m - 1)
  BY DEF ShiftRight
<1>2. Poly \subseteq 0..(m - 1)
  BY PolyShape DEF Low
<1> QED BY <1>1, <1>2 DEF Divide, Xor

LEMMA Divide8Facts ==
  ASSUME NEW a \in Word, NEW b \in Word, NEW d \in SUBSET Low
  PROVE  /\ Divide8(a) \in SUBSET Low
         /\ Xor(Divide8(a), Divide8(b)) = Divide8(Xor(a, b))
         /\ Divide8(d) \in SUBSET Low
<1>1. ASSUME NEW x \in Word, NEW y \in Word
      PROVE  /\ Divide2(x) \in Word
             /\ Xor(Divide2(x), Divide2(y)) = Divide2(Xor(x, y))
  BY DivideWord, DivideLinear DEF Divide2
<1>2. ASSUME NEW x \in Word, NEW y \in Word
      PROVE  /\ Divide4(x) \in Word
             /\ Xor(Divide4(x), Divide4(y)) = Divide4(Xor(x, y))
  BY <1>1 DEF Divide4
<1>3. Xor(Divide8(a), Divide8(b)) = Divide8(Xor(a, b))
  BY <1>2 DEF Divide8
<1>4. ASSUME NEW x \in SUBSET Low
      PROVE  Divide2(x) \in SUBSET Low
  BY DivideLow DEF Divide2
<1>5. ASSUME NEW x \in SUBSET Low
      PROVE  Divide4(x) \in SUBSET Low
  BY <1>4 DEF Divide4
<1>6. ASSUME NEW x \in SUBSET Low
      PROVE  Divide8(x) \in SUBSET Low
  BY <1>5 DEF Divide8
<1>7. Divide8(a) \in SUBSET Low
  <2>1. a \in SUBSET (0..31)
    BY DEF Word
  <2>2. Divide(a) \in SUBSET (0..30)
    BY <2>1, DivideNarrows
  <2>3. Divide2(a) \in SUBSET (0..29)
    BY <2>2, DivideNarrows DEF Divide2
  <2>4. Divide(Divide2(a)) \in SUBSET (0..28)
    BY <2>3, DivideNarrows
  <2>5. Divide4(a) \in SUBSET (0..27)
    BY <2>4, DivideNarrows DEF Divide4, Divide2
  <2>6. Divide(Divide4(a)) \in SUBSET Low
    BY <2>5, DivideNarrows DEF Low
  <2>7. Divide2(Divide4(a)) \in SUBSET Low
    BY <2>6, DivideLow DEF Divide2
  <2>8. Divide4(Divide4(a)) \in SUBSET Low
    BY <2>7, <1>4 DEF Divide4
  <2> QED BY <2>8 DEF Divide8
<1> QED BY <1>3, <1>6, <1>7

(* A byte is added to both checksums.                                      *)
LEMMA AddByteFacts ==
  ASSUME NEW a \in Word, NEW b \in Word, NEW x \in Byte, NEW y \in Byte,
         Xor(a, b) \in SUBSET Low
  PROVE  /\ AddByte(a, x) \in Word /\ AddByte(a, x) \in SUBSET Low
         /\ AddByte(b, y) \in Word /\ AddByte(b, y) \in SUBSET Low
         /\ Xor(AddByte(a, x), AddByte(b, y)) \in SUBSET Low
         /\ Xor(AddByte(a, x), AddByte(b, y)) = Divide8(Xor(Xor(a, b), Xor(x, y)))
<1> DEFINE d == Xor(Xor(a, b), Xor(x, y))
<1>1. x \in Word /\ y \in Word
  BY ByteIsWord
<1>2. Xor(a, x) \in Word /\ Xor(b, y) \in Word
  BY <1>1, XorWord
<1>3. Xor(Xor(a, x), Xor(b, y)) = d
  BY DEF Xor
<1>4. d \in SUBSET Low
  <2>1. Xor(x, y) \in SUBSET Low
    BY DEF Xor, Byte, Low
  <2> QED BY <2>1 DEF Xor
<1>5. Xor(AddByte(a, x), AddByte(b, y)) = Divide8(d)
  BY <1>2, <1>3, Divide8Facts DEF AddByte
<1>6. Divide8(d) \in SUBSET Low
  BY <1>2, <1>4, Divide8Facts
<1>7. /\ AddByte(a, x) \in SUBSET Low
      /\ AddByte(b, y) \in SUBSET Low
  BY <1>2, <1>4, Divide8Facts DEF AddByte
<1>8. SUBSET Low \subseteq Word
  BY DEF Low, Word
<1> QED BY <1>5, <1>6, <1>7, <1>8

-----------------------------------------------------------------------------
(* The division of the whole difference of what was sealed and what was    *)
(* found: a set of bits of any length, the bits still to come included.    *)

ShiftBy(w, n) == {b \in Nat : b + n \in w}
WideDivide(w) ==
  IF 0 \in w THEN Xor(ShiftBy(w, 1), Poly) ELSE ShiftBy(w, 1)
Wide2(w) == WideDivide(WideDivide(w))
Wide4(w) == Wide2(Wide2(w))
Wide8(w) == Wide4(Wide4(w))

(* It does nothing but move the bits that it does not reach.               *)
LEMMA WideDivideFar ==
  ASSUME NEW u \in SUBSET Nat, NEW h \in SUBSET Nat, 0 \notin h
  PROVE  /\ WideDivide(u) \in SUBSET Nat
         /\ WideDivide(Xor(u, h)) = Xor(WideDivide(u), ShiftBy(h, 1))
<1>1. Poly \subseteq Nat /\ ShiftBy(u, 1) \subseteq Nat
  BY PolyShape DEF Low, ShiftBy
<1>2. ShiftBy(Xor(u, h), 1) = Xor(ShiftBy(u, 1), ShiftBy(h, 1))
  BY DEF ShiftBy, Xor
<1>3. 0 \in Xor(u, h) <=> 0 \in u
  BY DEF Xor
<1>4. WideDivide(u) \in SUBSET Nat
  BY <1>1 DEF WideDivide, Xor
<1>5. CASE 0 \in u
  <2>1. WideDivide(Xor(u, h)) = Xor(Xor(ShiftBy(u, 1), ShiftBy(h, 1)), Poly)
    BY <1>2, <1>3, <1>5 DEF WideDivide
  <2>2. WideDivide(u) = Xor(ShiftBy(u, 1), Poly)
    BY <1>5 DEF WideDivide
  <2> QED BY <1>4, <2>1, <2>2, XorAlgebra
<1>6. CASE 0 \notin u
  BY <1>2, <1>3, <1>4, <1>6 DEF WideDivide
<1> QED BY <1>5, <1>6

LEMMA Shifts ==
  ASSUME NEW h \in SUBSET Nat
  PROVE  /\ \A n \in Nat : ShiftBy(h, n) \in SUBSET Nat
         /\ ShiftBy(ShiftBy(h, 1), 1) = ShiftBy(h, 2)
         /\ ShiftBy(ShiftBy(h, 2), 2) = ShiftBy(h, 4)
         /\ ShiftBy(ShiftBy(h, 4), 4) = ShiftBy(h, 8)
<1>1. \A b \in Nat : /\ b + 1 \in Nat /\ b + 1 + 1 = b + 2
                     /\ b + 2 \in Nat /\ b + 2 + 2 = b + 4
                     /\ b + 4 \in Nat /\ b + 4 + 4 = b + 8
  OBVIOUS
<1> QED BY <1>1 DEF ShiftBy

LEMMA Wide8Far ==
  ASSUME NEW u \in SUBSET Nat, NEW h \in SUBSET Nat, h \cap (0..7) = {}
  PROVE  Wide8(Xor(u, h)) = Xor(Wide8(u), ShiftBy(h, 8))
<1>1. ASSUME NEW x \in SUBSET Nat, NEW y \in SUBSET Nat, y \cap (0..1) = {}
      PROVE  /\ Wide2(x) \in SUBSET Nat
             /\ Wide2(Xor(x, y)) = Xor(Wide2(x), ShiftBy(y, 2))
  <2>1. 0 \notin y /\ 0 \notin ShiftBy(y, 1)
    BY <1>1 DEF ShiftBy
  <2>2. ShiftBy(y, 1) \in SUBSET Nat /\ ShiftBy(ShiftBy(y, 1), 1) = ShiftBy(y, 2)
    BY Shifts
  <2> QED BY <2>1, <2>2, WideDivideFar DEF Wide2
<1>2. ASSUME NEW x \in SUBSET Nat, NEW y \in SUBSET Nat, y \cap (0..3) = {}
      PROVE  /\ Wide4(x) \in SUBSET Nat
             /\ Wide4(Xor(x, y)) = Xor(Wide4(x), ShiftBy(y, 4))
  <2>1. y \cap (0..1) = {} /\ ShiftBy(y, 2) \cap (0..1) = {}
    BY <1>2 DEF ShiftBy
  <2>2. ShiftBy(y, 2) \in SUBSET Nat /\ ShiftBy(ShiftBy(y, 2), 2) = ShiftBy(y, 4)
    BY Shifts
  <2> QED BY <1>1, <2>1, <2>2 DEF Wide4
<1>3. h \cap (0..3) = {} /\ ShiftBy(h, 4) \cap (0..3) = {}
  BY DEF ShiftBy
<1>4. ShiftBy(h, 4) \in SUBSET Nat /\ ShiftBy(ShiftBy(h, 4), 4) = ShiftBy(h, 8)
  BY Shifts
<1> QED BY <1>2, <1>3, <1>4 DEF Wide8

(* On the low bits it is the division of the code.                         *)
LEMMA Wide8Low ==
  ASSUME NEW d \in SUBSET Low
  PROVE  Wide8(d) = Divide8(d)
<1>1. ASSUME NEW x \in SUBSET Low
      PROVE  WideDivide(x) = Divide(x) /\ Divide(x) \in SUBSET Low
  <2>1. ShiftBy(x, 1) = ShiftRight(x)
    BY DEF ShiftBy, ShiftRight, Low
  <2> QED BY <2>1, DivideLow DEF WideDivide, Divide
<1>2. ASSUME NEW x \in SUBSET Low
      PROVE  Wide2(x) = Divide2(x) /\ Divide2(x) \in SUBSET Low
  BY <1>1 DEF Wide2, Divide2
<1>3. ASSUME NEW x \in SUBSET Low
      PROVE  Wide4(x) = Divide4(x) /\ Divide4(x) \in SUBSET Low
  BY <1>2 DEF Wide4, Divide4
<1> QED BY <1>3 DEF Wide8, Divide8

(* A difference of no more than 27 bits stays one.                         *)
Narrow(w) == w # {} /\ \A p, q \in w : p - q <= 26

LEMMA WideDivideNarrow ==
  ASSUME NEW w \in SUBSET Nat, Narrow(w)
  PROVE  WideDivide(w) \in SUBSET Nat /\ Narrow(WideDivide(w))
<1>1. CASE 0 \in w
  <2>1. w \in SUBSET Low /\ w # {}
    BY <1>1 DEF Narrow, Low
  <2>2. ShiftBy(w, 1) = ShiftRight(w)
    BY <2>1 DEF ShiftBy, ShiftRight, Low
  <2>3. WideDivide(w) = Divide(w)
    BY <2>2 DEF WideDivide, Divide
  <2>4. Divide(w) \in SUBSET Low /\ Divide(w) # {}
    BY <2>1, DivideLow
  <2> QED BY <2>3, <2>4 DEF Narrow, Low
<1>2. CASE 0 \notin w
  <2>1. WideDivide(w) = ShiftBy(w, 1)
    BY <1>2 DEF WideDivide
  <2>2. PICK p \in w : p # 0
    BY <1>2 DEF Narrow
  <2>3. p - 1 \in ShiftBy(w, 1)
    BY <2>2 DEF ShiftBy
  <2>4. ASSUME NEW b \in ShiftBy(w, 1), NEW c \in ShiftBy(w, 1)
        PROVE  b - c <= 26
    <3>1. b \in Nat /\ c \in Nat /\ b + 1 \in w /\ c + 1 \in w
      BY DEF ShiftBy
    <3>2. (b + 1) - (c + 1) <= 26
      BY <3>1 DEF Narrow
    <3> QED BY <3>1, <3>2
  <2> QED BY <2>1, <2>3, <2>4 DEF Narrow, ShiftBy
<1> QED BY <1>1, <1>2

LEMMA Wide8Narrow ==
  ASSUME NEW w \in SUBSET Nat, Narrow(w)
  PROVE  Wide8(w) \in SUBSET Nat /\ Narrow(Wide8(w))
<1>1. ASSUME NEW x \in SUBSET Nat, Narrow(x)
      PROVE  Wide2(x) \in SUBSET Nat /\ Narrow(Wide2(x))
  BY <1>1, WideDivideNarrow DEF Wide2
<1>2. ASSUME NEW x \in SUBSET Nat, Narrow(x)
      PROVE  Wide4(x) \in SUBSET Nat /\ Narrow(Wide4(x))
  BY <1>1, <1>2 DEF Wide4
<1> QED BY <1>2 DEF Wide8

-----------------------------------------------------------------------------
(* Two bits.  The lower one is divided while the other one only moves, so  *)
(* that what is left is nothing only if the division of a single bit has   *)
(* come back to where it began just when the other bit arrives.            *)

Divisions(n) ==
  {r \in [0..n -> SUBSET Low] :
     r[0] = {0} /\ \A k \in 1..n : r[k] = Divide(r[k - 1])}

(* A single bit is not met again within n divisions.                       *)
WithinPeriod(n) == \A d \in 1..n : \A r \in Divisions(d) : r[d] # {0}

(* What has become of two bits that were at most n apart, when the higher  *)
(* one is at e: the lower one is still to come, or has been divided i      *)
(* times, or both have been.                                               *)
BothAhead(w, n, e) == \E d \in 1..n : d <= e /\ w = {e - d, e}
OneAhead(w, n, e) ==
  \E i \in 0..(n - e) : \E r \in Divisions(i) : w = Xor(r[i], {e})
Two(w, n, e) ==
  IF e > 0 THEN BothAhead(w, n, e) \/ OneAhead(w, n, e)
  ELSE w \in SUBSET Low /\ w # {}

LEMMA OneMoreDivision ==
  ASSUME NEW i \in Nat, NEW r \in Divisions(i)
  PROVE  /\ r[i] \in SUBSET Low
         /\ \E s \in Divisions(i + 1) : s[i + 1] = Divide(r[i])
<1> DEFINE s == [k \in 0..(i + 1) |-> IF k = i + 1 THEN Divide(r[i]) ELSE r[k]]
<1>1. /\ r \in [0..i -> SUBSET Low] /\ r[0] = {0}
      /\ \A k \in 1..i : r[k] = Divide(r[k - 1])
  BY DEF Divisions
<1>2. r[i] \in SUBSET Low
  BY <1>1
<1>3. Divide(r[i]) \in SUBSET Low
  BY <1>2, DivideLow
<1>4. s \in [0..(i + 1) -> SUBSET Low]
  BY <1>1, <1>3
<1>5. s[0] = {0} /\ s[i + 1] = Divide(r[i])
  BY <1>1
<1>6. ASSUME NEW k \in 1..(i + 1) PROVE s[k] = Divide(s[k - 1])
  <2>1. CASE k = i + 1
    <3>1. s[k - 1] = r[i]
      BY <2>1
    <3> QED BY <2>1, <3>1
  <2>2. CASE k \in 1..i
    <3>1. s[k] = r[k] /\ s[k - 1] = r[k - 1]
      BY <2>2
    <3> QED BY <1>1, <2>2, <3>1
  <2> QED BY <2>1, <2>2
<1> HIDE DEF s
<1>7. s \in Divisions(i + 1)
  BY <1>4, <1>5, <1>6 DEF Divisions
<1> QED BY <1>2, <1>5, <1>7

LEMMA WideDivideLow ==
  ASSUME NEW w \in SUBSET Low
  PROVE  WideDivide(w) = Divide(w)
<1>1. ShiftBy(w, 1) = ShiftRight(w)
  BY DEF ShiftBy, ShiftRight, Low
<1> QED BY <1>1 DEF WideDivide, Divide

LEMMA OneAheadDivided ==
  ASSUME NEW n \in Nat, WithinPeriod(n), NEW e \in Nat, e > 0,
         NEW w, OneAhead(w, n, e)
  PROVE  Two(WideDivide(w), n, e - 1)
<1>1. PICK i \in 0..(n - e) : \E r \in Divisions(i) : w = Xor(r[i], {e})
  BY DEF OneAhead
<1>2. PICK r \in Divisions(i) : w = Xor(r[i], {e})
  BY <1>1
<1>3. i \in Nat /\ i + 1 \in 1..n /\ e - 1 \in Nat
  OBVIOUS
<1>4. PICK s \in Divisions(i + 1) : s[i + 1] = Divide(r[i])
  BY <1>3, OneMoreDivision
<1>5. r[i] \in SUBSET Low /\ s[i + 1] \in SUBSET Low
  BY <1>3, OneMoreDivision
<1>6. WideDivide(w) = Xor(s[i + 1], {e - 1})
  <2>1. r[i] \in SUBSET Nat /\ {e} \in SUBSET Nat /\ 0 \notin {e}
    BY <1>5 DEF Low
  <2>2. ShiftBy({e}, 1) = {e - 1}
    BY <1>3 DEF ShiftBy
  <2>3. WideDivide(w) = Xor(WideDivide(r[i]), ShiftBy({e}, 1))
    BY <1>2, <2>1, WideDivideFar
  <2> QED BY <1>4, <1>5, <2>2, <2>3, WideDivideLow
<1>7. CASE e = 1
  <2>1. s[i + 1] # {0}
    BY <1>3 DEF WithinPeriod
  <2>2. Xor(s[i + 1], {0}) # {} /\ Xor(s[i + 1], {0}) \in SUBSET Low
    BY <1>5, <2>1 DEF Xor, Low
  <2> QED BY <1>6, <1>7, <2>2 DEF Two
<1>8. CASE e # 1
  <2>1. e - 1 > 0 /\ i + 1 \in 0..(n - (e - 1))
    BY <1>8
  <2> QED BY <1>6, <2>1 DEF Two, OneAhead
<1> QED BY <1>7, <1>8

LEMMA BothAheadDivided ==
  ASSUME NEW n \in Nat, WithinPeriod(n), NEW e \in Nat, e > 0,
         NEW w, BothAhead(w, n, e)
  PROVE  Two(WideDivide(w), n, e - 1)
<1>1. PICK d \in 1..n : d <= e /\ w = {e - d, e}
  BY DEF BothAhead
<1>2. CASE d = e
  <2> DEFINE r == [k \in 0..0 |-> {0}]
  <2>1. r \in Divisions(0) /\ r[0] = {0}
    BY DEF Divisions, Low
  <2>2. w = Xor(r[0], {e})
    BY <1>1, <1>2, <2>1 DEF Xor
  <2>3. 0 \in 0..(n - e)
    BY <1>2
  <2> HIDE DEF r
  <2>4. OneAhead(w, n, e)
    BY <2>1, <2>2, <2>3 DEF OneAhead
  <2> QED BY <2>4, OneAheadDivided
<1>3. CASE d # e
  <2>1. e - 1 > 0 /\ d <= e - 1 /\ 0 \notin w
    BY <1>1, <1>3
  <2>2. ShiftBy(w, 1) = {(e - 1) - d, e - 1}
    BY <1>1, <1>3 DEF ShiftBy
  <2>3. WideDivide(w) = {(e - 1) - d, e - 1}
    BY <2>1, <2>2 DEF WideDivide
  <2> QED BY <2>1, <2>3 DEF Two, BothAhead
<1> QED BY <1>2, <1>3

LEMMA TwoDivided ==
  ASSUME NEW n \in Nat, WithinPeriod(n), NEW e \in Int, NEW w, Two(w, n, e)
  PROVE  Two(WideDivide(w), n, e - 1)
<1>1. CASE e > 0
  BY <1>1, OneAheadDivided, BothAheadDivided DEF Two
<1>2. CASE ~(e > 0)
  <2>1. w \in SUBSET Low /\ w # {}
    BY <1>2 DEF Two
  <2>2. Divide(w) \in SUBSET Low /\ Divide(w) # {} /\ WideDivide(w) = Divide(w)
    BY <2>1, DivideLow, WideDivideLow
  <2>3. ~(e - 1 > 0)
    BY <1>2
  <2> QED BY <2>2, <2>3 DEF Two
<1> QED BY <1>1, <1>2

LEMMA Wide8Two ==
  ASSUME NEW n \in Nat, WithinPeriod(n), NEW e \in Int, NEW w, Two(w, n, e)
  PROVE  Two(Wide8(w), n, e - 8)
<1>1. ASSUME NEW a \in Int, NEW x, Two(x, n, a)
      PROVE  Two(Wide2(x), n, a - 2)
  <2>1. a - 1 \in Int /\ (a - 1) - 1 = a - 2
    OBVIOUS
  <2>2. Two(WideDivide(x), n, a - 1)
    BY <1>1, TwoDivided
  <2>3. Two(WideDivide(WideDivide(x)), n, (a - 1) - 1)
    BY <2>1, <2>2, TwoDivided
  <2> QED BY <2>1, <2>3 DEF Wide2
<1>2. ASSUME NEW a \in Int, NEW x, Two(x, n, a)
      PROVE  Two(Wide4(x), n, a - 4)
  <2>1. a - 2 \in Int /\ (a - 2) - 2 = a - 4
    OBVIOUS
  <2>2. Two(Wide2(x), n, a - 2)
    BY <1>1, <1>2
  <2>3. Two(Wide2(Wide2(x)), n, (a - 2) - 2)
    BY <1>1, <2>1, <2>2
  <2> QED BY <2>1, <2>3 DEF Wide4
<1>3. e - 4 \in Int /\ (e - 4) - 4 = e - 8
  OBVIOUS
<1>4. Two(Wide4(w), n, e - 4)
  BY <1>2
<1>5. Two(Wide4(Wide4(w)), n, (e - 4) - 4)
  BY <1>2, <1>3, <1>4
<1> QED BY <1>3, <1>5 DEF Wide8

-----------------------------------------------------------------------------
(* Parity: the polynomial has an odd number of bits, so that the division  *)
(* puts back what it shifts out.                                           *)

Finite(w) == w \in SUBSET Nat /\ IsFiniteSet(w)
Parity(w) == Cardinality(w) % 2

LEMMA XorParity ==
  ASSUME NEW a, NEW b, Finite(a), Finite(b)
  PROVE  /\ Finite(Xor(a, b))
         /\ Parity(Xor(a, b)) = (Parity(a) + Parity(b)) % 2
         /\ Parity(a) \in {0, 1}
<1>1. IsFiniteSet(a) /\ IsFiniteSet(b)
  BY DEF Finite
<1>2. /\ IsFiniteSet(a \ b) /\ Cardinality(a \ b) = Cardinality(a) - Cardinality(a \cap b)
      /\ IsFiniteSet(b \ a) /\ Cardinality(b \ a) = Cardinality(b) - Cardinality(b \cap a)
  BY <1>1, FS_Difference
<1>3. /\ IsFiniteSet(Xor(a, b))
      /\ Cardinality(Xor(a, b)) =
           Cardinality(a \ b) + Cardinality(b \ a)
             - Cardinality((a \ b) \cap (b \ a))
  BY <1>2, FS_Union DEF Xor
<1>4. (a \ b) \cap (b \ a) = {} /\ b \cap a = a \cap b
  OBVIOUS
<1>5. Cardinality({}) = 0
  BY FS_EmptySet
<1>6. /\ Cardinality(a) \in Nat /\ Cardinality(b) \in Nat
      /\ IsFiniteSet(a \cap b) /\ Cardinality(a \cap b) \in Nat
  BY <1>1, FS_CardinalityType, FS_Intersection
<1>7. Cardinality(Xor(a, b)) =
        Cardinality(a) + Cardinality(b) - 2 * Cardinality(a \cap b)
  <2>1. Cardinality((a \ b) \cap (b \ a)) = 0 /\ Cardinality(b \cap a) = Cardinality(a \cap b)
    BY <1>4, <1>5
  <2> QED BY <1>2, <1>3, <1>6, <2>1
<1>8. \A x, y, z \in Nat : /\ (x + y - 2 * z) % 2 = ((x % 2) + (y % 2)) % 2
                           /\ x % 2 \in {0, 1}
  OBVIOUS
<1>9. Xor(a, b) \in SUBSET Nat
  BY DEF Finite, Xor
<1>10. /\ Cardinality(Xor(a, b)) % 2 = ((Cardinality(a) % 2) + (Cardinality(b) % 2)) % 2
       /\ Cardinality(a) % 2 \in {0, 1}
  BY <1>6, <1>7, <1>8
<1>11. Finite(Xor(a, b))
  BY <1>3, <1>9 DEF Finite
<1>12. Parity(Xor(a, b)) = (Parity(a) + Parity(b)) % 2 /\ Parity(a) \in {0, 1}
  BY <1>10 DEF Parity
<1> QED BY <1>11, <1>12

LEMMA FourBits ==
  ASSUME NEW a \in Nat, NEW b \in Nat, NEW c \in Nat, NEW d \in Nat,
         a < b, b < c, c < d
  PROVE  Finite({a, b, c, d}) /\ Parity({a, b, c, d}) = 0
<1>1. IsFiniteSet({a}) /\ Cardinality({a}) = 1
  BY FS_Singleton
<1>2. b \notin {a} /\ c \notin {a} \cup {b} /\ d \notin {a} \cup {b} \cup {c}
  OBVIOUS
<1>3. IsFiniteSet({a} \cup {b}) /\ Cardinality({a} \cup {b}) = 2
  BY <1>1, <1>2, FS_AddElement
<1>4. IsFiniteSet({a} \cup {b} \cup {c}) /\ Cardinality({a} \cup {b} \cup {c}) = 3
  BY <1>2, <1>3, FS_AddElement
<1>5. /\ IsFiniteSet({a} \cup {b} \cup {c} \cup {d})
      /\ Cardinality({a} \cup {b} \cup {c} \cup {d}) = 4
  BY <1>2, <1>4, FS_AddElement
<1>6. {a} \cup {b} \cup {c} \cup {d} = {a, b, c, d}
  OBVIOUS
<1>7. IsFiniteSet({a, b, c, d}) /\ Cardinality({a, b, c, d}) = 4
  BY <1>5, <1>6
<1> QED BY <1>7 DEF Finite, Parity

(* Seventeen bits.                                                         *)
LEMMA PolyParity == Finite(Poly) /\ Parity(Poly) = 1
<1> DEFINE q1 == {0, 4, 5, 6}
           q2 == {7, 9, 10, 12}
           q3 == {13, 14, 18, 19}
           q4 == {21, 22, 23, 24}
           top == {26}
<1>1. /\ Finite(q1) /\ Parity(q1) = 0
      /\ Finite(q2) /\ Parity(q2) = 0
      /\ Finite(q3) /\ Parity(q3) = 0
      /\ Finite(q4) /\ Parity(q4) = 0
  <2>1. Finite({0, 4, 5, 6}) /\ Parity({0, 4, 5, 6}) = 0
    <3>1. 0 \in Nat /\ 4 \in Nat /\ 5 \in Nat /\ 6 \in Nat /\ 0 < 4 /\ 4 < 5 /\ 5 < 6
      OBVIOUS
    <3> QED BY <3>1, FourBits, Zenon
  <2>2. Finite({7, 9, 10, 12}) /\ Parity({7, 9, 10, 12}) = 0
    <3>1. 7 \in Nat /\ 9 \in Nat /\ 10 \in Nat /\ 12 \in Nat /\ 7 < 9 /\ 9 < 10 /\ 10 < 12
      OBVIOUS
    <3> QED BY <3>1, FourBits, Zenon
  <2>3. Finite({13, 14, 18, 19}) /\ Parity({13, 14, 18, 19}) = 0
    <3>1. 13 \in Nat /\ 14 \in Nat /\ 18 \in Nat /\ 19 \in Nat /\ 13 < 14 /\ 14 < 18 /\ 18 < 19
      OBVIOUS
    <3> QED BY <3>1, FourBits, Zenon
  <2>4. Finite({21, 22, 23, 24}) /\ Parity({21, 22, 23, 24}) = 0
    <3>1. 21 \in Nat /\ 22 \in Nat /\ 23 \in Nat /\ 24 \in Nat /\ 21 < 22 /\ 22 < 23 /\ 23 < 24
      OBVIOUS
    <3> QED BY <3>1, FourBits, Zenon
  <2> QED BY <2>1, <2>2, <2>3, <2>4
<1>2. Finite(top) /\ Parity(top) = 1
  <2>1. IsFiniteSet({26}) /\ Cardinality({26}) = 1
    BY FS_Singleton
  <2>2. {26} \in SUBSET Nat /\ 1 % 2 = 1
    OBVIOUS
  <2> QED BY <2>1, <2>2 DEF Finite, Parity
<1>3. Poly = Xor(Xor(Xor(Xor(top, q1), q2), q3), q4)
  BY DEF Poly, Xor
<1> HIDE DEF q1, q2, q3, q4, top
<1>4. Finite(Xor(top, q1)) /\ Parity(Xor(top, q1)) = 1
  BY <1>1, <1>2, XorParity
<1>5. /\ Finite(Xor(Xor(top, q1), q2))
      /\ Parity(Xor(Xor(top, q1), q2)) = 1
  BY <1>1, <1>4, XorParity
<1>6. /\ Finite(Xor(Xor(Xor(top, q1), q2), q3))
      /\ Parity(Xor(Xor(Xor(top, q1), q2), q3)) = 1
  BY <1>1, <1>5, XorParity
<1> QED BY <1>1, <1>3, <1>6, XorParity

LEMMA WideDivideParity ==
  ASSUME NEW w, Finite(w)
  PROVE  Finite(WideDivide(w)) /\ Parity(WideDivide(w)) = Parity(w)
<1> DEFINE rest == w \ {0}
           s == ShiftBy(w, 1)
<1>1. IsFiniteSet(w) /\ w \in SUBSET Nat
  BY DEF Finite
<1>2. /\ IsFiniteSet(rest)
      /\ Cardinality(rest) = IF 0 \in w THEN Cardinality(w) - 1 ELSE Cardinality(w)
  BY <1>1, FS_RemoveElement
<1>3. IsFiniteSet(s) /\ Cardinality(s) = Cardinality(rest)
  <2> DEFINE f == [b \in rest |-> b - 1]
  <2>1. \A b \in rest : b \in Nat /\ b # 0 /\ b - 1 \in Nat /\ (b - 1) + 1 = b
    BY <1>1
  <2>2. f \in [rest -> s]
    BY <2>1 DEF ShiftBy
  <2>3. \A b, c \in rest : f[b] = f[c] => b = c
    BY <2>1
  <2>4. \A c \in s : c + 1 \in rest /\ f[c + 1] = c
    BY DEF ShiftBy
  <2> HIDE DEF f
  <2>5. f \in Surjection(rest, s) /\ f \in Injection(rest, s)
    BY <2>2, <2>3, <2>4 DEF Surjection, Injection, IsInjective
  <2>6. IsFiniteSet(s) /\ (Cardinality(s) = Cardinality(rest) <=> f \in Injection(rest, s))
    BY <1>2, <2>5, FS_Surjection
  <2> QED BY <2>5, <2>6
<1>4. Finite(s)
  BY <1>3 DEF Finite, ShiftBy
<1>5. Cardinality(w) \in Nat /\ Cardinality(rest) \in Nat
  BY <1>1, <1>2, FS_CardinalityType
<1> HIDE DEF rest, s
<1>6. CASE 0 \in w
  <2>1. \A n \in Nat : n - 1 \in Nat => (((n - 1) % 2) + 1) % 2 = n % 2
    OBVIOUS
  <2>2. (Parity(s) + 1) % 2 = Parity(w)
    BY <1>2, <1>3, <1>5, <1>6, <2>1 DEF Parity
  <2>3. WideDivide(w) = Xor(s, Poly)
    BY <1>6 DEF WideDivide, s
  <2> QED BY <1>4, <2>2, <2>3, PolyParity, XorParity
<1>7. CASE 0 \notin w
  <2>1. WideDivide(w) = s
    BY <1>7 DEF WideDivide, s
  <2> QED BY <1>2, <1>3, <1>4, <1>7, <2>1 DEF Parity
<1> QED BY <1>6, <1>7

LEMMA Wide8Parity ==
  ASSUME NEW w, Finite(w)
  PROVE  Finite(Wide8(w)) /\ Parity(Wide8(w)) = Parity(w)
<1>1. ASSUME NEW x, Finite(x)
      PROVE  Finite(Wide2(x)) /\ Parity(Wide2(x)) = Parity(x)
  BY <1>1, WideDivideParity DEF Wide2
<1>2. ASSUME NEW x, Finite(x)
      PROVE  Finite(Wide4(x)) /\ Parity(Wide4(x)) = Parity(x)
  BY <1>1, <1>2 DEF Wide4
<1> QED BY <1>2 DEF Wide8

-----------------------------------------------------------------------------
(* The invariant.                                                          *)

Consumed == src - len

(* The buffers hold the bytes that come next.                              *)
Loaded ==
  \A k \in 0..(len - 1) :
    buf[readsize - len + k] = <<sealed[Consumed + k], found[Consumed + k]>>

TypeInv ==
  /\ src \in Nat /\ size \in Nat /\ readsize \in Nat /\ len \in Nat
  /\ len <= readsize /\ readsize <= BufSize /\ len <= src
  /\ src + size > 0
  /\ sealed \in [0..(src + size - 1) -> Byte]
  /\ found \in [0..(src + size - 1) -> Byte]
  /\ buf \in [0..(BufSize - 1) -> Byte \X Byte]
  /\ out \in Word \X Word
  /\ verdict \in {"none", "ok", "bad"}

Difference == Xor(out[1], out[2])

(* The upper bits of the two checksums are the same.                       *)
Differs == Difference \in SUBSET Low

(* The difference of the checksums and the errors in the bytes to come.    *)
ToCome(n) == {b \in Nat : 8 * n + b \in Flipped}
Pending == Xor(Difference, ToCome(Consumed))
Short == Narrow(Flipped) => Narrow(Pending)

(* Together they have an odd number of bits as long as the errors do.      *)
Even == Finite(Pending) /\ Parity(Pending) = Parity(Flipped)

Sums == Consumed > 0 => out[1] \in SUBSET Low /\ out[2] \in SUBSET Low

Over ==
  /\ verdict # "none" => size = 0 /\ len = 0
  /\ verdict = "ok" => out[1] = out[2]

IInv == TypeInv /\ Loaded /\ Differs /\ Short /\ Even /\ Sums /\ Over

LEMMA LastByte ==
  ASSUME TypeInv
  PROVE  Last + 1 = src + size
<1>1. ASSUME NEW m \in Nat, m > 0, DOMAIN sealed = 0..(m - 1)
      PROVE  Last + 1 = m
  <2>1. m - 1 \in Int /\ ~(0 > m - 1) /\ (m - 1) - 0 + 1 = m
    BY <1>1
  <2>2. Cardinality(0..(m - 1)) = m
    BY <2>1, FS_Interval
  <2>3. Cardinality(DOMAIN sealed) = m
    BY <1>1, <2>2
  <2> QED BY <2>1, <2>3 DEF Last
<1>2. src + size \in Nat /\ src + size > 0
  BY DEF TypeInv
<1>3. DOMAIN sealed = 0..((src + size) - 1)
  BY DEF TypeInv
<1> QED BY <1>1, <1>2, <1>3

(* The bits that are wrong, byte by byte.                                  *)
LEMMA FlippedBits ==
  ASSUME TypeInv, NEW n \in 0..(src + size - 1)
  PROVE  /\ \A b \in 0..7 :
              8 * n + b \in Flipped <=> b \in Xor(sealed[n], found[n])
         /\ Xor(sealed[n], found[n]) \in SUBSET (0..7)
<1>1. Xor(sealed[n], found[n]) \in SUBSET (0..7)
  BY DEF TypeInv, Xor, Byte
<1>2. Last + 1 = src + size
  BY LastByte
<1>3. src \in Nat /\ size \in Nat /\ src + size \in Nat
  BY DEF TypeInv
<1>4. ASSUME NEW b \in 0..7
      PROVE  8 * n + b \in Flipped <=> b \in Xor(sealed[n], found[n])
  <2> DEFINE p == 8 * n + b
  <2>1. p % 8 = b /\ p \div 8 = n /\ p \in 0..(8 * (src + size) - 1)
    <3>1. n \in Nat /\ n + 1 <= src + size
      BY <1>3
    <3>2. \A x \in Nat : (8 * x + b) % 8 = b /\ (8 * x + b) \div 8 = x
      OBVIOUS
    <3>3. p \in Nat /\ p <= 8 * (src + size) - 1
      BY <1>3, <3>1
    <3> QED BY <1>3, <3>1, <3>2, <3>3
  <2>2. p \in 0..(8 * (Last + 1) - 1)
    BY <1>2, <2>1
  <2> HIDE DEF p
  <2>3. p \in Flipped <=> b \in Xor(sealed[n], found[n])
    BY <2>1, <2>2 DEF Flipped
  <2> QED BY <2>3 DEF p
<1> QED BY <1>1, <1>4

(* One byte more: the difference moves on by one division.                 *)
LEMMA OneByteMore ==
  ASSUME TypeInv, NEW n \in 0..(src + size - 1), NEW d \in SUBSET Low
  PROVE  /\ Xor(Divide8(Xor(d, Xor(sealed[n], found[n]))), ToCome(n + 1))
              = Wide8(Xor(d, ToCome(n)))
         /\ Xor(d, ToCome(n)) \in SUBSET Nat
<1> DEFINE byte == Xor(sealed[n], found[n])
           far == ToCome(n) \ (0..7)
           u == Xor(d, byte)
<1>1. /\ \A b \in 0..7 : 8 * n + b \in Flipped <=> b \in byte
      /\ byte \in SUBSET (0..7)
  BY FlippedBits
<1>2. ToCome(n) \cap (0..7) = byte /\ ToCome(n) \in SUBSET Nat
  BY <1>1 DEF ToCome
<1> HIDE DEF byte
<1>3. far \in SUBSET Nat /\ far \cap (0..7) = {}
  BY <1>2
<1>4. u \in SUBSET Low /\ u \in SUBSET Nat
  BY <1>1 DEF Xor, Low
<1>5. Xor(d, ToCome(n)) = Xor(u, far)
  <2>1. Xor(byte, far) = ToCome(n)
    BY <1>2 DEF Xor
  <2>2. Xor(d, Xor(byte, far)) = Xor(Xor(d, byte), far)
    BY XorAlgebra
  <2> QED BY <2>1, <2>2
<1>6. ShiftBy(far, 8) = ToCome(n + 1)
  <2>1. \A b \in Nat : /\ b + 8 \in Nat /\ b + 8 \notin 0..7
                       /\ 8 * (n + 1) + b = 8 * n + (b + 8)
    OBVIOUS
  <2>2. \A b \in Nat : b + 8 \in far <=> 8 * (n + 1) + b \in Flipped
    BY <2>1 DEF ToCome
  <2> HIDE DEF far
  <2> QED BY <2>2 DEF ShiftBy, ToCome
<1> HIDE DEF far, u
<1>7. Wide8(Xor(u, far)) = Xor(Wide8(u), ShiftBy(far, 8))
  BY <1>3, <1>4, Wide8Far
<1>8. Wide8(u) = Divide8(u)
  BY <1>4, Wide8Low
<1>9. Xor(u, far) \in SUBSET Nat
  BY <1>3, <1>4 DEF Xor
<1>10. Xor(Divide8(u), ToCome(n + 1)) = Wide8(Xor(u, far))
  BY <1>6, <1>7, <1>8
<1> QED BY <1>5, <1>9, <1>10 DEF u, byte

LEMMA InitIInv == Init => IInv
<1> SUFFICES ASSUME Init PROVE IInv
  OBVIOUS
<1> USE SizesAssumption
<1>1. PICK n \in DataSizes, flips \in Flips :
        /\ sealed \in [0..(n - 1) -> Bytes]
        /\ found = [k \in 0..(n - 1) |-> Xor(sealed[k], FlippedIn(k, flips))]
        /\ size = n
  BY DEF Init
<1>2. n \in Nat /\ n > 0
  OBVIOUS
<1>3. sealed \in [0..(n - 1) -> Byte]
  BY <1>1
<1>4. \A k \in 0..(n - 1) : Xor(sealed[k], FlippedIn(k, flips)) \in Byte
  BY <1>3 DEF Xor, FlippedIn, Byte
<1>5. found \in [0..(n - 1) -> Byte]
  BY <1>1, <1>4
<1>6. src = 0 /\ readsize = 0 /\ len = 0 /\ verdict = "none"
  BY DEF Init
<1>7. buf \in [0..(BufSize - 1) -> Byte \X Byte]
  BY DEF Init, Byte
<1>8. out = <<0..31, 0..31>>
  BY DEF Init
<1>9. TypeInv
  BY <1>1, <1>2, <1>3, <1>5, <1>6, <1>7, <1>8 DEF TypeInv, Word
<1>10. Loaded
  BY <1>6 DEF Loaded
<1>11. Differs
  BY <1>8 DEF Differs, Difference, Xor
<1>12. Sums /\ Over
  BY <1>6 DEF Sums, Over, Consumed
<1>13. Short /\ Even
  <2>1. Difference = {} /\ Consumed = 0
    BY <1>6, <1>8 DEF Difference, Xor, Consumed
  <2>2. Flipped \subseteq Nat
    BY DEF Flipped
  <2>3. ToCome(0) = Flipped
    <3>1. \A b \in Nat : 8 * 0 + b = b
      OBVIOUS
    <3> QED BY <2>2, <3>1 DEF ToCome
  <2>4. Xor({}, Flipped) = Flipped
    BY DEF Xor
  <2>5. IsFiniteSet(Flipped)
    <3>1. Last + 1 = src + size /\ src + size \in Nat
      BY <1>9, LastByte DEF TypeInv
    <3>2. IsFiniteSet(0..(8 * (Last + 1) - 1))
      BY <3>1, FS_Interval
    <3> QED BY <3>2, FS_Subset DEF Flipped
  <2> QED BY <2>1, <2>2, <2>3, <2>4, <2>5 DEF Short, Even, Pending, Finite
<1> QED BY <1>9, <1>10, <1>11, <1>12, <1>13 DEF IInv

(* Filling the buffer counts the bytes from one side to the other.         *)
LEMMA ReadChunkCounts ==
  ASSUME TypeInv, ReadChunk
  PROVE  src' + size' = src + size /\ Consumed' = Consumed
<1>1. /\ len = 0 /\ size > 0
      /\ readsize' = IF size > BufSize THEN BufSize ELSE size
      /\ size' = size - readsize' /\ src' = src + readsize'
      /\ len' = readsize'
  BY DEF ReadChunk
<1>2. /\ readsize' \in Nat /\ src' \in Nat /\ size' \in Nat
      /\ src' + size' = src + size
  BY <1>1, SizesAssumption DEF TypeInv
<1> QED BY <1>1, <1>2 DEF Consumed, TypeInv

LEMMA ReadChunkIInv == IInv /\ ReadChunk => IInv'
<1> SUFFICES ASSUME IInv, ReadChunk PROVE IInv'
  OBVIOUS
<1> USE SizesAssumption
<1>1. TypeInv /\ Loaded /\ Differs /\ Short /\ Even /\ Sums /\ Over
  BY DEF IInv
<1>2. /\ len = 0 /\ size > 0
      /\ readsize' = IF size > BufSize THEN BufSize ELSE size
      /\ size' = size - readsize' /\ src' = src + readsize'
      /\ len' = readsize'
      /\ UNCHANGED <<sealed, found, out, verdict>>
  BY DEF ReadChunk, data
<1>3. /\ readsize' \in Nat /\ readsize' <= BufSize /\ readsize' <= size
      /\ src' + size' = src + size
      /\ src' \in Nat /\ size' \in Nat
  BY <1>1, <1>2 DEF TypeInv
<1>4. ASSUME NEW k \in 0..(BufSize - 1)
      PROVE  buf'[k] = IF k < readsize' THEN <<sealed[src + k], found[src + k]>>
                       ELSE buf[k]
  BY <1>1 DEF ReadChunk, TypeInv
<1>5. buf' \in [0..(BufSize - 1) -> Byte \X Byte]
  <2>1. ASSUME NEW k \in 0..(BufSize - 1), k < readsize'
        PROVE  src + k \in 0..(src + size - 1)
    BY <2>1, <1>1, <1>3 DEF TypeInv
  <2>2. ASSUME NEW k \in 0..(BufSize - 1)
        PROVE  (IF k < readsize' THEN <<sealed[src + k], found[src + k]>>
                ELSE buf[k]) \in Byte \X Byte
    BY <2>1, <1>1 DEF TypeInv
  <2>3. buf' = [k \in 0..(BufSize - 1) |->
                  IF k < readsize' THEN <<sealed[src + k], found[src + k]>>
                  ELSE buf[k]]
    BY <1>1 DEF ReadChunk, TypeInv
  <2> QED BY <2>2, <2>3
<1>6. TypeInv'
  BY <1>1, <1>2, <1>3, <1>5 DEF TypeInv
<1>7. Consumed' = Consumed
  BY <1>1, <1>2, <1>3 DEF Consumed, TypeInv
<1>8. Loaded'
  <2>1. Consumed' = src /\ (readsize - len)' = 0
    BY <1>1, <1>2, <1>3, <1>7 DEF Consumed, TypeInv
  <2>2. SUFFICES ASSUME NEW k \in 0..(len' - 1)
                 PROVE  buf'[(readsize - len)' + k] =
                          <<sealed[src + k], found[src + k]>>
    BY <2>1, <1>2 DEF Loaded
  <2>3. k \in 0..(BufSize - 1) /\ k < readsize'
    BY <1>2, <1>3
  <2>4. (readsize - len)' + k = k
    BY <2>1, <2>3
  <2>5. buf'[k] = <<sealed[src + k], found[src + k]>>
    BY <2>3, <1>4
  <2> QED BY <2>4, <2>5
<1>9. Differs'
  BY <1>1, <1>2 DEF Differs, Difference
<1>10. Sums' /\ Over'
  BY <1>1, <1>2, <1>7 DEF Sums, Over, TypeInv
<1>11. Short' /\ Even'
  BY <1>1, <1>2, <1>7 DEF Short, Even, Pending, Difference, ToCome, Flipped, Last
<1> QED BY <1>6, <1>8, <1>9, <1>10, <1>11 DEF IInv

(* What a turn of the loop of crc32c does to the sums and what is left.    *)
LEMMA CrcByteDivides ==
  ASSUME IInv, CrcByte
  PROVE  /\ Consumed \in 0..(src + size - 1) /\ Consumed' = Consumed + 1
         /\ out'[1] \in Word /\ out'[1] \in SUBSET Low
         /\ out'[2] \in Word /\ out'[2] \in SUBSET Low
         /\ out' = <<out'[1], out'[2]>>
         /\ Difference' \in SUBSET Low
         /\ Flipped' = Flipped
         /\ Pending \in SUBSET Nat /\ Pending' = Wide8(Pending)
<1> USE SizesAssumption
<1> DEFINE x == sealed[Consumed]
           y == found[Consumed]
<1>1. TypeInv /\ Loaded /\ Differs /\ Short /\ Even /\ Sums /\ Over
  BY DEF IInv
<1>2. /\ len > 0 /\ len' = len - 1
      /\ UNCHANGED <<sealed, found, src, size, buf, readsize, verdict>>
  BY DEF CrcByte, data
<1>3. /\ Consumed \in 0..(src + size - 1)
      /\ Consumed' = Consumed + 1
  BY <1>1, <1>2 DEF Consumed, TypeInv
<1>4. buf[readsize - len] = <<x, y>>
  <2>1. 0 \in 0..(len - 1) /\ readsize - len + 0 = readsize - len
        /\ Consumed + 0 = Consumed
    BY <1>1, <1>2, <1>3 DEF TypeInv
  <2> QED BY <1>1, <2>1 DEF Loaded
<1>5. out' = <<AddByte(out[1], x), AddByte(out[2], y)>>
  BY <1>4 DEF CrcByte
<1>6. x \in Byte /\ y \in Byte /\ out[1] \in Word /\ out[2] \in Word
  BY <1>1, <1>3 DEF TypeInv
<1>7. Difference \in SUBSET Low
  BY <1>1 DEF Differs
<1> HIDE DEF x, y
<1>8. /\ out'[1] \in Word /\ out'[1] \in SUBSET Low
      /\ out'[2] \in Word /\ out'[2] \in SUBSET Low
      /\ Difference' \in SUBSET Low
      /\ Difference' = Divide8(Xor(Difference, Xor(x, y)))
  BY <1>5, <1>6, <1>7, AddByteFacts DEF Difference
<1>9. Flipped' = Flipped
  BY <1>2 DEF Flipped, Last
<1>10. Pending' = Wide8(Pending) /\ Pending \in SUBSET Nat
  <2>1. Pending' = Xor(Difference', ToCome(Consumed + 1))
    BY <1>3, <1>9 DEF Pending, ToCome
  <2> QED BY <1>1, <1>3, <1>7, <1>8, <2>1, OneByteMore DEF x, y, Pending
<1> QED BY <1>3, <1>5, <1>8, <1>9, <1>10 DEF x, y

LEMMA CrcByteIInv == IInv /\ CrcByte => IInv'
<1> SUFFICES ASSUME IInv, CrcByte PROVE IInv'
  OBVIOUS
<1> USE SizesAssumption
<1>1. TypeInv /\ Loaded /\ Differs /\ Short /\ Even /\ Sums /\ Over
  BY DEF IInv
<1>2. /\ len > 0 /\ len' = len - 1
      /\ UNCHANGED <<sealed, found, src, size, buf, readsize, verdict>>
  BY DEF CrcByte, data
<1>3. /\ Consumed \in 0..(src + size - 1)
      /\ Consumed' = Consumed + 1
  BY CrcByteDivides
<1>4. /\ out'[1] \in Word /\ out'[1] \in SUBSET Low
      /\ out'[2] \in Word /\ out'[2] \in SUBSET Low
      /\ out' = <<out'[1], out'[2]>>
      /\ Difference' \in SUBSET Low
  BY CrcByteDivides
<1>5. TypeInv'
  <2>1. out' \in Word \X Word
    BY <1>4
  <2> QED BY <1>1, <1>2, <2>1 DEF TypeInv
<1>6. Loaded'
  <2>1. SUFFICES ASSUME NEW k \in 0..(len' - 1)
                 PROVE  buf[readsize - len' + k] =
                          <<sealed[Consumed' + k], found[Consumed' + k]>>
    BY <1>2 DEF Loaded
  <2>2. k + 1 \in 0..(len - 1)
    BY <1>1, <1>2 DEF TypeInv
  <2>3. /\ readsize - len' + k = readsize - len + (k + 1)
        /\ Consumed' + k = Consumed + (k + 1)
    BY <1>1, <1>2, <1>3 DEF TypeInv
  <2> QED BY <2>2, <2>3, <1>1 DEF Loaded
<1>7. Differs'
  BY <1>4 DEF Differs
<1>8. Sums' /\ Over'
  BY <1>1, <1>2, <1>4 DEF Sums, Over, TypeInv
<1>9. Short' /\ Even'
  <2>1. Flipped' = Flipped
    BY CrcByteDivides
  <2>2. Pending' = Wide8(Pending) /\ Pending \in SUBSET Nat
    BY CrcByteDivides
  <2>3. Narrow(Pending) => Narrow(Wide8(Pending))
    BY <2>2, Wide8Narrow
  <2>4. Finite(Wide8(Pending)) /\ Parity(Wide8(Pending)) = Parity(Flipped)
    BY <1>1, Wide8Parity DEF Even
  <2> QED BY <1>1, <2>1, <2>2, <2>3, <2>4 DEF Short, Even
<1> QED BY <1>5, <1>6, <1>7, <1>8, <1>9 DEF IInv

LEMMA CompareIInv == IInv /\ Compare => IInv'
<1> SUFFICES ASSUME IInv, Compare PROVE IInv'
  OBVIOUS
<1>1. /\ len = 0 /\ size = 0
      /\ verdict' = IF out[1] = out[2] THEN "ok" ELSE "bad"
      /\ UNCHANGED <<sealed, found, src, size, buf, readsize, len, out>>
  BY DEF Compare, data
<1>2. Consumed' = Consumed /\ Difference' = Difference
  BY <1>1 DEF Consumed, Difference
<1>3. TypeInv'
  BY <1>1 DEF IInv, TypeInv
<1>4. Loaded' /\ Differs' /\ Sums'
  BY <1>1, <1>2 DEF IInv, Loaded, Differs, Sums
<1>5. Over'
  BY <1>1 DEF IInv, Over
<1>6. Short' /\ Even'
  BY <1>1, <1>2 DEF IInv, Short, Even, Pending, ToCome, Flipped, Last
<1> QED BY <1>3, <1>4, <1>5, <1>6 DEF IInv

LEMMA StutterIInv == IInv /\ UNCHANGED vars => IInv'
<1> SUFFICES ASSUME IInv, UNCHANGED vars PROVE IInv'
  OBVIOUS
<1>1. (TypeInv /\ Loaded /\ Differs /\ Sums /\ Over)'
  BY DEF IInv, TypeInv, Loaded, Differs, Difference, Sums, Over, Consumed,
     vars, data
<1>2. Short' /\ Even'
  BY DEF IInv, Short, Even, Pending, Difference, ToCome, Flipped, Last, Consumed, vars, data
<1> QED BY <1>1, <1>2 DEF IInv

LEMMA NextIInv == IInv /\ [Next]_vars => IInv'
BY ReadChunkIInv, CrcByteIInv, CompareIInv, StutterIInv DEF Next

(* When the sums agree, there is nothing left of the errors.               *)
LEMMA NothingPending == IInv /\ verdict = "ok" => Pending = {}
<1> SUFFICES ASSUME IInv, verdict = "ok" PROVE Pending = {}
  OBVIOUS
<1>1. Consumed = src + size
  BY DEF IInv, TypeInv, Over, Consumed
<1>2. Difference = {}
  BY XorAlgebra DEF IInv, Over, Difference
<1>3. ToCome(src + size) = {}
  <2>1. Last + 1 = src + size /\ src + size \in Nat
    BY LastByte DEF IInv, TypeInv
  <2>2. ASSUME NEW b \in Nat PROVE 8 * (src + size) + b \notin Flipped
    BY <2>1 DEF Flipped
  <2> QED BY <2>2 DEF ToCome
<1>4. Xor({}, {}) = {}
  BY DEF Xor
<1> QED BY <1>1, <1>2, <1>3, <1>4 DEF Pending

LEMMA IInvDetects ==
  IInv => BurstDetected /\ OddErrorDetected /\ ErasedIsNoSum
<1> SUFFICES ASSUME IInv
             PROVE  BurstDetected /\ OddErrorDetected /\ ErasedIsNoSum
  OBVIOUS
<1>1. verdict # "none" => Consumed = src + size /\ Consumed > 0
  BY DEF IInv, TypeInv, Over, Consumed
<1>2. ErasedIsNoSum
  BY <1>1 DEF IInv, Sums, ErasedIsNoSum, Low
<1>3. BurstDetected
  <2> SUFFICES ASSUME verdict = "ok", Flipped # {}, \A p, q \in Flipped : ~(p - q > 26)
               PROVE  FALSE
    BY DEF BurstDetected
  <2>1. Flipped \subseteq Int
    BY DEF Flipped
  <2>2. Narrow(Flipped)
    <3>1. \A p, q \in Int : ~(p - q > 26) => p - q <= 26
      OBVIOUS
    <3> QED BY <2>1, <3>1 DEF Narrow
  <2>3. ~Narrow({})
    BY DEF Narrow
  <2> QED BY <2>2, <2>3, NothingPending DEF IInv, Short
<1>4. OddErrorDetected
  <2>1. Cardinality({}) % 2 = 0
    BY FS_EmptySet
  <2> QED BY <2>1, NothingPending DEF IInv, Even, Parity, OddErrorDetected
<1> QED BY <1>2, <1>3, <1>4

-----------------------------------------------------------------------------
(* Two wrong bits.                                                         *)

BitsOfData == 8 * (src + size) - 1

Doubled ==
  \A p, q \in Flipped :
    p < q /\ Flipped = {p, q} => Two(Pending, BitsOfData, q - 8 * Consumed)

(* The data of a slot has no two bits that are a period or more apart.     *)
WithinPeriods == \A n \in DataSizes : WithinPeriod(8 * n - 1)

DInv == IInv /\ src + size \in DataSizes /\ Doubled

LEMMA InitDInv == Init => DInv
<1> SUFFICES ASSUME Init PROVE DInv
  OBVIOUS
<1>1. IInv
  BY InitIInv
<1>2. src = 0 /\ size \in DataSizes /\ len = 0 /\ out = <<0..31, 0..31>>
  BY DEF Init
<1>3. size \in Nat /\ src + size = size
  BY <1>2, SizesAssumption
<1>4. Consumed = 0 /\ Difference = {}
  BY <1>2 DEF Consumed, Difference, Xor
<1>5. Last + 1 = src + size
  BY <1>1, LastByte DEF IInv
<1>6. Flipped \subseteq 0..BitsOfData
  BY <1>5 DEF Flipped, BitsOfData
<1>7. Pending = Flipped
  <2>1. ToCome(0) = Flipped
    <3>1. Flipped \subseteq Nat /\ \A b \in Nat : 8 * 0 + b = b
      BY <1>6
    <3> QED BY <3>1 DEF ToCome
  <2> QED BY <1>4, <2>1 DEF Pending, Xor
<1>8. ASSUME NEW p \in Flipped, NEW q \in Flipped, p < q, Flipped = {p, q}
      PROVE  Two(Pending, BitsOfData, q - 8 * Consumed)
  <2>1. BitsOfData \in Int /\ p \in 0..BitsOfData /\ q \in 0..BitsOfData
    BY <1>3, <1>6 DEF BitsOfData
  <2>2. q - p \in 1..BitsOfData /\ q - p <= q /\ q - (q - p) = p /\ q > 0
    BY <1>8, <2>1
  <2>3. Pending = {q - (q - p), q}
    BY <1>7, <1>8, <2>2
  <2>4. BothAhead(Pending, BitsOfData, q)
    BY <2>2, <2>3 DEF BothAhead
  <2>5. q - 8 * Consumed = q
    BY <1>4, <2>1
  <2> QED BY <2>2, <2>4, <2>5 DEF Two
<1> QED BY <1>1, <1>2, <1>3, <1>8 DEF DInv, Doubled

LEMMA NextDInv ==
  ASSUME WithinPeriods
  PROVE  DInv /\ [Next]_vars => DInv'
<1> SUFFICES ASSUME DInv, [Next]_vars PROVE DInv'
  OBVIOUS
<1>1. IInv'
  BY NextIInv DEF DInv
<1>2. CASE CrcByte
  <2>1. UNCHANGED <<src, size>>
    BY <1>2 DEF CrcByte
  <2>2. /\ Consumed \in 0..(src + size - 1) /\ Consumed' = Consumed + 1
        /\ Flipped' = Flipped /\ Pending' = Wide8(Pending)
    BY <1>2, CrcByteDivides DEF DInv
  <2>3. BitsOfData' = BitsOfData /\ BitsOfData \in Nat
    BY <2>1 DEF BitsOfData, DInv, IInv, TypeInv
  <2>4. WithinPeriod(BitsOfData)
    BY DEF WithinPeriods, BitsOfData, DInv
  <2>5. ASSUME NEW p \in Flipped, NEW q \in Flipped, p < q, Flipped = {p, q}
        PROVE  Two(Pending', BitsOfData, q - 8 * Consumed')
    <3>1. q \in Int /\ Consumed \in Int
      BY <2>2 DEF Flipped
    <3>2. q - 8 * Consumed \in Int /\ q - 8 * Consumed' = (q - 8 * Consumed) - 8
      BY <2>2, <3>1
    <3>3. Two(Pending, BitsOfData, q - 8 * Consumed)
      BY <2>5 DEF DInv, Doubled
    <3> QED BY <2>2, <2>3, <2>4, <3>2, <3>3, Wide8Two
  <2>6. Doubled'
    BY <2>2, <2>3, <2>5 DEF Doubled
  <2> QED BY <1>1, <2>1, <2>6 DEF DInv
<1>3. ASSUME ReadChunk \/ Compare \/ UNCHANGED vars
      PROVE  /\ UNCHANGED <<sealed, found, out, Consumed>>
             /\ src' + size' = src + size
  <2>1. CASE ReadChunk
    BY <2>1, ReadChunkCounts DEF DInv, IInv, ReadChunk, data
  <2>2. CASE Compare \/ UNCHANGED vars
    BY <2>2 DEF Compare, vars, data, Consumed
  <2> QED BY <1>3, <2>1, <2>2
<1>4. CASE ReadChunk \/ Compare \/ UNCHANGED vars
  <2>1. /\ BitsOfData' = BitsOfData /\ Flipped' = Flipped
        /\ Pending' = Pending /\ Consumed' = Consumed
    BY <1>3, <1>4 DEF BitsOfData, Flipped, Last, Pending, Difference, ToCome
  <2> QED BY <1>1, <1>3, <1>4, <2>1 DEF DInv, Doubled
<1> QED BY <1>2, <1>4 DEF Next

LEMMA DInvDetects == DInv => DoubleErrorDetected
<1> SUFFICES ASSUME DInv, verdict = "ok", Flipped # {}, ~(Cardinality(Flipped) > 2)
             PROVE  FALSE
  BY DEF DoubleErrorDetected
<1>1. IInv /\ Doubled
  BY DEF DInv
<1>2. Last + 1 = src + size /\ src + size \in Nat
  BY <1>1, LastByte DEF IInv, TypeInv
<1>3. Flipped \subseteq 0..(8 * (src + size) - 1)
  BY <1>2 DEF Flipped
<1>4. IsFiniteSet(Flipped)
  <2>1. IsFiniteSet(0..(8 * (src + size) - 1))
    BY <1>2, FS_Interval
  <2> QED BY <1>3, <2>1, FS_Subset
<1>5. PICK p : p \in Flipped
  OBVIOUS
<1>6. PICK q \in Flipped : q # p
  <2> SUFFICES ASSUME Flipped = {p} PROVE FALSE
    BY <1>5
  <2>1. p \in Int
    BY <1>3, <1>5
  <2>2. \A a, b \in Flipped : ~(a - b > 26)
    BY <2>1
  <2> QED BY <1>1, <2>2, IInvDetects DEF BurstDetected
<1>7. Flipped = {p, q}
  <2> SUFFICES ASSUME NEW r \in Flipped, r # p, r # q PROVE FALSE
    BY <1>5
  <2>1. /\ IsFiniteSet(Flipped \ {p})
        /\ Cardinality(Flipped \ {p}) = Cardinality(Flipped) - 1
    BY <1>4, <1>5, FS_RemoveElement
  <2>2. /\ IsFiniteSet((Flipped \ {p}) \ {q})
        /\ Cardinality((Flipped \ {p}) \ {q}) = Cardinality(Flipped) - 2
    <3>1. q \in Flipped \ {p}
      BY <1>6
    <3>2. /\ IsFiniteSet((Flipped \ {p}) \ {q})
          /\ Cardinality((Flipped \ {p}) \ {q}) = Cardinality(Flipped \ {p}) - 1
      BY <2>1, <3>1, FS_RemoveElement
    <3>3. Cardinality(Flipped) \in Nat
      BY <1>4, FS_CardinalityType
    <3> QED BY <2>1, <3>2, <3>3
  <2>3. (Flipped \ {p}) \ {q} # {}
    OBVIOUS
  <2>4. /\ Cardinality((Flipped \ {p}) \ {q}) # 0
        /\ Cardinality((Flipped \ {p}) \ {q}) \in Nat
    BY <2>2, <2>3, FS_EmptySet, FS_CardinalityType
  <2>5. Cardinality(Flipped) \in Nat
    BY <1>4, FS_CardinalityType
  <2> QED BY <2>2, <2>4, <2>5
<1>8. ASSUME NEW a \in Flipped, NEW b \in Flipped, a < b, Flipped = {a, b}
      PROVE  FALSE
  <2>1. Two(Pending, BitsOfData, b - 8 * Consumed)
    BY <1>1, <1>8 DEF Doubled
  <2>2. Consumed = src + size
    BY <1>1 DEF IInv, TypeInv, Over, Consumed
  <2>3. ~(b - 8 * Consumed > 0)
    BY <1>2, <1>3, <2>2
  <2>4. Pending # {}
    BY <2>1, <2>3 DEF Two
  <2> QED BY <1>1, <2>4, NothingPending
<1>9. p \in Int /\ q \in Int /\ (p < q \/ q < p)
  BY <1>3, <1>5, <1>6
<1>10. Flipped = {q, p}
  BY <1>7
<1> QED BY <1>5, <1>7, <1>8, <1>9, <1>10

(* For every data size, buffer and content of the slot: errors that lie    *)
(* within 27 bits of each other do not pass the integrity check, across    *)
(* bytes and across the buffers through which the data is read.            *)
THEOREM ShortBurstDetected == Spec => []BurstDetected
<1>1. Init => IInv
  BY InitIInv
<1>2. IInv /\ [Next]_vars => IInv'
  BY NextIInv
<1>3. IInv => BurstDetected
  BY IInvDetects
<1> QED BY <1>1, <1>2, <1>3, PTL DEF Spec

(* For every data size, buffer and content of the slot: an odd number of   *)
(* wrong bits, wherever they are, does not pass the integrity check.       *)
THEOREM OddNumberDetected == Spec => []OddErrorDetected
<1>1. Init => IInv
  BY InitIInv
<1>2. IInv /\ [Next]_vars => IInv'
  BY NextIInv
<1>3. IInv => OddErrorDetected
  BY IInvDetects
<1> QED BY <1>1, <1>2, <1>3, PTL DEF Spec

(* For every data size below the period of the polynomial, and every       *)
(* buffer and content of the slot: one or two wrong bits do not pass the   *)
(* integrity check, however far apart they are.                            *)
THEOREM TwoBitsDetected == WithinPeriods => (Spec => []DoubleErrorDetected)
<1> SUFFICES ASSUME WithinPeriods PROVE Spec => []DoubleErrorDetected
  OBVIOUS
<1>1. Init => DInv
  BY InitDInv
<1>2. DInv /\ [Next]_vars => DInv'
  BY NextDInv
<1>3. DInv => DoubleErrorDetected
  BY DInvDetects
<1> QED BY <1>1, <1>2, <1>3, PTL DEF Spec

(* For every data size, buffer and content of the slot: the checksum keeps *)
(* its five upper bits 0, so an erased word is not the sum of any data.    *)
THEOREM ErasedWordRejected == Spec => []ErasedIsNoSum
<1>1. Init => IInv
  BY InitIInv
<1>2. IInv /\ [Next]_vars => IInv'
  BY NextIInv
<1>3. IInv => ErasedIsNoSum
  BY IInvDetects
<1> QED BY <1>1, <1>2, <1>3, PTL DEF Spec
=============================================================================
