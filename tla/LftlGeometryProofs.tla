------------------------- MODULE LftlGeometryProofs -------------------------
(***************************************************************************)
(* The geometry of an area for all sizes of units, pages and data and all  *)
(* wear leveling factors: slots and metadata are where they should be, and *)
(* the ring wears all of them evenly.  The macro LFTL_AREA is taken for    *)
(* units from 4 bytes: it does not reserve enough for smaller ones.        *)
(***************************************************************************)
EXTENDS LftlGeometry, TLAPS

WideUnits == \A ws \in MacroWriteSizes : ws >= WordSize

-----------------------------------------------------------------------------
(* Arithmetic.                                                             *)

LEMMA DivMod ==
  ASSUME NEW a \in Nat, NEW m \in Nat \ {0}
  PROVE  /\ a \div m \in Nat /\ a % m \in 0..(m - 1)
         /\ a = (m * (a \div m)) + (a % m)
BY SMT

LEMMA DivMul ==
  ASSUME NEW k \in Nat, NEW m \in Nat \ {0}
  PROVE  (k * m) \div m = k /\ (k * m) % m = 0
BY SMT

LEMMA Ceiling ==
  ASSUME NEW n \in Nat \ {0}, NEW d \in Nat \ {0}
  PROVE  /\ CeilDiv(n, d) \in Nat \ {0}
         /\ n <= CeilDiv(n, d) * d
<1> DEFINE q == (n + d - 1) \div d
<1>1. n + d - 1 \in Nat
  OBVIOUS
<1>2. /\ q \in Nat /\ (n + d - 1) % d \in 0..(d - 1)
      /\ n + d - 1 = (d * q) + ((n + d - 1) % d)
  BY <1>1, DivMod
<1> HIDE DEF q
<1>3. n <= d * q
  BY <1>2
<1>4. d * q = q * d /\ q # 0
  BY <1>2, <1>3
<1>5. CeilDiv(n, d) = q
  BY DEF CeilDiv, q
<1> QED BY <1>2, <1>3, <1>4, <1>5

LEMMA MultiplesOrder ==
  ASSUME NEW j \in Nat, NEW k \in Nat, NEW m \in Nat \ {0}
  PROVE  /\ j * m \in Nat
         /\ j * m <= k * m <=> j <= k
         /\ (j + 1) * m = (j * m) + m
         /\ m * j = j * m
BY SMT

LEMMA Exact ==
  ASSUME NEW n \in Nat, NEW m \in Nat \ {0}, n % m = 0
  PROVE  \E k \in Nat : n = k * m
BY SMT

LEMMA Regrouped ==
  ASSUME NEW a \in Nat, NEW b \in Nat, NEW m \in Nat
  PROVE  a * (b * m) = (a * b) * m /\ a * b \in Nat
BY SMT

AlignedIn(s, p, es, ws, item, size) ==
  /\ (s * size) % es = 0
  /\ ((s * size) + (size - (3 * item))) % ws = 0

LEMMA Aligned ==
  ASSUME NEW s \in Nat, NEW p \in Nat, NEW es \in Nat \ {0},
         NEW ws \in Nat \ {0}, NEW item \in Nat, NEW size \in Nat,
         es % ws = 0, item % ws = 0, size = p * es, 3 * item <= size
  PROVE  AlignedIn(s, p, es, ws, item, size)
<1>0. ws \in Nat /\ es \in Nat
  OBVIOUS
<1>1. PICK e \in Nat : es = e * ws
  BY Exact
<1>2. PICK t \in Nat : item = t * ws
  BY Exact
<1>3. s * size = (s * p) * es /\ s * p \in Nat
  BY Regrouped
<1>4. (s * size) % es = 0
  BY <1>3, DivMul, Zenon
<1>5. PICK a \in Nat : s * size = a * ws
  <2> DEFINE g == s * p
  <2>1. g \in Nat /\ s * size = g * (e * ws)
    BY <1>1, <1>3
  <2> HIDE DEF g
  <2>2. g * (e * ws) = (g * e) * ws /\ g * e \in Nat
    BY <1>0, <2>1, SMT
  <2> QED BY <2>1, <2>2, Zenon
<1>6. PICK b \in Nat : size = b * ws
  <2>1. p * (e * ws) = (p * e) * ws /\ p * e \in Nat
    BY <1>0, SMT
  <2> QED BY <1>1, <2>1, Zenon
<1>7. PICK c \in Nat : 3 * item = c * ws
  <2>1. 3 * (t * ws) = (3 * t) * ws /\ 3 * t \in Nat
    BY Regrouped
  <2> QED BY <1>2, <2>1, Zenon
<1>8. c * ws <= b * ws
  BY <1>6, <1>7, Zenon
<1>9. /\ a + (b - c) \in Nat
      /\ (a * ws) + ((b * ws) - (c * ws)) = (a + (b - c)) * ws
  <2>1. c <= b
    BY <1>8, MultiplesOrder
  <2> QED BY <2>1
<1>10. ((a + (b - c)) * ws) % ws = 0
  BY <1>9, DivMul, Zenon
<1>11. (s * size) + (size - (3 * item)) = (a + (b - c)) * ws
  BY <1>5, <1>6, <1>7, <1>9, Zenon
<1> QED BY <1>4, <1>10, <1>11, Zenon DEF AlignedIn

LEMMA Constants ==
  /\ WriteSizes \subseteq Nat \ {0} /\ EraseSizes \subseteq Nat \ {0}
  /\ DataSizes \subseteq Nat \ {0} /\ Factors \subseteq Nat \ {0, 1}
  /\ MacroWriteSizes \subseteq WriteSizes /\ MaxUses \in Nat
BY SizesAssumption

-----------------------------------------------------------------------------
(* The sizes of an area that was declared.                                 *)

Declared ==
  /\ factor \in Factors
  /\ ctx.write_size \in WriteSizes /\ ctx.erase_size \in EraseSizes
  /\ ctx.data_size \in DataSizes
  /\ ctx.erase_size % ctx.write_size = 0
  /\ ctx.data_size % ctx.write_size = 0
  /\ ctx.area_size = factor * SlotSize(ctx)

LEMMA Sizes ==
  ASSUME Declared
  PROVE  /\ factor \in Nat /\ factor >= 2
         /\ ctx.write_size \in Nat \ {0} /\ ctx.erase_size \in Nat \ {0}
         /\ ctx.data_size \in Nat \ {0}
         /\ ItemSize(ctx) \in Nat \ {0} /\ ItemSize(ctx) % ctx.write_size = 0
         /\ MetaSize(ctx) = 3 * ItemSize(ctx)
         /\ PagesInSlot(ctx) \in Nat \ {0}
         /\ SlotSize(ctx) \in Nat \ {0}
         /\ SlotSize(ctx) = PagesInSlot(ctx) * ctx.erase_size
         /\ ctx.data_size + MetaSize(ctx) <= SlotSize(ctx)
         /\ Slots(ctx) = factor
<1>1. /\ factor \in Nat /\ factor >= 2
      /\ ctx.write_size \in Nat \ {0} /\ ctx.erase_size \in Nat \ {0}
      /\ ctx.data_size \in Nat \ {0}
  <2>1. /\ factor \in Factors
        /\ ctx.write_size \in WriteSizes /\ ctx.erase_size \in EraseSizes
        /\ ctx.data_size \in DataSizes
    BY DEF Declared
  <2>2. factor \in Nat /\ factor # 0 /\ factor # 1
    BY <2>1, Constants
  <2>3. factor >= 2
    BY <2>2
  <2> QED BY <2>1, <2>2, <2>3, Constants
<1>2. ItemSize(ctx) \in Nat \ {0} /\ ItemSize(ctx) % ctx.write_size = 0
  <2>1. CASE ctx.write_size > WordSize
    BY <1>1, <2>1, DivMul DEF ItemSize
  <2>2. CASE ~(ctx.write_size > WordSize)
    <3>1. ItemSize(ctx) = 4 /\ ctx.write_size <= 4
      BY <1>1, <2>2 DEF ItemSize, WordSize
    <3>2. ctx.write_size < 4 => 4 % ctx.write_size = 0
      BY SizesAssumption DEF Declared, WordSize
    <3>3. 4 % 4 = 0
      OBVIOUS
    <3> QED BY <1>1, <3>1, <3>2, <3>3
  <2> QED BY <2>1, <2>2
<1>3. MetaSize(ctx) = 3 * ItemSize(ctx)
  BY DEF MetaSize, MetaItems
<1>4. ctx.data_size + MetaSize(ctx) \in Nat \ {0}
  BY <1>1, <1>2, <1>3
<1>5. /\ PagesInSlot(ctx) \in Nat \ {0}
      /\ ctx.data_size + MetaSize(ctx) <= PagesInSlot(ctx) * ctx.erase_size
  BY <1>1, <1>4, Ceiling DEF PagesInSlot
<1>6. SlotSize(ctx) = PagesInSlot(ctx) * ctx.erase_size
  BY DEF SlotSize
<1>7. SlotSize(ctx) \in Nat \ {0}
  BY <1>1, <1>5, <1>6
<1>8. Slots(ctx) = factor
  BY <1>1, <1>7, DivMul DEF Slots, Declared
<1> QED BY <1>1, <1>2, <1>3, <1>5, <1>6, <1>7, <1>8

LEMMA InitDeclared == ASSUME Init, WideUnits PROVE Declared
<1>1. PICK ws \in WriteSizes, es \in EraseSizes, ds \in DataSizes :
        /\ es % ws = 0 /\ ds % ws = 0
        /\ \/ ws \in MacroWriteSizes
              /\ ctx = Context(ws, es, ds, MacroPages(ws, es, ds, factor) * es)
           \/ ctx = Context(ws, es, ds,
                            SlotSize(Context(ws, es, ds, 0)) * factor)
  BY DEF Init
<1> DEFINE p == CeilDiv(ds + (3 * (IF ws > 4 THEN ws ELSE 4)), es)
<1>2. /\ ws \in Nat \ {0} /\ es \in Nat \ {0} /\ ds \in Nat \ {0}
      /\ factor \in Nat
  BY SizesAssumption DEF Init
<1>3. ds + (3 * (IF ws > 4 THEN ws ELSE 4)) \in Nat \ {0}
  BY <1>2
<1>4. p \in Nat
  BY <1>2, <1>3, Ceiling
<1>5. \A size : SlotSize(Context(ws, es, ds, size)) = p * es
  BY DEF SlotSize, PagesInSlot, MetaSize, ItemSize, Context, MetaItems,
         WordSize
<1>6. CASE ctx = Context(ws, es, ds, SlotSize(Context(ws, es, ds, 0)) * factor)
  <2>1. ctx.area_size = (p * es) * factor /\ SlotSize(ctx) = p * es
    BY <1>5, <1>6 DEF Context
  <2> HIDE DEF p
  <2>2. (p * es) * factor = factor * (p * es)
    BY <1>2, <1>4
  <2> QED BY <1>1, <1>6, <2>1, <2>2 DEF Declared, Init, Context
<1>7. CASE /\ ws \in MacroWriteSizes
           /\ ctx = Context(ws, es, ds, MacroPages(ws, es, ds, factor) * es)
  <2>1. ws >= 4
    BY <1>7 DEF WideUnits, WordSize
  <2>2. 3 * ws = 3 * (IF ws > 4 THEN ws ELSE 4)
    BY <1>2, <2>1
  <2>3. MacroPages(ws, es, ds, factor) = p * factor
    BY <2>2 DEF MacroPages, MetaItems
  <2>4. ctx.area_size = (p * factor) * es /\ SlotSize(ctx) = p * es
    BY <1>5, <1>7, <2>3 DEF Context
  <2> HIDE DEF p
  <2>5. (p * factor) * es = factor * (p * es)
    BY <1>2, <1>4
  <2> QED BY <1>1, <1>7, <2>4, <2>5 DEF Declared, Init, Context
<1> QED BY <1>1, <1>6, <1>7

LEMMA DeclaredFits ==
  ASSUME Declared, DOMAIN uses = 0..(Slots(ctx) - 1)
  PROVE  SlotsFit /\ SlotsDeclared
<1> DEFINE ws == ctx.write_size
           es == ctx.erase_size
           item == ItemSize(ctx)
           size == SlotSize(ctx)
<1>1. /\ factor \in Nat /\ ws \in Nat \ {0} /\ es \in Nat \ {0}
      /\ item \in Nat \ {0} /\ item % ws = 0
      /\ PagesInSlot(ctx) \in Nat \ {0} /\ size \in Nat \ {0}
      /\ size = PagesInSlot(ctx) * es
      /\ MetaSize(ctx) = 3 * item /\ ctx.data_size \in Nat
      /\ ctx.data_size + MetaSize(ctx) <= size
      /\ Slots(ctx) = factor
      /\ ctx.area_size = factor * size
  BY Sizes DEF Declared
<1>3. SlotBase(ctx, Slots(ctx)) <= ctx.area_size
  BY <1>1 DEF SlotBase
<1>4. ASSUME NEW s \in Nat
      PROVE  /\ SlotBase(ctx, s) % es = 0
             /\ (SlotBase(ctx, s) + MetaOffset(ctx)) % ws = 0
  <2>1. /\ SlotBase(ctx, s) = s * size
        /\ MetaOffset(ctx) = size - (3 * item)
    BY <1>1 DEF SlotBase, MetaOffset
  <2>2. es % ws = 0 /\ 3 * item <= size
    BY <1>1 DEF Declared
  <2> DEFINE p == PagesInSlot(ctx)
  <2>3. p \in Nat /\ size \in Nat /\ item \in Nat /\ size = p * es
    BY <1>1
  <2> HIDE DEF ws, es, item, size, p
  <2>4. AlignedIn(s, p, es, ws, item, size)
    BY <1>1, <2>2, <2>3, Aligned
  <2> QED BY <2>1, <2>4 DEF AlignedIn
<1>5. /\ ctx.data_size <= MetaOffset(ctx)
      /\ MetaOffset(ctx) + (MetaItems * item) <= size
  <2>1. MetaOffset(ctx) = size - (3 * item)
    BY <1>1 DEF MetaOffset
  <2> HIDE DEF ws, es, item, size
  <2> QED BY <1>1, <2>1 DEF MetaItems
<1>6. SlotsDeclared
  BY <1>1 DEF SlotsDeclared
<1>7. DOMAIN uses \subseteq Nat
  BY <1>1
<1> QED BY <1>1, <1>3, <1>4, <1>5, <1>6, <1>7 DEF SlotsFit
-----------------------------------------------------------------------------
(* The ring of slots: those up to the current one were written once more   *)
(* than those after it.                                                    *)

Turns(cur, k) ==
  /\ data = cur * SlotSize(ctx)
  /\ \A s \in 0..(factor - 1) : uses[s] = IF s <= cur THEN k + 1 ELSE k

Unwritten == data = 0 /\ \A s \in 0..(factor - 1) : uses[s] = 0

Errors == {"none", "INTERNAL_ERROR", "WU_SIZE_TOO_LARGE",
           "FIRST_NOT_IN_DATA", "LAST_NOT_IN_DATA",
           "TRANSACTION_ONGOING", "TRANSACTION_OVERWRITE"}

IInv ==
  /\ Declared
  /\ err \in Errors /\ open \in BOOLEAN
  /\ uses \in [0..(factor - 1) -> Nat]
  /\ Unwritten \/ \E cur \in 0..(factor - 1), k \in 0..MaxUses : Turns(cur, k)

LEMMA NextOf ==
  ASSUME Declared, NEW cur \in 0..(factor - 1), data = cur * SlotSize(ctx)
  PROVE  /\ CurrentSlot = cur
         /\ NextSlot = IF cur = factor - 1 THEN 0 ELSE cur + 1
<1> DEFINE size == SlotSize(ctx)
<1>1. /\ factor \in Nat /\ cur \in Nat /\ size \in Nat \ {0}
      /\ ctx.area_size = factor * size /\ data = cur * size
  BY Sizes DEF Declared
<1>2. CurrentSlot = cur
  <2>1. CurrentSlot = data \div size
    BY DEF CurrentSlot
  <2> HIDE DEF size
  <2> QED BY <1>1, <2>1, DivMul
<1>3. NextSlot = IF data + 2 * size > ctx.area_size THEN 0 ELSE cur + 1
  BY <1>2 DEF NextSlot
<1>4. data + 2 * size > ctx.area_size <=> cur = factor - 1
  <2> HIDE DEF size
  <2>1. (cur * size) + (2 * size) = (cur + 2) * size /\ cur + 2 \in Nat
    BY <1>1
  <2> DEFINE far == cur + 2
  <2>2. far \in Nat /\ far = cur + 2
    BY <1>1
  <2>3. data + 2 * size = far * size
    BY <1>1, <2>1
  <2> HIDE DEF far
  <2>4. far * size <= factor * size <=> far <= factor
    BY <1>1, <2>2, MultiplesOrder
  <2>5. far * size \in Int /\ factor * size \in Int
    BY <1>1, <2>2
  <2>6. far * size > factor * size <=> far > factor
    BY <1>1, <2>2, <2>4, <2>5
  <2> QED BY <1>1, <2>2, <2>3, <2>6
<1> QED BY <1>2, <1>3, <1>4

LEMMA InitIInv == ASSUME Init, WideUnits PROVE IInv
<1>1. Declared
  BY InitDeclared
<1>2. Slots(ctx) = factor /\ factor \in Nat
  BY <1>1, Sizes
<1>3. uses = [s \in 0..(factor - 1) |-> IF s = 0 THEN 0 ELSE 0]
  BY <1>2 DEF Init, Fresh
<1>4. err \in Errors /\ open \in BOOLEAN /\ data = 0
  BY DEF Init, Errors
<1> QED BY <1>1, <1>2, <1>3, <1>4 DEF IInv, Unwritten

LEMMA WrittenTurns ==
  ASSUME IInv, Formatted, uses[CurrentSlot] <= MaxUses, Written(NextSlot),
         UNCHANGED <<ctx, factor>>
  PROVE  /\ uses' \in [0..(factor - 1) -> Nat]
         /\ \E cur \in 0..(factor - 1), k \in 0..MaxUses : Turns(cur, k)'
<1>1. PICK cur \in 0..(factor - 1), k \in 0..MaxUses : Turns(cur, k)
  BY DEF IInv, Formatted, Unwritten
<1>2. factor \in Nat /\ factor >= 2 /\ MaxUses \in Nat
  BY Sizes, Constants DEF IInv
<1>3. /\ CurrentSlot = cur
      /\ NextSlot = IF cur = factor - 1 THEN 0 ELSE cur + 1
  BY <1>1, NextOf DEF IInv, Turns
<1>4. uses[cur] = k + 1
  BY <1>1, <1>2 DEF Turns
<1>5. /\ data' = NextSlot * SlotSize(ctx)'
      /\ uses' = [uses EXCEPT ![NextSlot] = @ + 1]
      /\ factor' = factor
  BY DEF Written, SlotBase, SlotSize, PagesInSlot, MetaSize, ItemSize
<1>6. NextSlot \in 0..(factor - 1)
  BY <1>2, <1>3
<1>7. uses \in [0..(factor - 1) -> Nat]
  BY DEF IInv
<1>8. uses' \in [0..(factor - 1) -> Nat]
  BY <1>5, <1>6, <1>7
<1>9. CASE cur = factor - 1
  <2>1. NextSlot = 0 /\ k + 1 \in 0..MaxUses
    BY <1>2, <1>3, <1>4, <1>9
  <2>2. Turns(0, k + 1)'
    BY <1>1, <1>2, <1>5, <1>7, <1>9, <2>1 DEF Turns
  <2> QED BY <1>2, <1>8, <2>1, <2>2
<1>10. CASE cur # factor - 1
  <2>1. NextSlot = cur + 1 /\ cur + 1 \in 0..(factor - 1)
    BY <1>2, <1>3, <1>10
  <2>2. Turns(cur + 1, k)'
    BY <1>1, <1>2, <1>5, <1>7, <2>1 DEF Turns
  <2> QED BY <1>8, <2>1, <2>2
<1> QED BY <1>9, <1>10

LEMMA RefusalErrors == ASSUME NEW i PROVE Refusal(i) \in Errors
BY DEF Refusal, Translate, Errors

LEMMA StepIInv == ASSUME IInv, [Next]_vars PROVE IInv'
<1>1. UNCHANGED <<ctx, factor>>
  BY DEF Next, Format, BasicWrite, Abort, MemsetWholeArea, vars
<1>2. Declared'
  BY <1>1 DEF IInv, Declared, SlotSize, PagesInSlot, MetaSize, ItemSize
<1>3. /\ factor \in Nat /\ factor >= 2 /\ MaxUses \in Nat
      /\ Slots(ctx) = factor
  BY Sizes, Constants DEF IInv
<1>4. UNCHANGED SlotSize(ctx)
  BY <1>1 DEF SlotSize, PagesInSlot, MetaSize, ItemSize
<1>5. ASSUME UNCHANGED <<data, uses>>, err' \in Errors, open' \in BOOLEAN
      PROVE  IInv'
  BY <1>1, <1>2, <1>4, <1>5 DEF IInv, Unwritten, Turns
<1>6. ASSUME Formatted, uses[CurrentSlot] <= MaxUses, Written(NextSlot),
             err' = "none", open' \in BOOLEAN
      PROVE  IInv'
  <2>1. /\ uses' \in [0..(factor - 1) -> Nat]
        /\ \E cur \in 0..(factor - 1), k \in 0..MaxUses : Turns(cur, k)'
    BY <1>1, <1>6, WrittenTurns
  <2> QED BY <1>1, <1>2, <1>6, <2>1 DEF IInv, Errors
<1>7. CASE Format
  <2>1. CASE ctx.write_size > WriteSizeLimit
    BY <1>5, <1>7, <2>1 DEF Format, Errors, IInv
  <2>2. CASE ~(ctx.write_size > WriteSizeLimit)
    <3>1. /\ data' = 0 /\ err' = "none" /\ open' \in BOOLEAN
          /\ uses' = [s \in 0..(factor - 1) |-> IF s = 0 THEN 1 ELSE 0]
      BY <1>3, <1>7, <2>2 DEF Format, Fresh, IInv
    <3>2. SlotSize(ctx) \in Nat
      BY Sizes DEF IInv
    <3>3. Turns(0, 0)'
      BY <1>1, <1>3, <1>4, <3>1, <3>2 DEF Turns
    <3>4. uses' \in [0..(factor - 1) -> Nat]
      BY <3>1
    <3>5. 0 \in 0..(factor - 1) /\ 0 \in 0..MaxUses
      BY <1>3
    <3> QED BY <1>1, <1>2, <3>1, <3>3, <3>4, <3>5 DEF IInv, Errors
  <2> QED BY <2>1, <2>2
<1>8. CASE BasicWrite
  <2>1. CASE NextSlot = CurrentSlot \/ open
    BY <1>5, <1>8, <2>1 DEF BasicWrite, Errors, IInv
  <2>2. CASE NextSlot # CurrentSlot /\ ~open
    BY <1>6, <1>8, <2>2 DEF BasicWrite, IInv
  <2> QED BY <2>1, <2>2
<1>9. CASE Abort
  BY <1>5, <1>9 DEF Abort, Errors
<1>10. CASE MemsetWholeArea
  <2>1. CASE open
    BY <1>5, <1>10, <2>1 DEF MemsetWholeArea, Errors
  <2>2. CASE ~open /\ MemsetWhole
    BY <1>6, <1>10, <2>2 DEF MemsetWholeArea, MemsetWhole, IInv
  <2>3. ASSUME NEW i \in 0..Pages, MemsetRefused(i) \/ MemsetOverwrites(i)
        PROVE  IInv'
    <3>1. UNCHANGED <<data, uses>> /\ open' = TRUE /\ err' \in Errors
      BY <2>3, RefusalErrors DEF MemsetRefused, MemsetOverwrites, MemsetFails, Errors
    <3> QED BY <1>5, <3>1
  <2> QED BY <1>10, <2>1, <2>2, <2>3 DEF MemsetWholeArea
<1>11. CASE UNCHANGED vars
  BY <1>5, <1>11 DEF vars, IInv
<1> QED BY <1>7, <1>8, <1>9, <1>10, <1>11 DEF Next

LEMMA Inductive == ASSUME WideUnits PROVE Spec => []IInv
<1>1. Init => IInv
  BY InitIInv
<1>2. IInv /\ [Next]_vars => IInv'
  BY StepIInv
<1> QED BY <1>1, <1>2, PTL DEF Spec
-----------------------------------------------------------------------------
(* What the invariant gives.                                               *)

LEMMA ShapeOfIInv ==
  ASSUME IInv PROVE TypeOK /\ SlotsFit /\ EvenUse /\ SlotsDeclared
<1>1. /\ factor \in Nat /\ factor >= 2 /\ MaxUses \in Nat
      /\ Slots(ctx) = factor /\ SlotSize(ctx) \in Nat
  BY Sizes, Constants DEF IInv
<1>2. DOMAIN uses = 0..(Slots(ctx) - 1) /\ DOMAIN uses = 0..(factor - 1)
  BY <1>1 DEF IInv
<1>3. SlotsFit /\ SlotsDeclared
  BY <1>2, DeclaredFits DEF IInv
<1>4. CASE Unwritten
  <2>1. data = SlotBase(ctx, 0) /\ 0 \in DOMAIN uses
    BY <1>1, <1>2, <1>4 DEF Unwritten, SlotBase
  <2>2. \A s \in DOMAIN uses : uses[s] = 0
    BY <1>2, <1>4 DEF Unwritten
  <2>3. TypeOK
    BY <1>1, <1>2, <2>1, <2>2 DEF TypeOK, IInv, Declared, Errors
  <2>4. EvenUse
    BY <2>2 DEF EvenUse
  <2> QED BY <1>3, <2>3, <2>4
<1>5. ASSUME NEW cur \in 0..(factor - 1), NEW k \in 0..MaxUses, Turns(cur, k)
      PROVE  TypeOK /\ EvenUse
  <2>1. data = SlotBase(ctx, cur) /\ cur \in DOMAIN uses
    BY <1>2, <1>5 DEF Turns, SlotBase
  <2>2. \A s \in DOMAIN uses : uses[s] \in k..(k + 1)
    BY <1>1, <1>2, <1>5 DEF Turns
  <2>3. TypeOK
    BY <1>1, <1>2, <2>1, <2>2 DEF TypeOK, IInv, Declared, Errors
  <2>4. EvenUse
    BY <1>1, <2>2 DEF EvenUse
  <2> QED BY <2>3, <2>4
<1> QED BY <1>3, <1>4, <1>5 DEF IInv

-----------------------------------------------------------------------------
(* LFTL_MEMSET_WHOLE_AREA.                                                 *)

(* The macro counted in units: the data has d of them, a page has e, and   *)
(* the current slot begins a units from the base of the area.              *)
Counted(a, d, e) ==
  /\ Pages * e <= d /\ d < Pages * e + e
  /\ DataUnits(ctx) = 0..(d - 1)
  /\ \A i \in 0..Pages :
       Span(i) = (a + i * e) ..
                   (a + i * e + (IF i < Pages THEN e ELSE d - Pages * e) - 1)
  /\ DataUnits(ctx) \subseteq TrackerUnits(ctx)
  /\ data = 0 => a = 0
  /\ data # 0 => d <= a

LEMMA MemsetCounted ==
  ASSUME Declared, NEW cur \in Nat, data = cur * SlotSize(ctx)
  PROVE  \E a \in Nat, d \in Nat \ {0}, e \in Nat \ {0} : Counted(a, d, e)
<1> DEFINE ws == ctx.write_size
           es == ctx.erase_size
           ds == ctx.data_size
           size == SlotSize(ctx)
           p == PagesInSlot(ctx)
<1>1. /\ ws \in Nat \ {0} /\ es \in Nat \ {0} /\ ds \in Nat \ {0}
      /\ size \in Nat \ {0} /\ size = p * es /\ p \in Nat
      /\ ds < size /\ es % ws = 0 /\ ds % ws = 0
  <2>1. ds + MetaSize(ctx) <= size /\ MetaSize(ctx) = 3 * ItemSize(ctx)
        /\ ItemSize(ctx) \in Nat \ {0}
    BY Sizes
  <2>2. /\ ws \in Nat \ {0} /\ es \in Nat \ {0} /\ ds \in Nat \ {0}
        /\ size \in Nat \ {0} /\ size = p * es /\ p \in Nat
    BY Sizes
  <2>3. es % ws = 0 /\ ds % ws = 0
    BY DEF Declared
  <2> HIDE DEF ws, es, ds, size, p
  <2> QED BY <2>1, <2>2, <2>3
<1>2. /\ \A i : Address(i) = data + i * es
      /\ \A i : Size(i) = IF i < Pages THEN es ELSE ds % es
      /\ \A i : Span(i) = (Address(i) \div ws) ..
                             (Address(i) \div ws + Size(i) \div ws - 1)
      /\ Pages = ds \div es
      /\ DataUnits(ctx) = 0..(ds \div ws - 1)
      /\ TrackerUnits(ctx) = 0..(8 * CeilDiv(CeilDiv(ds, ws), 8) - 1)
  BY DEF Address, Size, Span, Pages, DataUnits, TrackerUnits
<1>3. data = cur * size
  OBVIOUS
<1> DEFINE n == Pages
<1> HIDE DEF ws, es, ds, size, p, n
<1>4. PICK e \in Nat : es = e * ws
  BY <1>1, Exact
<1>5. PICK d \in Nat : ds = d * ws
  BY <1>1, Exact
<1>6. e # 0 /\ d # 0
  BY <1>1, <1>4, <1>5
<1>7. n \in Nat /\ ds % es \in 0..(es - 1) /\ ds = (es * n) + (ds % es)
  BY <1>1, <1>2, DivMod DEF n
<1> DEFINE rest == d - n * e
<1>8. /\ n * e <= d /\ d < n * e + e /\ rest \in Nat
      /\ ds % es = rest * ws
  <2> DEFINE r == ds % es
             m == n * e
  <2>1. m \in Nat /\ es * n = m * ws /\ (n + 1) * e = m + e
    BY <1>1, <1>4, <1>6, <1>7, SMT
  <2>2. r \in Nat /\ r < e * ws /\ d * ws = m * ws + r
    BY <1>1, <1>4, <1>5, <1>7, <2>1
  <2> HIDE DEF r, m
  <2>3. m <= d
    <3>1. m * ws <= d * ws
      BY <1>1, <2>1, <2>2
    <3> QED BY <1>1, <2>1, <3>1, MultiplesOrder
  <2>4. d < m + e
    <3> DEFINE k == m + e
    <3>1. k \in Nat /\ k * ws = m * ws + e * ws
      BY <1>1, <1>6, <2>1, SMT
    <3> HIDE DEF k
    <3>2. ~(k * ws <= d * ws)
      BY <1>1, <1>6, <2>1, <2>2, <3>1
    <3>3. ~(k <= d)
      BY <1>1, <3>1, <3>2, MultiplesOrder
    <3> QED BY <2>1, <3>1, <3>3 DEF k
  <2>5. (d - m) * ws = d * ws - m * ws /\ d - m \in Nat
    BY <1>1, <2>1, <2>3, SMT
  <2>6. r = (d - m) * ws
    BY <1>1, <2>1, <2>2, <2>5
  <2> QED BY <2>3, <2>4, <2>5, <2>6 DEF r, m
<1>9. PICK a \in Nat : data = a * ws
  <2>1. cur * (p * es) = (cur * p) * es /\ cur * p \in Nat
    BY <1>1, Regrouped
  <2> DEFINE g == cur * p
  <2>2. g \in Nat /\ data = g * (e * ws)
    BY <1>1, <1>3, <1>4, <2>1
  <2> HIDE DEF g
  <2>3. g * (e * ws) = (g * e) * ws /\ g * e \in Nat
    BY <1>1, <2>2, SMT
  <2> QED BY <2>2, <2>3, Zenon
<1>10. data = 0 => a = 0
  BY <1>1, <1>9
<1>11. data # 0 => d <= a
  <2> SUFFICES ASSUME data # 0 PROVE d <= a
    OBVIOUS
  <2>1. cur # 0
    BY <1>1, <1>3
  <2>2. size <= cur * size
    BY <1>1, <2>1, SMT
  <2>3. d * ws <= a * ws
    BY <1>1, <1>3, <1>5, <1>9, <2>2
  <2> QED BY <1>1, <2>3, MultiplesOrder
<1>12. DataUnits(ctx) = 0..(d - 1)
  BY <1>1, <1>2, <1>5, DivMul
<1>13. ASSUME NEW i \in 0..n
       PROVE  Span(i) = (a + i * e) ..
                          (a + i * e + (IF i < n THEN e ELSE rest) - 1)
  <2>1. i \in Nat
    BY <1>7
  <2>2. Address(i) = (a + i * e) * ws /\ a + i * e \in Nat
    <3>1. Address(i) = a * ws + i * (e * ws)
      BY <1>2, <1>4, <1>9
    <3> QED BY <1>1, <2>1, <3>1, SMT
  <2>3. Address(i) \div ws = a + i * e
    <3> DEFINE k == a + i * e
    <3> HIDE DEF k
    <3>1. k \in Nat /\ Address(i) = k * ws
      BY <2>2 DEF k
    <3>2. Address(i) \div ws = k
      BY <1>1, <3>1, DivMul
    <3> QED BY <3>2 DEF k
  <2>4. Size(i) = (IF i < n THEN e ELSE rest) * ws
    BY <1>2, <1>4, <1>8 DEF n
  <2>5. Size(i) \div ws = IF i < n THEN e ELSE rest
    <3> DEFINE k == IF i < n THEN e ELSE rest
    <3>1. k \in Nat
      BY <1>8
    <3> HIDE DEF k
    <3>2. (k * ws) \div ws = k
      BY <1>1, <3>1, DivMul
    <3> QED BY <2>4, <3>2 DEF k
  <2> QED BY <1>2, <2>3, <2>5
<1>14. DataUnits(ctx) \subseteq TrackerUnits(ctx)
  <2> DEFINE c == CeilDiv(ds, ws)
             t == CeilDiv(c, 8)
  <2>1. c \in Nat \ {0} /\ ds <= c * ws
    BY <1>1, Ceiling
  <2> HIDE DEF c
  <2>2. t \in Nat /\ c <= t * 8
    BY <2>1, Ceiling
  <2>3. d <= c
    BY <1>1, <1>5, <2>1, MultiplesOrder
  <2>4. TrackerUnits(ctx) = 0..(8 * t - 1)
    BY <1>2 DEF c
  <2> HIDE DEF t
  <2> QED BY <1>12, <2>1, <2>2, <2>3, <2>4
<1> QED BY <1>6, <1>8, <1>10, <1>11, <1>12, <1>13, <1>14 DEF Counted, n

(* The pages and what remains are the whole data.                          *)
LEMMA Whole ==
  ASSUME NEW n \in Nat, NEW d \in Nat, NEW e \in Nat \ {0},
         n * e <= d, d < n * e + e, NEW u \in Nat
  PROVE  u < d <=> \E i \in 0..n :
                     /\ i * e <= u
                     /\ u < i * e + (IF i < n THEN e ELSE d - n * e)
<1>1. n * e \in Nat
  OBVIOUS
<1>2. ASSUME u < d
      PROVE  \E i \in 0..n : /\ i * e <= u
                             /\ u < i * e + (IF i < n THEN e ELSE d - n * e)
  <2>1. CASE n * e <= u
    <3>1. u < n * e + (d - n * e) /\ ~(n < n) /\ n \in 0..n
      BY <1>1, <1>2
    <3> QED BY <2>1, <3>1
  <2>2. CASE u < n * e
    <3> DEFINE i == u \div e
               x == i * e
    <3>1. i \in Nat /\ x \in Nat /\ x <= u /\ u < x + e
      <4>1. i \in Nat /\ u % e \in 0..(e - 1) /\ u = (e * i) + (u % e)
        BY DivMod
      <4> DEFINE r == u % e
      <4>2. e * i = x /\ x \in Nat /\ r \in 0..(e - 1) /\ u = (e * i) + r
        <5> HIDE DEF i
        <5> QED BY <4>1, MultiplesOrder
      <4> HIDE DEF i, r, x
      <4> QED BY <4>1, <4>2
    <3>2. i < n
      <4>1. ~(n * e <= i * e)
        BY <1>1, <2>2, <3>1
      <4> HIDE DEF i, x
      <4>2. ~(n <= i)
        BY <3>1, <4>1, MultiplesOrder
      <4> QED BY <3>1, <4>2
    <3>3. i \in 0..n
      BY <3>1, <3>2
    <3> HIDE DEF i
    <3> QED BY <3>1, <3>2, <3>3
  <2> QED BY <1>1, <2>1, <2>2
<1>3. ASSUME NEW i \in 0..n, u < i * e + (IF i < n THEN e ELSE d - n * e)
      PROVE  u < d
  <2>1. CASE i < n
    <3> DEFINE j == i + 1
    <3>1. j \in Nat /\ j <= n /\ i \in Nat /\ (i + 1) * e = (i * e) + e
      BY <2>1, MultiplesOrder
    <3> HIDE DEF j
    <3>2. j * e <= n * e
      BY <3>1, MultiplesOrder
    <3>3. (i * e) + e <= n * e /\ i * e \in Nat
      BY <3>1, <3>2, MultiplesOrder DEF j
    <3> QED BY <1>1, <1>3, <2>1, <3>3
  <2>2. CASE ~(i < n)
    <3>1. i = n
      BY <2>2
    <3> QED BY <1>1, <1>3, <2>2, <3>1
  <2> QED BY <2>1, <2>2
<1> QED BY <1>2, <1>3

(* From the first slot every write is in range.                            *)
LEMMA FirstSlotAccepted ==
  ASSUME IInv, data = 0, NEW i \in 0..Pages
  PROVE  Refusal(i) = "none"
<1> DEFINE ds == ctx.data_size
           es == ctx.erase_size
           loops == ds \div es
           rest == ds % es
<1>1. /\ ds \in Nat \ {0} /\ es \in Nat \ {0} /\ factor \in Nat /\ factor >= 2
      /\ SlotSize(ctx) \in Nat
  BY Sizes DEF IInv
<1>2. /\ loops \in Nat /\ rest \in 0..(es - 1) /\ ds = (es * loops) + rest
  <2> HIDE DEF ds, es
  <2> QED BY <1>1, DivMod
<1>3. i \in Nat /\ i <= loops
  BY <1>2 DEF Pages
<1>4. NextSlot # CurrentSlot
  <2>1. data = 0 * SlotSize(ctx) /\ 0 \in 0..(factor - 1)
    BY <1>1
  <2>2. CurrentSlot = 0 /\ NextSlot = IF 0 = factor - 1 THEN 0 ELSE 0 + 1
    BY <2>1, NextOf DEF IInv
  <2> QED BY <1>1, <2>2
<1>5. Address(i) = i * es /\ Size(i) = IF i < loops THEN es ELSE rest
  <2>1. i * es \in Nat
    <3> HIDE DEF es, loops
    <3> QED BY <1>1, <1>3
  <2> QED BY <2>1 DEF Address, Size, Pages
<1>6. Translate(Address(i), Size(i)) = "none"
  <2> HIDE DEF loops, rest, es
  <2>1. i * es \in Nat /\ i * es <= loops * es /\ loops * es = es * loops
    BY <1>1, <1>2, <1>3, MultiplesOrder
  <2>2. i * es \in 0..ds
    BY <1>1, <1>2, <2>1
  <2>3. CASE i < loops
    <3>1. (i * es) + es <= loops * es
      <4> DEFINE j == i + 1
      <4>1. j \in Nat /\ j <= loops /\ (i + 1) * es = (i * es) + es
        BY <1>1, <1>2, <1>3, <2>3, MultiplesOrder
      <4> HIDE DEF j
      <4>2. j * es <= loops * es
        BY <1>1, <1>2, <4>1, MultiplesOrder
      <4> QED BY <4>1, <4>2 DEF j
    <3>2. (i * es) + es <= ds
      BY <1>1, <1>2, <2>1, <3>1
    <3> QED BY <1>1, <1>5, <2>1, <2>2, <2>3, <3>2 DEF Translate, IsInData
  <2>4. CASE ~(i < loops)
    <3>1. i = loops
      BY <1>2, <1>3, <2>4
    <3>2. ~((i * es) + rest > ds)
      BY <1>1, <1>2, <2>1, <3>1
    <3> QED BY <1>1, <1>2, <1>5, <2>1, <2>2, <2>4, <3>2 DEF Translate, IsInData
  <2> QED BY <2>3, <2>4
<1> QED BY <1>4, <1>6 DEF Refusal

(* From another slot the first write is not.                               *)
LEMMA OtherSlotsRefused ==
  ASSUME IInv, data # 0 PROVE Refusal(0) # "none"
<1>1. PICK cur \in 0..(factor - 1) : data = cur * SlotSize(ctx)
  BY DEF IInv, Unwritten, Turns
<1> DEFINE size == SlotSize(ctx)
<1>2. /\ factor \in Nat /\ size \in Nat \ {0} /\ ctx.data_size \in Nat
      /\ ctx.erase_size \in Nat /\ ctx.data_size < size /\ data = cur * size
  <2>1. ctx.data_size + MetaSize(ctx) <= size /\ MetaSize(ctx) = 3 * ItemSize(ctx)
        /\ ItemSize(ctx) \in Nat \ {0}
    BY Sizes DEF IInv
  <2>2. /\ factor \in Nat /\ size \in Nat \ {0} /\ ctx.data_size \in Nat
        /\ ctx.erase_size \in Nat
    BY Sizes DEF IInv
  <2>3. ctx.data_size < size
    <3> HIDE DEF size
    <3> QED BY <2>1, <2>2
  <2> QED BY <1>1, <2>2, <2>3
<1> HIDE DEF size
<1>3. cur \in Nat /\ cur # 0
  BY <1>2
<1>4. data \in Nat /\ data >= size
  BY <1>2, <1>3, SMT
<1>5. Address(0) = data
  BY <1>2, <1>4 DEF Address
<1>6. ~IsInData(Address(0))
  BY <1>2, <1>4, <1>5 DEF IsInData
<1> QED BY <1>6 DEF Refusal, Translate

LEMMA MemsetOutcome ==
  ASSUME IInv, MemsetWholeArea, ~open
  PROVE  IF data = 0
           THEN err' = "none" /\ ~open' /\ Marks = DataUnits(ctx)
           ELSE /\ err' # "none" /\ open' /\ data' = data
                /\ Marks \cap DataUnits(ctx) = {}
<1>1. PICK cur \in Nat : data = cur * SlotSize(ctx)
  <2>1. SlotSize(ctx) \in Nat /\ factor \in Nat
    BY Sizes DEF IInv
  <2>2. CASE Unwritten
    BY <2>1, <2>2 DEF Unwritten
  <2>3. CASE ~Unwritten
    BY <2>1, <2>3 DEF IInv, Turns
  <2> QED BY <2>2, <2>3
<1>2. PICK a \in Nat, d \in Nat \ {0}, e \in Nat \ {0} : Counted(a, d, e)
  BY <1>1, MemsetCounted DEF IInv
<1>3. Pages \in Nat
  <2>1. ctx.data_size \in Nat /\ ctx.erase_size \in Nat \ {0}
    BY Sizes DEF IInv
  <2> QED BY <2>1, DivMod DEF Pages
<1> DEFINE Length(i) == IF i < Pages THEN e ELSE d - Pages * e
<1>4. ASSUME NEW i \in 0..Pages, NEW u
      PROVE  u \in Span(i) <=> /\ u \in Nat /\ a + i * e <= u
                              /\ u < a + i * e + Length(i)
  <2>1. Span(i) = (a + i * e) .. (a + i * e + Length(i) - 1)
    BY <1>2 DEF Counted
  <2>2. i * e \in Nat /\ Length(i) \in Int
    <3>1. Pages * e \in Int
      BY <1>3
    <3> QED BY <1>3, <3>1
  <2> HIDE DEF Length
  <2> QED BY <2>1, <2>2
<1>5. ASSUME data = 0
      PROVE  err' = "none" /\ ~open' /\ Marks = DataUnits(ctx)
  <2>1. \A i \in 0..Pages : Refusal(i) = "none"
    BY <1>5, FirstSlotAccepted
  <2>2. \A i \in 0..Pages : Reached(i)
    <3>1. \A i \in 0..Pages : \A j \in 0..(i - 1) : j \in 0..Pages
      BY <1>3
    <3> QED BY <2>1, <3>1 DEF Reached
  <2>3. ASSUME NEW u PROVE u \in Marks <=> u \in DataUnits(ctx)
    <3>1. u \in Marks <=> \E i \in 0..Pages : u \in Span(i)
      BY <2>2 DEF Marks
    <3>2. u \in DataUnits(ctx) <=> u \in Nat /\ u < d
      BY <1>2 DEF Counted
    <3>3. a = 0 /\ Pages * e <= d /\ d < Pages * e + e
      BY <1>2, <1>5 DEF Counted
    <3>4. ASSUME NEW i \in 0..Pages
          PROVE  u \in Span(i) <=> u \in Nat /\ i * e <= u /\ u < i * e + Length(i)
      <4>1. a + i * e = i * e
        BY <1>3, <3>3
      <4> QED BY <1>4, <4>1
    <3>5. u \in Nat => (u < d <=> \E i \in 0..Pages :
                                    i * e <= u /\ u < i * e + Length(i))
      <4> DEFINE n == Pages
      <4>1. n \in Nat /\ n * e <= d /\ d < n * e + e
        BY <1>3, <3>3
      <4> HIDE DEF n
      <4>2. \A v \in Nat :
              v < d <=> \E i \in 0..n :
                          /\ i * e <= v
                          /\ v < i * e + (IF i < n THEN e ELSE d - n * e)
        BY <4>1, Whole
      <4> QED BY <4>2 DEF n
    <3> QED BY <3>1, <3>2, <3>4, <3>5
  <2>4. \A i \in 0..Pages : Span(i) \subseteq TrackerUnits(ctx)
    <3>1. \A i \in 0..Pages : Span(i) \subseteq Marks
      BY <2>2 DEF Marks
    <3> QED BY <1>2, <2>3, <3>1 DEF Counted
  <2>5. MemsetWhole
    BY <2>1, <2>4 DEF MemsetWholeArea, MemsetRefused, MemsetOverwrites
  <2> QED BY <2>3, <2>5 DEF MemsetWhole
<1>6. ASSUME data # 0
      PROVE  /\ err' # "none" /\ open' /\ data' = data
             /\ Marks \cap DataUnits(ctx) = {}
  <2>1. Refusal(0) # "none" /\ 0 \in 0..Pages
    BY <1>3, <1>6, OtherSlotsRefused
  <2>2. ~MemsetWhole
    <3>1. 0 \in 0..((Pages + 1) - 1)
      BY <1>3
    <3> QED BY <2>1, <3>1 DEF MemsetWhole, Reached
  <2>3. PICK i \in 0..Pages : MemsetRefused(i) \/ MemsetOverwrites(i)
    BY <2>2 DEF MemsetWholeArea
  <2>4. err' # "none" /\ open' /\ data' = data
    BY <2>3 DEF MemsetRefused, MemsetOverwrites, MemsetFails
  <2>5. ASSUME NEW u \in Marks PROVE u \notin DataUnits(ctx)
    <3>1. PICK k \in 0..Pages : u \in Span(k)
      BY DEF Marks
    <3>2. u \in Nat /\ a + k * e <= u /\ k * e \in Nat
      BY <1>3, <1>4, <3>1
    <3>3. d <= a /\ DataUnits(ctx) = 0..(d - 1)
      BY <1>2, <1>6 DEF Counted
    <3> QED BY <3>2, <3>3
  <2> QED BY <2>4, <2>5
<1> QED BY <1>5, <1>6

-----------------------------------------------------------------------------
(* Theorems.                                                               *)

(* ctx->data stays the base of a slot that next_slot can return, for all   *)
(* the sizes a device may have.                                            *)
THEOREM SlotsTyped == ASSUME WideUnits PROVE Spec => []TypeOK
<1>1. IInv => TypeOK
  BY ShapeOfIInv
<1> QED BY <1>1, Inductive, PTL

(* Slots and metadata lie where the code looks for them, whole pages apart *)
(* and in the area, for all the sizes a device may have.                   *)
THEOREM AreaFits == ASSUME WideUnits PROVE Spec => []SlotsFit
<1>1. IInv => SlotsFit
  BY ShapeOfIInv
<1> QED BY <1>1, Inductive, PTL

(* No slot is worn out before the others: next_slot uses them in turn.     *)
THEOREM WearIsEven == ASSUME WideUnits PROVE Spec => []EvenUse
<1>1. IInv => EvenUse
  BY ShapeOfIInv
<1> QED BY <1>1, Inductive, PTL

(* LFTL_AREA reserves as many slots as the wear leveling factor, for all   *)
(* write units that are not smaller than a word.                           *)
THEOREM FactorReserved == ASSUME WideUnits PROVE Spec => []SlotsDeclared
<1>1. IInv => SlotsDeclared
  BY ShapeOfIInv
<1> QED BY <1>1, Inductive, PTL

(* LFTL_MEMSET_WHOLE_AREA is right in the first slot and only there,       *)
(* whatever the sizes: there it marks and writes exactly the data; from    *)
(* any other slot it fails with the tracker left set, having marked no     *)
(* unit of the data but others, maybe in RAM beyond the tracker.           *)
THEOREM MemsetFromFirstSlot ==
  ASSUME WideUnits PROVE Spec => MemsetFirstSlotOnly
<1>1. IInv /\ [Next]_vars =>
        [MemsetWholeArea /\ ~open =>
           IF data = 0
             THEN err' = "none" /\ ~open' /\ Marks = DataUnits(ctx)
             ELSE /\ err' # "none" /\ open' /\ data' = data
                  /\ Marks \cap DataUnits(ctx) = {}]_vars
  BY MemsetOutcome
<1> QED BY <1>1, Inductive, PTL DEF Spec, MemsetFirstSlotOnly
=============================================================================
