---------------------------- MODULE LftlGeometry ----------------------------
(***************************************************************************)
(* Where the slots of an LFTL area are and which one comes next: the size  *)
(* and alignment arithmetic of ftl.c, for areas declared with the LFTL_AREA*)
(* macro or by hand, and the macro that writes a whole area.               *)
(*                                                                         *)
(* Addresses are offsets in the area, whose base is aligned on a page and  *)
(* which ends at least one slot below the end of the address space. An     *)
(* update or a format is one step: LftlArea has their flash operations.    *)
(* The only transactions are those of LFTL_MEMSET_WHOLE_AREA, whose tracker*)
(* is an array on its stack: the RAM beside it has no state here.          *)
(***************************************************************************)
EXTENDS Integers

CONSTANTS
  WriteSizes,     \* bounds: the write units,
  EraseSizes,     \* pages,
  DataSizes,      \* sizes of the data and
  Factors,        \* wear leveling factors of the areas
  MaxUses,        \* bound: how often a slot is written after a format
  MacroWriteSizes \* bound: the write units of those LFTL_AREA declares

MetaItems == 3   \* LFTL_META_N_ITEMS
WordSize == 4    \* sizeof(uint32_t)
WriteSizeLimit == 128   \* LFTL_WU_MAX_SIZE
BufferSize == MetaItems * 4 * WordSize   \* meta_items_worst_case_t

ASSUME SizesAssumption ==
  /\ WriteSizes \subseteq Nat \ {0}
  /\ \A ws \in WriteSizes : ws < WordSize => WordSize % ws = 0
  /\ EraseSizes \subseteq Nat \ {0}
  /\ DataSizes \subseteq Nat \ {0}
  /\ Factors \subseteq Nat \ {0, 1}
  /\ MacroWriteSizes \subseteq WriteSizes
  /\ MaxUses \in Nat

VARIABLES
  ctx,     \* the sizes in lftl_ctx_t and its nvm_props
  factor,  \* the wear leveling factor declared
  data,    \* ctx->data
  err,     \* what the last call passed to error_handler, or "none"
  open,    \* ctx->transaction_tracker is set
  uses     \* history: how often each slot was written since the last format

vars == <<ctx, factor, data, err, open, uses>>

-----------------------------------------------------------------------------
(* The size functions.                                                     *)

CeilDiv(n, d) == (n + d - 1) \div d

ItemSize(c) == IF c.write_size > WordSize THEN c.write_size ELSE WordSize

(* Mutant: as LFTL_AREA counts it.                                         *)
MetaSizeUnits(c) == MetaItems * c.write_size

(* meta_phy_size                                                           *)
MetaSize(c) == MetaItems * ItemSize(c)

(* n_pages_in_slot                                                         *)
PagesInSlot(c) == CeilDiv(c.data_size + MetaSize(c), c.erase_size)
SlotSize(c) == PagesInSlot(c) * c.erase_size

(* n_slots                                                                 *)
Slots(c) == c.area_size \div SlotSize(c)
SlotBase(c, slot) == slot * SlotSize(c)
MetaOffset(c) == SlotSize(c) - MetaSize(c)

(* Mutant: the data only.                                                  *)
MacroPagesData(write_size, erase_size, data_size, f) ==
  CeilDiv(data_size, erase_size) * f

(* The area LFTL_AREA reserves.                                            *)
MacroPages(write_size, erase_size, data_size, f) ==
  CeilDiv(data_size + MetaItems * write_size, erase_size) * f

DataUnits(c) == 0..(c.data_size \div c.write_size - 1)

(* LFTL_TRANSACTION_TRACKER_SIZE: the units the tracker has a bit for.     *)
TrackerUnits(c) ==
  0..(8 * CeilDiv(CeilDiv(c.data_size, c.write_size), 8) - 1)

CurrentSlot == data \div SlotSize(ctx)

(* Mutant: one slot too far.                                               *)
NextSlotBeyond ==
  IF data + SlotSize(ctx) > ctx.area_size THEN 0 ELSE CurrentSlot + 1

(* Mutant: the last slot is never used.                                    *)
NextSlotStrict ==
  IF data + 2 * SlotSize(ctx) >= ctx.area_size THEN 0 ELSE CurrentSlot + 1

(* next_slot                                                               *)
NextSlot ==
  IF data + 2 * SlotSize(ctx) > ctx.area_size THEN 0 ELSE CurrentSlot + 1

-----------------------------------------------------------------------------
(* Operations.                                                             *)

(* How often each slot was written, after f formats (none or one).         *)
Fresh(c, f) == [s \in 0..(Slots(c) - 1) |-> IF s = 0 THEN f ELSE 0]

Context(ws, es, ds, area_size) ==
  [write_size |-> ws, erase_size |-> es, data_size |-> ds,
   area_size |-> area_size]

(* Declared with LFTL_AREA, or by hand as a multiple of the slot size.     *)
Init ==
  /\ factor \in Factors
  /\ \E ws \in WriteSizes, es \in EraseSizes, ds \in DataSizes :
       /\ es % ws = 0 /\ ds % ws = 0
       /\ \/ ws \in MacroWriteSizes
             /\ ctx = Context(ws, es, ds, MacroPages(ws, es, ds, factor) * es)
          \/ ctx = Context(ws, es, ds,
                           SlotSize(Context(ws, es, ds, 0)) * factor)
  /\ data = 0
  /\ err = "none" /\ open = FALSE
  /\ uses = Fresh(ctx, 0)

Formatted == \E s \in DOMAIN uses : uses[s] > 0

Written(slot) ==
  /\ data' = SlotBase(ctx, slot)
  /\ uses' = [uses EXCEPT ![slot] = @ + 1]

(* lftl_format                                                             *)
Format ==
  /\ IF ctx.write_size > WriteSizeLimit
       THEN err' = "WU_SIZE_TOO_LARGE" /\ UNCHANGED <<data, uses>>
       ELSE err' = "none" /\ data' = 0 /\ uses' = Fresh(ctx, 1)
  /\ UNCHANGED <<ctx, factor, open>>

(* Which slot write_core writes, and its last checks.                      *)
BasicWrite ==
  /\ Formatted /\ uses[CurrentSlot] <= MaxUses
  /\ IF NextSlot = CurrentSlot
       THEN err' = "INTERNAL_ERROR" /\ UNCHANGED <<data, uses>>
     ELSE IF open
       THEN err' = "TRANSACTION_ONGOING" /\ UNCHANGED <<data, uses>>
     ELSE err' = "none" /\ Written(NextSlot)
  /\ UNCHANGED <<ctx, factor, open>>

(* lftl_transaction_abort                                                  *)
Abort ==
  /\ open' = FALSE
  /\ err' = "none"
  /\ UNCHANGED <<ctx, factor, data, uses>>

(* is_in_range, for the logical addresses of the data.                     *)
IsInData(addr) == addr \in 0..ctx.data_size

(* Mutant: the address is taken for a physical one.                        *)
TranslatePhysical(addr, size) ==
  IF ~IsInData(addr - data) THEN "FIRST_NOT_IN_DATA"
  ELSE IF addr - data + size > ctx.data_size THEN "LAST_NOT_IN_DATA"
  ELSE "none"

(* What translate_addr raises.                                             *)
Translate(addr, size) ==
  IF ~IsInData(addr) THEN "FIRST_NOT_IN_DATA"
  ELSE IF addr + size > ctx.data_size THEN "LAST_NOT_IN_DATA"
  ELSE "none"

(* LFTL_MEMSET_WHOLE_AREA writes the pages of the data and what remains,   *)
(* maybe no byte, beginning at area.data: the i-th address, size and the   *)
(* units lftl_transaction_write marks, before it looks at the range.       *)
Pages == ctx.data_size \div ctx.erase_size
Address(i) == data + i * ctx.erase_size
Size(i) == IF i < Pages THEN ctx.erase_size ELSE ctx.data_size % ctx.erase_size
Span(i) ==
  (Address(i) \div ctx.write_size) ..
    (Address(i) \div ctx.write_size + Size(i) \div ctx.write_size - 1)

(* What write_core raises.                                                 *)
Refusal(i) ==
  IF Translate(Address(i), Size(i)) # "none" THEN Translate(Address(i), Size(i))
  ELSE IF NextSlot = CurrentSlot THEN "INTERNAL_ERROR" ELSE "none"

Reached(i) == \A j \in 0..(i - 1) : Refusal(j) = "none"

(* The units it marks if no bit is found set.                              *)
Marks == UNION {Span(i) : i \in {j \in 0..Pages : Reached(j)}}

MemsetWhole ==
  /\ Reached(Pages + 1)
  /\ err' = "none"
  /\ Written(NextSlot)
  /\ UNCHANGED open

(* The tracker stays set when an error is raised, on a stack that is left. *)
MemsetFails(error) ==
  /\ err' = error
  /\ open' = TRUE
  /\ UNCHANGED <<data, uses>>

MemsetRefused(i) ==
  /\ Reached(i) /\ Refusal(i) # "none"
  /\ MemsetFails(Refusal(i))

(* A unit has no bit in the tracker. The RAM beside it may have the bit set*)
(* and lftl_transaction_write takes the unit for marked; otherwise it sets *)
(* the bit there and goes on.                                              *)
MemsetOverwrites(i) ==
  /\ Reached(i) /\ ~(Span(i) \subseteq TrackerUnits(ctx))
  /\ MemsetFails("TRANSACTION_OVERWRITE")

(* In an area that was searched.                                           *)
MemsetWholeArea ==
  /\ Formatted /\ uses[CurrentSlot] <= MaxUses
  /\ IF open
       THEN err' = "TRANSACTION_ONGOING" /\ UNCHANGED <<data, open, uses>>
       ELSE \/ MemsetWhole
            \/ \E i \in 0..Pages : MemsetRefused(i) \/ MemsetOverwrites(i)
  /\ UNCHANGED <<ctx, factor>>

Next == Format \/ BasicWrite \/ Abort \/ MemsetWholeArea

Spec == Init /\ [][Next]_vars

-----------------------------------------------------------------------------
(* Properties.                                                             *)

(* ctx->data is the base of a slot of the area.                            *)
TypeOK ==
  /\ factor \in Factors
  /\ DOMAIN uses = 0..(Slots(ctx) - 1)
  /\ \A s \in DOMAIN uses : uses[s] \in 0..(MaxUses + 1)
  /\ err \in {"none", "INTERNAL_ERROR", "WU_SIZE_TOO_LARGE",
              "FIRST_NOT_IN_DATA", "LAST_NOT_IN_DATA",
              "TRANSACTION_ONGOING", "TRANSACTION_OVERWRITE"}
  /\ open \in BOOLEAN
  /\ data \in {SlotBase(ctx, s) : s \in DOMAIN uses}

(* Every slot lies in the area on whole pages, holds the data and after it *)
(* the metadata, whose items are whole write units.                        *)
SlotsFit ==
  /\ SlotBase(ctx, Slots(ctx)) <= ctx.area_size
  /\ \A s \in DOMAIN uses :
       /\ SlotBase(ctx, s) % ctx.erase_size = 0
       /\ (SlotBase(ctx, s) + MetaOffset(ctx)) % ctx.write_size = 0
  /\ ctx.data_size <= MetaOffset(ctx)
  /\ MetaOffset(ctx) + MetaItems * ItemSize(ctx) <= SlotSize(ctx)
  /\ ItemSize(ctx) % ctx.write_size = 0

(* Wear leveling: no slot is written twice more often than another one. (A *)
(* transaction that is aborted erases the next slot and does not count.)   *)
EvenUse == \A s, t \in DOMAIN uses : uses[s] <= uses[t] + 1

(* The endurance of the flash is multiplied by the factor: an area has as  *)
(* many slots as were declared.                                            *)
SlotsDeclared == Formatted => Slots(ctx) >= factor

(* LFTL_MEMSET_WHOLE_AREA gives the physical address of the current slot   *)
(* where a logical one is due. While the data is in the first slot the two *)
(* are the same: it marks every unit of the data and writes it. From any   *)
(* other slot it fails, with the data as it was, and leaves a transaction  *)
(* open; of the units it marks before, in the tracker or in the RAM beside *)
(* it, none belongs to the data.                                           *)
MemsetFirstSlotOnly ==
  [][MemsetWholeArea /\ ~open =>
       IF data = 0
         THEN err' = "none" /\ ~open' /\ Marks = DataUnits(ctx)
         ELSE /\ err' # "none" /\ open' /\ data' = data
              /\ Marks \cap DataUnits(ctx) = {}]_vars

(* The metadata of an area that could be formatted fits in the buffers     *)
(* through which write_meta_core and get_slot_meta pass it.                *)
MetaBuffered == Formatted => MetaSize(ctx) <= BufferSize
=============================================================================
