---------------------------- MODULE LftlRegistry ----------------------------
(***************************************************************************)
(* The areas that were registered, kept as a ring through ctx->next, and   *)
(* the lookups that decide how an address is accessed: as data of an area, *)
(* as flash outside of the areas, or as memory.                            *)
(*                                                                         *)
(* One step per call of lftl_init_lib and lftl_register_area, and per      *)
(* context a lookup visits: a ring that was broken may have no end.        *)
(***************************************************************************)
EXTENDS Naturals, Sequences

CONSTANTS
  Ctx,      \* the contexts of the application
  Invalid,  \* LFTL_INVALID_POINTER
  Addr,     \* the addresses
  Props,    \* the lftl_nvm_props_t
  NvmProps, \* ctx->nvm_props
  NvmRange, \* the base and size of each lftl_nvm_props_t
  DataRange \* ctx->area and ctx->data_size

ASSUME LayoutAssumption ==
  /\ Invalid \notin Ctx
  /\ Addr \subseteq Nat
  /\ NvmProps \in [Ctx -> Props]
  /\ NvmRange \in [Props -> Nat \X Nat]
  /\ DataRange \in [Ctx -> Nat \X Nat]

Within(addr, range) == addr >= range[1] /\ addr < range[1] + range[2]
Follows(addr, range) == addr = range[1] + range[2]

(* is_in_range, which takes the address after the range for one in it.     *)
IsInRange(addr, range) == addr \in range[1]..(range[1] + range[2])
IsInData(c, addr) == IsInRange(addr, DataRange[c])
IsInNvm(c, addr) == IsInRange(addr, NvmRange[NvmProps[c]])

(* The data of an area is followed by its metadata, in the same slot: the  *)
(* data of two areas do not even touch. Neither do two flashes.            *)
ASSUME AreasApart ==
  \A c, d \in Ctx, addr \in Addr :
    Within(addr, DataRange[c]) /\ IsInData(d, addr) => c = d
ASSUME FlashesApart ==
  \A c, d \in Ctx, addr \in Addr :
    Within(addr, NvmRange[NvmProps[c]]) /\ IsInNvm(d, addr) =>
      NvmProps[c] = NvmProps[d]

VARIABLES
  next,              \* ctx->next
  first_area, last_area,
  has_several_nvms,
  walk,              \* the lookup being made, or Invalid
  out,               \* the last lookup and its result, or Invalid
  registered         \* history: the contexts, in the order of registration

vars == <<next, first_area, last_area, has_several_nvms, walk, out, registered>>

Ops == {"get_ctx", "memread"}
Routes == {"lftl_read", "nvm_read", "memcpy", "none"}
Registered == {registered[i] : i \in DOMAIN registered}

-----------------------------------------------------------------------------
Init ==
  /\ next = [c \in Ctx |-> Invalid]
  /\ first_area = Invalid /\ last_area = Invalid
  /\ has_several_nvms = FALSE
  /\ walk = Invalid /\ out = Invalid
  /\ registered = <<>>

(* Mutant: one of the globals is forgotten.                                *)
InitLibKeepsSeveral ==
  /\ walk = Invalid
  /\ UNCHANGED has_several_nvms
  /\ first_area' = Invalid /\ last_area' = Invalid
  /\ registered' = <<>>
  /\ out' = Invalid
  /\ UNCHANGED <<next, walk>>

(* lftl_init_lib; the contexts keep their next.                            *)
InitLib ==
  /\ walk = Invalid
  /\ has_several_nvms' = FALSE
  /\ first_area' = Invalid /\ last_area' = Invalid
  /\ registered' = <<>>
  /\ out' = Invalid
  /\ UNCHANGED <<next, walk>>

(* Mutant: the ring is not closed.                                         *)
RegisterOpen(c) ==
  /\ walk = Invalid
  /\ c \notin Registered
  /\ IF first_area = Invalid
       THEN /\ first_area' = c /\ UNCHANGED has_several_nvms /\ UNCHANGED next
       ELSE /\ next' = [next EXCEPT ![last_area] = c]
            /\ has_several_nvms' =
                 (has_several_nvms \/ NvmProps[c] # NvmProps[first_area])
            /\ UNCHANGED first_area
  /\ last_area' = c
  /\ registered' = Append(registered, c)
  /\ out' = Invalid
  /\ UNCHANGED walk

(* Mutant: the last comparison decides.                                    *)
RegisterLastNvm(c) ==
  /\ walk = Invalid
  /\ c \notin Registered
  /\ IF first_area = Invalid
       THEN /\ first_area' = c /\ UNCHANGED has_several_nvms
            /\ next' = [next EXCEPT ![c] = c]
       ELSE /\ next' = [next EXCEPT ![last_area] = c, ![c] = first_area]
            /\ has_several_nvms' = (NvmProps[c] # NvmProps[first_area])
            /\ UNCHANGED first_area
  /\ last_area' = c
  /\ registered' = Append(registered, c)
  /\ out' = Invalid
  /\ UNCHANGED walk

(* lftl_register_area, called once for each area after lftl_init_lib.      *)
Register(c) ==
  /\ walk = Invalid
  /\ c \notin Registered
  /\ IF first_area = Invalid
       THEN /\ first_area' = c /\ UNCHANGED has_several_nvms
            /\ next' = [next EXCEPT ![c] = c]
       ELSE /\ next' = [next EXCEPT ![last_area] = c, ![c] = first_area]
            /\ has_several_nvms' =
                 (has_several_nvms \/ NvmProps[c] # NvmProps[first_area])
            /\ UNCHANGED first_area
  /\ last_area' = c
  /\ registered' = Append(registered, c)
  /\ out' = Invalid
  /\ UNCHANGED walk

(* lftl_get_ctx and is_in_any_nvm, once an area is registered. A lookup    *)
(* starts with the data of the first area.                                 *)
Lookup(op, addr) ==
  /\ walk = Invalid
  /\ first_area # Invalid
  /\ walk' = [op |-> op, addr |-> addr, phase |-> "data", ctx |-> first_area]
  /\ out' = Invalid
  /\ UNCHANGED <<next, first_area, last_area, has_several_nvms, registered>>

Result(ctx, route) ==
  /\ walk' = Invalid
  /\ out' = [op |-> walk.op, addr |-> walk.addr, ctx |-> ctx, route |-> route]

(* The end of the ring, or of what there is of it.                         *)
AtEnd == next[walk.ctx] \in {first_area, Invalid}

Found ==
  /\ walk # Invalid /\ walk.phase = "data"
  /\ IsInData(walk.ctx, walk.addr)
  /\ Result(walk.ctx, "lftl_read")

(* Mutant: the search of the flashes starts where that of the data ended.  *)
NotFoundKeepsCtx ==
  /\ walk # Invalid /\ walk.phase = "data"
  /\ ~IsInData(walk.ctx, walk.addr)
  /\ AtEnd
  /\ IF walk.op = "get_ctx" THEN Result(Invalid, "none")
     ELSE walk' = [walk EXCEPT !.phase = "nvm"] /\ UNCHANGED out

(* Not in the data of an area: lftl_memread looks at the flash next.       *)
NotFound ==
  /\ walk # Invalid /\ walk.phase = "data"
  /\ ~IsInData(walk.ctx, walk.addr)
  /\ AtEnd
  /\ IF walk.op = "get_ctx" THEN Result(Invalid, "none")
     ELSE walk' = [walk EXCEPT !.phase = "nvm", !.ctx = first_area] /\ UNCHANGED out

FoundNvm ==
  /\ walk # Invalid /\ walk.phase = "nvm"
  /\ IsInNvm(walk.ctx, walk.addr)
  /\ Result(walk.ctx, "nvm_read")

NotInNvm ==
  /\ walk # Invalid /\ walk.phase = "nvm"
  /\ ~IsInNvm(walk.ctx, walk.addr)
  /\ ~has_several_nvms \/ AtEnd
  /\ Result(Invalid, "memcpy")

Follow ==
  /\ walk # Invalid
  /\ IF walk.phase = "data" THEN ~IsInData(walk.ctx, walk.addr)
     ELSE ~IsInNvm(walk.ctx, walk.addr) /\ has_several_nvms
  /\ ~AtEnd
  /\ walk' = [walk EXCEPT !.ctx = next[@]]
  /\ UNCHANGED out

Walk ==
  /\ Found \/ NotFound \/ FoundNvm \/ NotInNvm \/ Follow
  /\ UNCHANGED <<next, first_area, last_area, has_several_nvms, registered>>

Next ==
  \/ InitLib
  \/ \E c \in Ctx : Register(c)
  \/ \E op \in Ops, addr \in Addr : Lookup(op, addr)
  \/ Walk

Spec == Init /\ [][Next]_vars
FairSpec == Spec /\ WF_vars(Walk)

-----------------------------------------------------------------------------
(* Properties.                                                             *)

(* Type correctness; the flag says whether the flashes differ.             *)
TypeOK ==
  /\ next \in [Ctx -> Ctx \cup {Invalid}]
  /\ {first_area, last_area} \subseteq Ctx \cup {Invalid}
  /\ has_several_nvms \in BOOLEAN
  /\ has_several_nvms <=>
       \E i \in DOMAIN registered : NvmProps[registered[i]] # NvmProps[first_area]
  /\ walk # Invalid =>
       walk \in [op : Ops, addr : Addr, phase : {"data", "nvm"}, ctx : Ctx]
  /\ out # Invalid =>
       out \in [op : Ops, addr : Addr, ctx : Ctx \cup {Invalid}, route : Routes]
  /\ registered \in Seq(Ctx)

(* From the first area, next leads through the areas in the order in which *)
(* they were registered and back, whatever it was before lftl_init_lib.    *)
Ring ==
  LET n == Len(registered)
  IN  /\ \A i, j \in 1..n : registered[i] = registered[j] => i = j
      /\ IF n = 0 THEN first_area = Invalid
         ELSE /\ first_area = registered[1] /\ last_area = registered[n]
              /\ next[registered[n]] = registered[1]
      /\ \A i \in 1..(n - 1) : next[registered[i]] = registered[i + 1]

(* A lookup has visited the areas before the one it is at, in the order of *)
(* registration, and looks at the flash when the address is in no data.    *)
Progress ==
  walk # Invalid =>
    \E i \in DOMAIN registered :
      /\ walk.ctx = registered[i]
      /\ walk.phase = "data" =>
           \A j \in 1..(i - 1) : ~IsInData(registered[j], walk.addr)
      /\ walk.phase = "nvm" =>
           /\ \A j \in DOMAIN registered : ~IsInData(registered[j], walk.addr)
           /\ \A j \in 1..(i - 1) : ~IsInNvm(registered[j], walk.addr)
           /\ walk.op = "memread"
           /\ i = 1 \/ has_several_nvms

(* An address of the data of an area that was registered leads to that     *)
(* area, any other address of its flash to that flash, and any address of  *)
(* neither to memory. Only the address that follows the data may be taken  *)
(* for data, and the read refused, and only the one that follows a flash   *)
(* for flash, and read by its driver.                                      *)
Routed ==
  out # Invalid =>
    LET areas == {c \in Registered : Within(out.addr, DataRange[c])}
        nvms  == {c \in Registered : Within(out.addr, NvmRange[NvmProps[c]])}
        flash == NvmRange[NvmProps[out.ctx]]
    IN  IF areas # {} THEN out.route = "lftl_read" /\ out.ctx \in areas
        ELSE \/ out.route = "lftl_read" /\ Follows(out.addr, DataRange[out.ctx])
             \/ out.op = "get_ctx" /\ out.route = "none"
             \/ /\ out.op = "memread" /\ out.route = "nvm_read"
                /\ \/ Within(out.addr, flash)
                   \/ nvms = {} /\ Follows(out.addr, flash)
             \/ out.op = "memread" /\ out.route = "memcpy" /\ nvms = {}

(* Every lookup ends.                                                      *)
LookupEnds == (walk # Invalid) ~> (walk = Invalid)
=============================================================================
