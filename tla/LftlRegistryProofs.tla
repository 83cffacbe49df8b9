------------------------- MODULE LftlRegistryProofs -------------------------
(* Any number of areas, registered in any order, make a ring that lookups  *)
(* search completely.                                                      *)
EXTENDS LftlRegistry, TLAPS

RegistryInv == TypeOK /\ Ring /\ Progress /\ Routed

(* No area is registered: whatever the contexts hold, lookups cannot start. *)
LEMMA NoArea ==
  ASSUME next \in [Ctx -> Ctx \cup {Invalid}], registered = <<>>,
         first_area = Invalid, last_area = Invalid, has_several_nvms = FALSE,
         walk = Invalid, out = Invalid
  PROVE  RegistryInv
<1>1. registered \in Seq(Ctx) /\ Len(registered) = 0
  OBVIOUS
<1>2. DOMAIN registered = {}
  OBVIOUS
<1>3. TypeOK
  BY <1>1, <1>2 DEF TypeOK
<1>4. Ring
  BY <1>1, SMT DEF Ring
<1> QED  BY <1>3, <1>4 DEF RegistryInv, Progress, Routed

LEMMA InitRegistry == Init => RegistryInv
  BY NoArea DEF Init

(* lftl_init_lib leaves a next in the contexts that no area leads to.      *)
LEMMA InitLibKeepsRegistry ==
  ASSUME RegistryInv, InitLib
  PROVE  RegistryInv'
<1>1. next' \in [Ctx -> Ctx \cup {Invalid}]
  BY DEF RegistryInv, TypeOK, InitLib
<1>2. registered' \in Seq(Ctx) /\ Len(registered') = 0 /\ DOMAIN registered' = {}
  BY DEF InitLib
<1>3. TypeOK'
  BY <1>1, <1>2 DEF TypeOK, InitLib
<1>4. Ring'
  BY <1>2, SMT DEF Ring, InitLib
<1> QED  BY <1>3, <1>4 DEF RegistryInv, Progress, Routed, InitLib

(* lftl_register_area opens the ring and closes it again behind ctx.       *)
LEMMA RegisterKeepsRegistry ==
  ASSUME RegistryInv, NEW c \in Ctx, Register(c)
  PROVE  RegistryInv'
<1> DEFINE n == Len(registered)
<1>1. registered \in Seq(Ctx) /\ n \in Nat /\ DOMAIN registered = 1..n
  BY DEF RegistryInv, TypeOK
<1>2. /\ registered' \in Seq(Ctx)
      /\ Len(registered') = n + 1 /\ DOMAIN registered' = 1..(n + 1)
      /\ registered'[n + 1] = c
      /\ \A i \in 1..n : registered'[i] = registered[i]
  BY <1>1 DEF Register
<1>3. \A i \in 1..n : registered[i] \in Ctx /\ registered[i] # c
  BY <1>1 DEF Register, Registered
<1>4. walk = Invalid /\ walk' = Invalid /\ out' = Invalid /\ last_area' = c
  BY DEF Register
<1>5. CASE n = 0
  <2>1. /\ first_area = Invalid /\ first_area' = c
        /\ has_several_nvms' = has_several_nvms
        /\ next' = [next EXCEPT ![c] = c]
    BY <1>5 DEF Register, RegistryInv, Ring
  <2>2. ~has_several_nvms
    BY <1>1, <1>5 DEF RegistryInv, TypeOK
  <2>3. next'[c] = c /\ next' \in [Ctx -> Ctx \cup {Invalid}]
    BY <2>1 DEF RegistryInv, TypeOK
  <2>4. TypeOK'
    BY <1>2, <1>4, <1>5, <2>1, <2>2, <2>3, SMT DEF RegistryInv, TypeOK
  <2>5. Ring'
    BY <1>2, <1>4, <1>5, <2>1, <2>3, SMT DEF Ring
  <2> QED  BY <1>4, <2>4, <2>5 DEF RegistryInv, Progress, Routed
<1>6. CASE n # 0
  <2>1. /\ first_area = registered[1] /\ first_area # Invalid
        /\ last_area = registered[n] /\ last_area \in Ctx /\ last_area # c
    BY <1>1, <1>3, <1>6, LayoutAssumption, SMT DEF RegistryInv, Ring
  <2>2. /\ first_area' = first_area
        /\ next' = [next EXCEPT ![last_area] = c, ![c] = first_area]
        /\ has_several_nvms' =
             (has_several_nvms \/ NvmProps[c] # NvmProps[first_area])
    BY <2>1 DEF Register
  <2>3. /\ next' \in [Ctx -> Ctx \cup {Invalid}]
        /\ next'[c] = registered[1] /\ next'[registered[n]] = c
        /\ \A d \in Ctx \ {c, registered[n]} : next'[d] = next[d]
    BY <1>1, <1>3, <1>6, <2>1, <2>2, SMT DEF RegistryInv, TypeOK
  <2>4. TypeOK'
    <3>1. has_several_nvms' \in BOOLEAN
      BY <2>2
    <3>2. has_several_nvms' <=>
            \E i \in 1..(n + 1) : NvmProps[registered'[i]] # NvmProps[first_area']
      <4>1. has_several_nvms <=>
              \E i \in 1..n : NvmProps[registered[i]] # NvmProps[first_area]
        BY <1>1 DEF RegistryInv, TypeOK
      <4>2. (\E i \in 1..(n + 1) : NvmProps[registered'[i]] # NvmProps[first_area])
              <=> \/ \E i \in 1..n : NvmProps[registered[i]] # NvmProps[first_area]
                  \/ NvmProps[c] # NvmProps[first_area]
        BY <1>1, <1>2, SMT
      <4> QED  BY <2>2, <4>1, <4>2, Zenon
    <3>3. registered' \in Seq(Ctx) /\ DOMAIN registered' = 1..(n + 1)
      BY <1>2
    <3>4. /\ next' \in [Ctx -> Ctx \cup {Invalid}]
          /\ {first_area', last_area'} \subseteq Ctx \cup {Invalid}
      BY <1>4, <2>2, <2>3 DEF RegistryInv, TypeOK
    <3>5. walk' = walk /\ walk = Invalid /\ out' = Invalid
      BY <1>4
    <3> QED  BY <3>1, <3>2, <3>3, <3>4, <3>5, Zenon DEF TypeOK
  <2>5. Ring'
    <3>1. \A i, j \in 1..(n + 1) : registered'[i] = registered'[j] => i = j
      BY <1>1, <1>2, <1>3, SMT DEF RegistryInv, Ring
    <3>2. \A i \in 1..n : next'[registered'[i]] = registered'[i + 1]
      <4> TAKE i \in 1..n
      <4>1. CASE i = n
        BY <1>1, <1>2, <2>3, <4>1, SMT
      <4>2. CASE i # n
        <5>1. i \in 1..(n - 1) /\ n \in 1..n /\ i + 1 \in 1..n
          <6>1. n \in Nat /\ i \in 1..n
            BY <1>1
          <6> HIDE DEF n
          <6> QED  BY <4>2, <6>1
        <5>2. /\ \A k, j \in 1..n : registered[k] = registered[j] => k = j
              /\ \A k \in 1..(n - 1) : next[registered[k]] = registered[k + 1]
          BY DEF RegistryInv, Ring
        <5>3. registered[i] # registered[n] /\ registered[i] \in Ctx \ {c}
          BY <1>3, <4>2, <5>1, <5>2
        <5>4. next'[registered[i]] = registered[i + 1]
          BY <2>3, <5>1, <5>2, <5>3
        <5> QED  BY <1>2, <5>1, <5>4
      <4> QED  BY <4>1, <4>2
    <3> QED  BY <1>1, <1>2, <1>4, <1>6, <2>1, <2>2, <2>3, <3>1, <3>2, SMT DEF Ring
  <2> QED  BY <1>4, <2>4, <2>5 DEF RegistryInv, Progress, Routed
<1> QED  BY <1>5, <1>6

(* A lookup at the last area of the ring, and only there, is at its end.   *)
LEMMA EndOfRing ==
  ASSUME RegistryInv, NEW i \in DOMAIN registered, walk.ctx = registered[i]
  PROVE  /\ AtEnd <=> i = Len(registered)
         /\ i # Len(registered) => /\ i + 1 \in DOMAIN registered
                                  /\ next[walk.ctx] = registered[i + 1]
<1> DEFINE n == Len(registered)
<1>1. /\ registered \in Seq(Ctx) /\ n \in Nat /\ DOMAIN registered = 1..n
      /\ i \in 1..n /\ n # 0 /\ 1 \in 1..n
  BY DEF RegistryInv, TypeOK
<1>2. /\ \A k, j \in 1..n : registered[k] = registered[j] => k = j
      /\ \A k \in 1..(n - 1) : next[registered[k]] = registered[k + 1]
      /\ first_area = registered[1] /\ next[registered[n]] = registered[1]
  BY <1>1 DEF RegistryInv, Ring
<1>3. CASE i = n
  BY <1>1, <1>2, <1>3 DEF AtEnd
<1>4. CASE i # n
  <2>1. i \in 1..(n - 1) /\ i + 1 \in 1..n /\ i + 1 # 1
    BY <1>1, <1>4, SMT
  <2>2. next[walk.ctx] = registered[i + 1] /\ registered[i + 1] # first_area
    BY <1>1, <1>2, <2>1
  <2>3. registered[i + 1] # Invalid
    BY <1>1, <2>1, LayoutAssumption
  <2> QED  BY <1>1, <1>4, <2>1, <2>2, <2>3 DEF AtEnd
<1> QED  BY <1>3, <1>4

(* A lookup starts at the first area.                                      *)
LEMMA LookupKeepsRegistry ==
  ASSUME RegistryInv, NEW op \in Ops, NEW addr \in Addr, Lookup(op, addr)
  PROVE  RegistryInv'
<1>1. /\ walk' = [op |-> op, addr |-> addr, phase |-> "data", ctx |-> first_area]
      /\ out' = Invalid /\ first_area # Invalid
      /\ UNCHANGED <<next, first_area, last_area, has_several_nvms, registered>>
  BY DEF Lookup
<1>2. /\ registered \in Seq(Ctx) /\ Len(registered) # 0
      /\ 1 \in DOMAIN registered /\ first_area = registered[1]
      /\ registered[1] \in Ctx
  <2>1. registered \in Seq(Ctx) /\ Len(registered) # 0
    BY <1>1 DEF RegistryInv, TypeOK, Ring
  <2>2. first_area = registered[1]
    BY <2>1 DEF RegistryInv, Ring
  <2> QED  BY <2>1, <2>2
<1>3. TypeOK'
  BY <1>1, <1>2 DEF RegistryInv, TypeOK
<1>4. Ring'
  BY <1>1 DEF RegistryInv, Ring
<1>5. Progress'
  BY <1>1, <1>2 DEF Progress
<1> QED  BY <1>1, <1>3, <1>4, <1>5 DEF RegistryInv, Routed

LEMMA FollowKeepsProgress ==
  ASSUME RegistryInv, Follow,
         UNCHANGED <<next, first_area, last_area, has_several_nvms, registered>>
  PROVE  TypeOK' /\ Progress'
<1>1. walk # Invalid /\ ~AtEnd /\ out' = out
      /\ walk' = [walk EXCEPT !.ctx = next[walk.ctx]]
      /\ IF walk.phase = "data" THEN ~IsInData(walk.ctx, walk.addr)
         ELSE ~IsInNvm(walk.ctx, walk.addr) /\ has_several_nvms
  BY DEF Follow
<1>2. walk \in [op : Ops, addr : Addr, phase : {"data", "nvm"}, ctx : Ctx]
  BY <1>1 DEF RegistryInv, TypeOK
<1>3. PICK i \in DOMAIN registered :
        /\ walk.ctx = registered[i]
        /\ walk.phase = "data" =>
             \A j \in 1..(i - 1) : ~IsInData(registered[j], walk.addr)
        /\ walk.phase = "nvm" =>
             /\ \A j \in DOMAIN registered : ~IsInData(registered[j], walk.addr)
             /\ \A j \in 1..(i - 1) : ~IsInNvm(registered[j], walk.addr)
             /\ walk.op = "memread"
             /\ i = 1 \/ has_several_nvms
  BY <1>1 DEF RegistryInv, Progress
<1>4. i # Len(registered) /\ i + 1 \in DOMAIN registered
      /\ next[walk.ctx] = registered[i + 1]
  BY <1>1, <1>3, EndOfRing
<1>5. registered \in Seq(Ctx) /\ i \in Nat \ {0} /\ registered[i + 1] \in Ctx
  BY <1>3, <1>4 DEF RegistryInv, TypeOK
<1>6. /\ walk'.ctx = registered[i + 1] /\ walk'.addr = walk.addr
      /\ walk'.phase = walk.phase /\ walk'.op = walk.op
      /\ walk' \in [op : Ops, addr : Addr, phase : {"data", "nvm"}, ctx : Ctx]
  BY <1>1, <1>2, <1>4, <1>5
<1>7. \A j \in 1..((i + 1) - 1) : j \in 1..(i - 1) \/ j = i
  BY <1>5, SMT
<1>8. TypeOK'
  BY <1>1, <1>6 DEF RegistryInv, TypeOK
<1>9. Progress'
  <2>1. walk.phase = "data" =>
          \A j \in 1..((i + 1) - 1) : ~IsInData(registered[j], walk.addr)
    BY <1>1, <1>3, <1>7
  <2>2. walk.phase = "nvm" =>
          /\ \A j \in DOMAIN registered : ~IsInData(registered[j], walk.addr)
          /\ \A j \in 1..((i + 1) - 1) : ~IsInNvm(registered[j], walk.addr)
          /\ walk.op = "memread" /\ has_several_nvms
    BY <1>1, <1>3, <1>7
  <2>3. /\ registered' = registered /\ has_several_nvms' = has_several_nvms
        /\ walk'.addr = walk.addr /\ walk'.phase = walk.phase /\ walk'.op = walk.op
    BY <1>6
  <2>4. walk'.phase = "data" =>
          \A j \in 1..((i + 1) - 1) : ~IsInData(registered'[j], walk'.addr)
    BY <2>1, <2>3
  <2>5. walk'.phase = "nvm" =>
          /\ \A j \in DOMAIN registered' : ~IsInData(registered'[j], walk'.addr)
          /\ \A j \in 1..((i + 1) - 1) : ~IsInNvm(registered'[j], walk'.addr)
          /\ walk'.op = "memread" /\ has_several_nvms'
    BY <2>2, <2>3
  <2>6. i + 1 \in DOMAIN registered' /\ walk'.ctx = registered'[i + 1]
    BY <1>4, <1>6, <2>3
  <2>7. \E m \in DOMAIN registered' :
          /\ walk'.ctx = registered'[m]
          /\ walk'.phase = "data" =>
               \A j \in 1..(m - 1) : ~IsInData(registered'[j], walk'.addr)
          /\ walk'.phase = "nvm" =>
               /\ \A j \in DOMAIN registered' : ~IsInData(registered'[j], walk'.addr)
               /\ \A j \in 1..(m - 1) : ~IsInNvm(registered'[j], walk'.addr)
               /\ walk'.op = "memread"
               /\ m = 1 \/ has_several_nvms'
    <3>1. i + 1 \in DOMAIN registered'
      BY <2>6
    <3> WITNESS i + 1 \in DOMAIN registered'
    <3> QED  BY <2>4, <2>5, <2>6
  <2> QED  BY <2>7 DEF Progress
<1> QED  BY <1>8, <1>9

(* Where a lookup stands, in terms of the areas that were registered.      *)
LEMMA WalkAt ==
  ASSUME RegistryInv, walk # Invalid
  PROVE  /\ walk \in [op : Ops, addr : Addr, phase : {"data", "nvm"}, ctx : Ctx]
         /\ walk.ctx \in Registered /\ Registered \subseteq Ctx
         /\ walk.phase = "data" /\ AtEnd /\ ~IsInData(walk.ctx, walk.addr) =>
              \A c \in Registered : ~IsInData(c, walk.addr)
         /\ walk.phase = "nvm" =>
              /\ walk.op = "memread"
              /\ \A c \in Registered : ~IsInData(c, walk.addr)
         /\ /\ walk.phase = "nvm" /\ ~IsInNvm(walk.ctx, walk.addr)
            /\ ~has_several_nvms \/ AtEnd
            => \A c \in Registered : ~IsInNvm(c, walk.addr)
<1>1. /\ walk \in [op : Ops, addr : Addr, phase : {"data", "nvm"}, ctx : Ctx]
      /\ registered \in Seq(Ctx) /\ DOMAIN registered = 1..Len(registered)
      /\ Len(registered) \in Nat
  BY DEF RegistryInv, TypeOK
<1>2. PICK i \in DOMAIN registered :
        /\ walk.ctx = registered[i]
        /\ walk.phase = "data" =>
             \A j \in 1..(i - 1) : ~IsInData(registered[j], walk.addr)
        /\ walk.phase = "nvm" =>
             /\ \A j \in DOMAIN registered : ~IsInData(registered[j], walk.addr)
             /\ \A j \in 1..(i - 1) : ~IsInNvm(registered[j], walk.addr)
             /\ walk.op = "memread"
             /\ i = 1 \/ has_several_nvms
  BY DEF RegistryInv, Progress
<1>3. AtEnd => i = Len(registered)
  BY <1>2, EndOfRing
<1>4. i = Len(registered) => \A j \in DOMAIN registered : j \in 1..(i - 1) \/ j = i
  BY <1>1, SMT
<1>5. walk.ctx \in Registered /\ Registered \subseteq Ctx
  BY <1>1, <1>2 DEF Registered
<1>6. walk.phase = "data" /\ AtEnd /\ ~IsInData(walk.ctx, walk.addr) =>
        \A c \in Registered : ~IsInData(c, walk.addr)
  BY <1>2, <1>3, <1>4 DEF Registered
<1>7. walk.phase = "nvm" =>
        /\ walk.op = "memread"
        /\ \A c \in Registered : ~IsInData(c, walk.addr)
  BY <1>2 DEF Registered
<1>8. ASSUME walk.phase = "nvm", ~IsInNvm(walk.ctx, walk.addr),
             ~has_several_nvms \/ AtEnd
      PROVE  \A c \in Registered : ~IsInNvm(c, walk.addr)
  <2>1. CASE AtEnd
    BY <1>2, <1>3, <1>4, <1>8, <2>1 DEF Registered
  <2>2. CASE ~has_several_nvms
    <3>1. i = 1 /\ first_area = registered[1]
      BY <1>1, <1>2, <1>8, <2>2 DEF RegistryInv, Ring
    <3>2. \A j \in DOMAIN registered :
            NvmProps[registered[j]] = NvmProps[first_area]
      BY <2>2 DEF RegistryInv, TypeOK
    <3> QED  BY <1>2, <1>8, <3>1, <3>2 DEF Registered, IsInNvm
  <2> QED  BY <1>8, <2>1, <2>2
<1> QED  BY <1>1, <1>5, <1>6, <1>7, <1>8

(* An address inside a range is in it for is_in_range.                     *)
LEMMA WithinIsIn ==
  ASSUME NEW c \in Ctx, NEW addr \in Addr
  PROVE  /\ Within(addr, DataRange[c]) => IsInData(c, addr)
         /\ Within(addr, NvmRange[NvmProps[c]]) => IsInNvm(c, addr)
         /\ IsInData(c, addr) /\ ~Within(addr, DataRange[c]) =>
              Follows(addr, DataRange[c])
         /\ IsInNvm(c, addr) /\ ~Within(addr, NvmRange[NvmProps[c]]) =>
              Follows(addr, NvmRange[NvmProps[c]])
<1>1. /\ DataRange[c] \in Nat \X Nat /\ NvmRange[NvmProps[c]] \in Nat \X Nat
      /\ addr \in Nat
  BY LayoutAssumption
<1>2. ASSUME NEW range \in Nat \X Nat
      PROVE  /\ Within(addr, range) => IsInRange(addr, range)
             /\ IsInRange(addr, range) /\ ~Within(addr, range) =>
                  Follows(addr, range)
  <2>1. range[1] \in Nat /\ range[2] \in Nat
    OBVIOUS
  <2> QED  BY <1>1, <2>1, SMT DEF Within, Follows, IsInRange
<1> QED  BY <1>1, <1>2 DEF IsInData, IsInNvm

(* The result of a lookup.                                                 *)
LEMMA ResultKeepsRegistry ==
  ASSUME RegistryInv, Found \/ FoundNvm \/ NotInNvm \/
                      (NotFound /\ walk.op = "get_ctx"),
         UNCHANGED <<next, first_area, last_area, has_several_nvms, registered>>
  PROVE  TypeOK' /\ Progress' /\ Routed'
<1>1. walk # Invalid /\ walk' = Invalid
  BY DEF Found, FoundNvm, NotInNvm, NotFound, Result
<1>2. /\ walk \in [op : Ops, addr : Addr, phase : {"data", "nvm"}, ctx : Ctx]
      /\ walk.ctx \in Registered /\ Registered \subseteq Ctx
  BY <1>1, WalkAt
<1>3. Registered' = Registered
  BY DEF Registered
<1> DEFINE areas == {c \in Registered : Within(walk.addr, DataRange[c])}
           nvms == {c \in Registered : Within(walk.addr, NvmRange[NvmProps[c]])}
           Typed == /\ out' \in [op : Ops, addr : Addr, ctx : Ctx \cup {Invalid},
                                 route : Routes]
                    /\ out'.op = walk.op /\ out'.addr = walk.addr
           ToArea == areas # {} => out'.route = "lftl_read" /\ out'.ctx \in areas
           ToFlash ==
             areas = {} =>
               \/ out'.route = "lftl_read"
                    /\ Follows(walk.addr, DataRange[out'.ctx])
               \/ walk.op = "get_ctx" /\ out'.route = "none"
               \/ /\ walk.op = "memread" /\ out'.route = "nvm_read"
                  /\ LET flash == NvmRange[NvmProps[out'.ctx]]
                     IN  \/ Within(walk.addr, flash)
                         \/ nvms = {} /\ Follows(walk.addr, flash)
               \/ walk.op = "memread" /\ out'.route = "memcpy" /\ nvms = {}
<1>4. Typed /\ ToArea /\ ToFlash => TypeOK' /\ Progress' /\ Routed'
  <2> HAVE Typed /\ ToArea /\ ToFlash
  <2>1. TypeOK'
    BY <1>1, <1>2 DEF RegistryInv, TypeOK
  <2>2. Routed'
    BY <1>3 DEF Routed
  <2>3. Progress'
    BY <1>1 DEF Progress
  <2> QED  BY <2>1, <2>2, <2>3
<1>5. CASE Found
  <2>1. Result(walk.ctx, "lftl_read") /\ IsInData(walk.ctx, walk.addr)
    BY <1>5 DEF Found
  <2>2. areas # {} => walk.ctx \in areas
    BY <1>2, <2>1, AreasApart
  <2>3. areas = {} => Follows(walk.addr, DataRange[walk.ctx])
    BY <1>2, <2>1, WithinIsIn
  <2>4. /\ out' \in [op : Ops, addr : Addr, ctx : Ctx \cup {Invalid}, route : Routes]
        /\ out'.op = walk.op /\ out'.addr = walk.addr
        /\ out'.ctx = walk.ctx /\ out'.route = "lftl_read"
    BY <1>2, <2>1 DEF Result, Routes
  <2>5. ToArea
    BY <2>2, <2>4
  <2>6. ToFlash
    BY <2>3, <2>4
  <2> HIDE DEF ToArea, ToFlash
  <2> QED  BY <1>4, <2>4, <2>5, <2>6
<1>6. CASE NotFound /\ walk.op = "get_ctx"
  <2>1. /\ Result(Invalid, "none") /\ walk.phase = "data" /\ AtEnd
        /\ ~IsInData(walk.ctx, walk.addr)
    BY <1>6 DEF NotFound
  <2>2. areas = {}
    BY <1>1, <1>2, <2>1, WalkAt, WithinIsIn
  <2>3. /\ out' \in [op : Ops, addr : Addr, ctx : Ctx \cup {Invalid}, route : Routes]
        /\ out'.op = walk.op /\ out'.addr = walk.addr /\ out'.route = "none"
    BY <1>2, <2>1 DEF Result, Routes
  <2>4. ToArea /\ ToFlash
    BY <1>6, <2>2, <2>3
  <2> HIDE DEF ToArea, ToFlash
  <2> QED  BY <1>4, <2>3, <2>4
<1>7. CASE FoundNvm \/ NotInNvm
  <2>1. walk.phase = "nvm" /\ walk.op = "memread" /\ areas = {}
    <3>1. walk.phase = "nvm"
      BY <1>7 DEF FoundNvm, NotInNvm
    <3> QED  BY <1>1, <1>2, <3>1, WalkAt, WithinIsIn
  <2>2. CASE FoundNvm
    <3>1. Result(walk.ctx, "nvm_read") /\ IsInNvm(walk.ctx, walk.addr)
      BY <2>2 DEF FoundNvm
    <3>2. LET flash == NvmRange[NvmProps[walk.ctx]]
          IN  \/ Within(walk.addr, flash)
              \/ nvms = {} /\ Follows(walk.addr, flash)
      BY <1>2, <3>1, WithinIsIn, FlashesApart
    <3>3. /\ out' \in [op : Ops, addr : Addr, ctx : Ctx \cup {Invalid},
                      route : Routes]
          /\ out'.op = walk.op /\ out'.addr = walk.addr
          /\ out'.ctx = walk.ctx /\ out'.route = "nvm_read"
      BY <1>2, <3>1 DEF Result, Routes
    <3>4. ToArea /\ ToFlash
      BY <2>1, <3>2, <3>3
    <3> HIDE DEF ToArea, ToFlash
    <3> QED  BY <1>4, <3>3, <3>4
  <2>3. CASE NotInNvm
    <3>1. /\ Result(Invalid, "memcpy") /\ ~IsInNvm(walk.ctx, walk.addr)
          /\ ~has_several_nvms \/ AtEnd
      BY <2>3 DEF NotInNvm
    <3>2. nvms = {}
      BY <1>1, <1>2, <2>1, <3>1, WalkAt, WithinIsIn
    <3>3. /\ out' \in [op : Ops, addr : Addr, ctx : Ctx \cup {Invalid},
                      route : Routes]
          /\ out'.op = walk.op /\ out'.addr = walk.addr
          /\ out'.ctx = Invalid /\ out'.route = "memcpy"
      BY <1>2, <3>1 DEF Result, Routes
    <3>4. ToArea /\ ToFlash
      BY <2>1, <3>2, <3>3
    <3> HIDE DEF ToArea, ToFlash
    <3> QED  BY <1>4, <3>3, <3>4
  <2> QED  BY <1>7, <2>2, <2>3
<1> QED  BY <1>5, <1>6, <1>7

(* No data holds the address: lftl_memread starts again, with the flashes. *)
LEMMA NotFoundKeepsProgress ==
  ASSUME RegistryInv, NotFound, walk.op # "get_ctx",
         UNCHANGED <<next, first_area, last_area, has_several_nvms, registered>>
  PROVE  TypeOK' /\ Progress' /\ out' = out
<1>1. /\ walk # Invalid /\ walk.phase = "data" /\ AtEnd
      /\ ~IsInData(walk.ctx, walk.addr) /\ out' = out
      /\ walk' = [walk EXCEPT !.phase = "nvm", !.ctx = first_area]
  BY DEF NotFound
<1>2. /\ walk \in [op : Ops, addr : Addr, phase : {"data", "nvm"}, ctx : Ctx]
      /\ walk.ctx \in Registered
      /\ \A c \in Registered : ~IsInData(c, walk.addr)
  BY <1>1, WalkAt
<1>3. /\ registered \in Seq(Ctx) /\ 1 \in DOMAIN registered
      /\ first_area = registered[1] /\ first_area \in Ctx
  <2>1. registered \in Seq(Ctx) /\ Len(registered) # 0
    BY <1>2 DEF RegistryInv, TypeOK, Registered
  <2>2. first_area = registered[1]
    BY <2>1 DEF RegistryInv, Ring
  <2> QED  BY <2>1, <2>2
<1>4. /\ walk'.ctx = registered[1] /\ walk'.addr = walk.addr
      /\ walk'.phase = "nvm" /\ walk'.op = "memread"
      /\ walk' \in [op : Ops, addr : Addr, phase : {"data", "nvm"}, ctx : Ctx]
  BY <1>1, <1>2, <1>3 DEF Ops
<1>5. TypeOK'
  BY <1>1, <1>4 DEF RegistryInv, TypeOK
<1>6. \A j \in DOMAIN registered' : ~IsInData(registered'[j], walk'.addr)
  BY <1>2, <1>4 DEF Registered
<1>7. Progress'
  BY <1>3, <1>4, <1>6 DEF Progress
<1> QED  BY <1>1, <1>5, <1>7

LEMMA NextKeepsRegistry == RegistryInv /\ [Next]_vars => RegistryInv'
<1> SUFFICES ASSUME RegistryInv, [Next]_vars PROVE RegistryInv'
  OBVIOUS
<1>1. CASE InitLib
  BY <1>1, InitLibKeepsRegistry
<1>2. ASSUME NEW c \in Ctx, Register(c) PROVE RegistryInv'
  BY <1>2, RegisterKeepsRegistry
<1>3. ASSUME NEW op \in Ops, NEW addr \in Addr, Lookup(op, addr)
      PROVE  RegistryInv'
  BY <1>3, LookupKeepsRegistry
<1>4. CASE Walk
  <2>1. UNCHANGED <<next, first_area, last_area, has_several_nvms, registered>>
    BY <1>4 DEF Walk
  <2>2. Ring' /\ (out' = out => Routed')
    BY <2>1 DEF RegistryInv, Ring, Routed, Registered
  <2>3. CASE Follow
    BY <2>1, <2>2, <2>3, FollowKeepsProgress DEF RegistryInv, Follow
  <2>4. CASE Found \/ FoundNvm \/ NotInNvm \/ (NotFound /\ walk.op = "get_ctx")
    BY <2>1, <2>2, <2>4, ResultKeepsRegistry DEF RegistryInv
  <2>5. CASE NotFound /\ walk.op # "get_ctx"
    BY <2>1, <2>2, <2>5, NotFoundKeepsProgress DEF RegistryInv
  <2> QED  BY <1>4, <2>3, <2>4, <2>5 DEF Walk
<1>5. CASE UNCHANGED vars
  <2>1. TypeOK' /\ Ring'
    BY <1>5 DEF vars, RegistryInv, TypeOK, Ring
  <2>2. Progress'
    BY <1>5 DEF vars, RegistryInv, Progress
  <2>3. Routed'
    BY <1>5 DEF vars, RegistryInv, Routed, Registered
  <2> QED  BY <2>1, <2>2, <2>3 DEF RegistryInv
<1> QED  BY <1>1, <1>2, <1>3, <1>4, <1>5 DEF Next

LEMMA RegistryCorrect == Spec => [](TypeOK /\ Ring /\ Progress /\ Routed)
<1>1. RegistryInv => TypeOK /\ Ring /\ Progress /\ Routed
  BY DEF RegistryInv
<1> QED  BY InitRegistry, NextKeepsRegistry, <1>1, PTL DEF Spec

(* has_several_nvms says whether the areas registered so far lie in more   *)
(* than one flash, after any number of lftl_init_lib.                      *)
THEOREM RegistryTyped == Spec => []TypeOK
BY RegistryCorrect, PTL

(* lftl_init_lib and lftl_register_area keep a ring of all the areas that  *)
(* were registered, in any order and number.                               *)
THEOREM AreasInRing == Spec => []Ring
BY RegistryCorrect, PTL

(* A lookup skips an area only when the address is not in it.              *)
THEOREM LookupsProgress == Spec => []Progress
BY RegistryCorrect, PTL

(* A lookup finds the area or the flash that an address belongs to.        *)
THEOREM AddressesRouted == Spec => []Routed
BY RegistryCorrect, PTL
-----------------------------------------------------------------------------
(* The end of a lookup.                                                    *)

Position(c) == CHOOSE i \in DOMAIN registered : registered[i] = c

(* The contexts that a lookup may visit before it ends: the rest of those  *)
(* whose data it is looking at, then those whose flash it looks at.        *)
VisitsLeft ==
  LET n == Len(registered)
      i == Position(walk.ctx)
  IN  IF walk.phase = "data" THEN 2 * n - i ELSE n - i

(* A lookup visits each area twice at most, then ends: whatever next holds *)
(* in the contexts that were not registered, no lookup runs for ever.      *)
LookupAdvances ==
  [][walk # Invalid =>
       walk' = Invalid \/ (VisitsLeft' \in Nat /\ VisitsLeft' < VisitsLeft)]_vars

LEMMA Positions ==
  ASSUME RegistryInv, NEW i \in DOMAIN registered
  PROVE  /\ Position(registered[i]) = i
         /\ i \in 1..Len(registered) /\ Len(registered) \in Nat
<1>1. registered \in Seq(Ctx)
  BY DEF RegistryInv, TypeOK
<1>2. DOMAIN registered = 1..Len(registered) /\ Len(registered) \in Nat
  BY <1>1
<1>3. \A j \in DOMAIN registered : registered[j] = registered[i] => j = i
  BY <1>2 DEF RegistryInv, Ring
<1> QED  BY <1>2, <1>3 DEF Position

LEMMA WalkAdvances ==
  ASSUME RegistryInv, Walk, walk' # Invalid
  PROVE  VisitsLeft' \in Nat /\ VisitsLeft' < VisitsLeft
<1> DEFINE n == Len(registered)
<1>1. /\ UNCHANGED <<next, first_area, last_area, has_several_nvms, registered>>
      /\ walk # Invalid
  BY DEF Walk, Found, NotFound, FoundNvm, NotInNvm, Follow
<1>2. walk \in [op : Ops, addr : Addr, phase : {"data", "nvm"}, ctx : Ctx]
  BY <1>1 DEF RegistryInv, TypeOK
<1>3. PICK i \in DOMAIN registered : walk.ctx = registered[i]
  BY <1>1 DEF RegistryInv, Progress
<1>4. i \in 1..n /\ n \in Nat /\ Position(walk.ctx) = i
  BY <1>3, Positions
<1>5. VisitsLeft = IF walk.phase = "data" THEN 2 * n - i ELSE n - i
  BY <1>4 DEF VisitsLeft
<1>6. ASSUME NEW j \in DOMAIN registered, walk'.ctx = registered[j]
      PROVE  /\ j \in 1..n
             /\ VisitsLeft' = IF walk'.phase = "data" THEN 2 * n - j ELSE n - j
  <2>1. j \in 1..n /\ Position(registered[j]) = j
    BY Positions
  <2>2. Position(walk.ctx)' = j
    BY <1>1, <1>6, <2>1 DEF Position
  <2> QED  BY <1>1, <2>1, <2>2 DEF VisitsLeft
<1>7. CASE Follow
  <2>1. /\ ~AtEnd
        /\ walk' = [walk EXCEPT !.ctx = next[walk.ctx]]
    BY <1>7 DEF Follow
  <2>2. i + 1 \in DOMAIN registered /\ next[walk.ctx] = registered[i + 1]
    BY <1>3, <2>1, EndOfRing
  <2>3. walk'.ctx = registered[i + 1] /\ walk'.phase = walk.phase
    BY <1>2, <2>1, <2>2
  <2>4. /\ i + 1 \in 1..n
        /\ VisitsLeft' = IF walk.phase = "data" THEN 2 * n - (i + 1) ELSE n - (i + 1)
    BY <1>6, <2>2, <2>3
  <2> HIDE DEF n
  <2> QED  BY <1>4, <1>5, <2>4
<1>8. CASE NotFound
  <2>1. /\ walk.phase = "data" /\ AtEnd
        /\ walk' = [walk EXCEPT !.phase = "nvm", !.ctx = first_area]
    BY <1>8 DEF NotFound, Result
  <2>2. i = n
    BY <1>3, <2>1, EndOfRing
  <2>3. 1 \in DOMAIN registered /\ first_area = registered[1]
    <3>1. n # 0 /\ DOMAIN registered = 1..n
      BY <1>4 DEF RegistryInv, TypeOK
    <3>2. first_area = registered[1]
      BY <3>1 DEF RegistryInv, Ring
    <3> QED  BY <1>4, <3>1, <3>2
  <2>4. walk'.ctx = registered[1] /\ walk'.phase = "nvm"
    BY <1>2, <2>1, <2>3
  <2>5. VisitsLeft' = n - 1
    BY <1>6, <2>3, <2>4
  <2> HIDE DEF n
  <2> QED  BY <1>4, <1>5, <2>1, <2>2, <2>5
<1>9. ~Found /\ ~FoundNvm /\ ~NotInNvm
  BY DEF Found, FoundNvm, NotInNvm, Result
<1> QED  BY <1>7, <1>8, <1>9 DEF Walk

(* No lookup runs for ever in the ring: each context it goes on to is one  *)
(* it has not visited yet for the same purpose.                            *)
THEOREM LookupsAdvance == Spec => LookupAdvances
<1> DEFINE Advance == walk # Invalid =>
             walk' = Invalid \/ (VisitsLeft' \in Nat /\ VisitsLeft' < VisitsLeft)
<1>1. RegistryInv /\ [Next]_vars => [Advance]_vars
  <2> SUFFICES ASSUME RegistryInv, Next, walk # Invalid, walk' # Invalid
               PROVE  VisitsLeft' \in Nat /\ VisitsLeft' < VisitsLeft
    OBVIOUS
  <2>1. Walk
    BY DEF Next, InitLib, Register, Lookup
  <2> QED  BY <2>1, WalkAdvances
<1>2. Spec => []RegistryInv
  BY InitRegistry, NextKeepsRegistry, PTL DEF Spec
<1> QED  BY <1>1, <1>2, PTL DEF Spec, LookupAdvances
=============================================================================
