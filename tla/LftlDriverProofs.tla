-------------------------- MODULE LftlDriverProofs --------------------------
(***************************************************************************)
(* For a flash of any size, any arguments and any faults: the drivers put  *)
(* back what they change, and nothing disturbs an operation in progress.   *)
(* They implement LftlCallbacks, whatever fails except for an erase of an  *)
(* STM32, whose error the driver does not see.  All this supposes that the *)
(* vendor's code of a CH32V307 does not give up while the flash is busy    *)
(* (~VendorTimeouts); that an error stops its loops supposes nothing.      *)
(***************************************************************************)
EXTENDS LftlDriver, TLAPS

(* The fields of the records.                                              *)
Shapes ==
  /\ flash = [locked |-> flash.locked, mode |-> flash.mode,
              bank |-> flash.bank, page |-> flash.page, busy |-> flash.busy]
  /\ cpu = [primask |-> cpu.primask, icache |-> cpu.icache]
  /\ found = [primask |-> found.primask, icache |-> found.icache]
  /\ saved = [primask |-> saved.primask, icache |-> saved.icache]

Control ==
  /\ pc \in {"idle", "enter", "prepare", "start", "busy", "clear", "leave"}
  /\ pc # "idle" => call.kind \in {"erase", "write"}
  /\ pc \in {"prepare", "clear"} => target = "stm32"
  /\ pc \in {"start", "busy"} => target \in {"stm32", "ch32"}
  /\ pc \in {"idle", "enter"} => flash = Reset /\ cpu = found
  /\ Busy => pc = "busy"

(* Where the values found by an STM32 driver are, and what it has done to  *)
(* the controller.                                                         *)
Stm32 ==
  target = "stm32" /\ pc \notin {"idle", "enter"} =>
    /\ ~flash.locked
    /\ cpu.primask = TRUE /\ saved.primask = found.primask
    /\ pc \in {"prepare", "leave"} =>
         /\ cpu.icache = found.icache
         /\ flash.mode = "none" /\ flash.bank = 0 /\ flash.page = 0
    /\ pc \in {"start", "busy", "clear"} =>
         /\ cpu.icache = FALSE /\ saved.icache = found.icache
         /\ flash.mode = call.kind

Others ==
  /\ target # "stm32" =>
       cpu = found /\ flash.bank = 0 /\ flash.page = 0
  /\ target = "ch32" /\ pc \in {"start", "busy", "leave"} =>
       /\ ~flash.locked
       /\ flash.mode = IF pc = "busy" THEN call.kind ELSE "none"
  /\ target \notin {"stm32", "ch32"} => flash = Reset

IInv == Shapes /\ Control /\ Stm32 /\ Others

LEMMA InitIInv == Init => IInv
BY DEF Init, IInv, Shapes, Control, Stm32, Others, Reset, Busy

LEMMA CallIInv == IInv /\ Call => IInv'
<1> SUFFICES ASSUME IInv, Call PROVE IInv'
  OBVIOUS
<1>1. PICK kind \in {"erase", "write"}, size \in 0..MaxSize,
           addr \in 0..(FlashBase + N * Granules) :
        Decline(kind, addr, size) \/ Accept(kind, addr, size)
  BY DEF Call
<1>2. CASE Decline(kind, addr, size)
  BY <1>2 DEF Decline, IInv, Shapes, Control, Stm32, Others, Busy, setup
<1>3. CASE Accept(kind, addr, size)
  BY <1>3 DEF Accept, IInv, Shapes, Control, Stm32, Others, Busy, Reset, setup
<1> QED BY <1>1, <1>2, <1>3

LEMMA Stm32StepIInv ==
  ASSUME IInv,
         Enter \/ PrepareErase \/ PrepareWrite \/ Start \/ Wait \/ Clear
           \/ Leave
  PROVE  IInv'
<1> USE DEF IInv, Shapes, Control, Stm32, Others, Busy, setup, history
<1>1. CASE Enter
  <2>1. /\ flash.mode = "none" /\ flash.bank = 0 /\ flash.page = 0
        /\ flash.busy = << >>
        /\ cpu = found /\ target = "stm32" /\ pc = "enter"
    BY <1>1 DEF Enter, Reset
  <2>2. flash' = [locked |-> FALSE, mode |-> "none", bank |-> 0, page |-> 0,
                  busy |-> << >>]
    BY <1>1, <2>1 DEF Enter
  <2>3. /\ cpu' = [primask |-> TRUE, icache |-> cpu.icache]
        /\ saved' = [primask |-> cpu.primask, icache |-> saved.icache]
    BY <1>1 DEF Enter
  <2>4. UNCHANGED <<target, call, found>> /\ pc' = "prepare"
    BY <1>1 DEF Enter
  <2> QED BY <2>1, <2>2, <2>3, <2>4
<1>2. CASE PrepareErase
  BY <1>2 DEF PrepareErase, CacheOff, Erasing
<1>3. CASE PrepareWrite
  BY <1>3 DEF PrepareWrite, CacheOff, Erasing
<1>4. CASE Start
  BY <1>4 DEF Start
<1>5. CASE Wait
  BY <1>5 DEF Wait
<1>6. CASE Clear
  BY <1>6 DEF Clear
<1>7. CASE Leave
  BY <1>7 DEF Leave, Return, Reset
<1> QED BY <1>1, <1>2, <1>3, <1>4, <1>5, <1>6, <1>7

LEMMA Ch32StepIInv ==
  ASSUME ~VendorTimeouts, IInv,
         Unlock \/ VendorStart \/ CheckStatus \/ LockAndVerify
  PROVE  IInv'
<1> USE DEF IInv, Shapes, Control, Stm32, Others, Busy, setup, history
<1>1. CASE Unlock
  <2>1. /\ flash.mode = "none" /\ flash.bank = 0 /\ flash.page = 0
        /\ flash.busy = << >>
        /\ cpu = found /\ target = "ch32" /\ pc = "enter"
    BY <1>1 DEF Unlock, Reset
  <2>2. flash' = [locked |-> FALSE, mode |-> "none", bank |-> 0, page |-> 0,
                  busy |-> << >>]
    BY <1>1, <2>1 DEF Unlock
  <2>3. UNCHANGED <<target, call, found, cpu, saved>> /\ pc' = "start"
    BY <1>1 DEF Unlock
  <2> QED BY <2>1, <2>2, <2>3
<1>2. CASE VendorStart
  BY <1>2 DEF VendorStart
<1>3. CASE CheckStatus
  BY <1>3 DEF CheckStatus
<1>4. CASE LockAndVerify
  BY <1>4 DEF LockAndVerify, Return, Reset
<1> QED BY <1>1, <1>2, <1>3, <1>4

LEMMA OtherStepIInv ==
  ASSUME IInv,
         Linux \/ LinuxReturn \/ Finish \/ PowerCut \/ UNCHANGED vars
  PROVE  IInv'
<1> USE DEF IInv, Shapes, Control, Stm32, Others, Busy, setup, history
<1>1. CASE Linux
  BY <1>1 DEF Linux, Reset
<1>2. CASE LinuxReturn
  BY <1>2 DEF LinuxReturn, Return, Reset
<1>3. CASE Finish
  BY <1>3 DEF Finish, Reset
<1>4. CASE PowerCut
  BY <1>4 DEF PowerCut, Reset
<1>5. CASE UNCHANGED vars
  BY <1>5 DEF vars
<1> QED BY <1>1, <1>2, <1>3, <1>4, <1>5

LEMMA NextIInv ==
  ASSUME ~VendorTimeouts
  PROVE  IInv /\ [Next]_vars => IInv'
BY CallIInv, Stm32StepIInv, Ch32StepIInv, OtherStepIInv DEF Next, Driver

LEMMA IInvProtects == IInv => Restored /\ Undisturbed
BY DEF IInv, Control, Stm32, Others, Restored, Undisturbed, Busy

LEMMA Invariant ==
  ASSUME ~VendorTimeouts
  PROVE  Spec => []IInv
<1>1. Init => IInv
  BY InitIInv
<1>2. IInv /\ [Next]_vars => IInv'
  BY NextIInv
<1> QED BY <1>1, <1>2, PTL DEF Spec

(* Every driver, on a flash of any size and whatever fails, leaves the     *)
(* controller locked and idle, and PRIMASK and the instruction cache as it *)
(* has found them.                                                         *)
THEOREM DriversRestore ==
  ASSUME ~VendorTimeouts
  PROVE  Spec => []Restored
<1>1. IInv => Restored
  BY IInvProtects
<1> QED BY <1>1, Invariant, PTL

(* While a flash of any size is erased or programmed its controller stays  *)
(* unlocked in the mode of the operation, and on an STM32 neither the      *)
(* interrupts nor the instruction cache are on.                            *)
THEOREM OperationsUndisturbed ==
  ASSUME ~VendorTimeouts
  PROVE  Spec => []Undisturbed
<1>1. IInv => Undisturbed
  BY IInvProtects
<1> QED BY <1>1, Invariant, PTL

-----------------------------------------------------------------------------
(* After an error of the flash, or a timeout, the loops of a CH32V307 are  *)
(* left, with the error in the local variable that is returned.            *)
Stopping ==
  /\ flash = [locked |-> flash.locked, mode |-> flash.mode,
              bank |-> flash.bank, page |-> flash.page, busy |-> flash.busy]
  /\ pc # "idle" => result = "none"
  /\ target = "ch32" /\ error => ~Busy
  /\ target = "ch32" /\ pc = "leave" /\ (error \/ Busy) => status # 0
  /\ target = "linux" => ~Busy

LEMMA NextStopping == Stopping /\ [Next]_vars => Stopping'
<1> SUFFICES ASSUME Stopping, [Next]_vars PROVE Stopping'
  OBVIOUS
<1> USE DEF Stopping, Busy, setup, history
<1>1. CASE Call
  <2>1. PICK kind \in {"erase", "write"}, size \in 0..MaxSize,
             addr \in 0..(FlashBase + N * Granules) :
          Decline(kind, addr, size) \/ Accept(kind, addr, size)
    BY <1>1 DEF Call
  <2> QED BY <2>1 DEF Decline, Accept
<1>2. CASE Enter \/ PrepareErase \/ PrepareWrite \/ Start \/ Wait \/ Clear
             \/ Leave
  BY <1>2 DEF Enter, PrepareErase, PrepareWrite, Start, Wait, Clear, Leave,
              Return
<1>3. CASE Unlock \/ VendorStart
  <2>1. CASE Unlock
    BY <2>1 DEF Unlock
  <2>2. CASE VendorStart
    BY <2>2 DEF VendorStart
  <2> QED BY <1>3, <2>1, <2>2
<1>4. CASE CheckStatus
  BY <1>4 DEF CheckStatus
<1>5. CASE LockAndVerify \/ LinuxReturn
  BY <1>5 DEF LockAndVerify, LinuxReturn, Return
<1>6. CASE Linux
  BY <1>6 DEF Linux
<1>7. CASE Finish
  BY <1>7 DEF Finish
<1>8. CASE PowerCut
  BY <1>8 DEF PowerCut, Reset
<1>9. CASE UNCHANGED vars
  BY <1>9 DEF vars
<1> QED BY <1>1, <1>2, <1>3, <1>4, <1>5, <1>6, <1>7, <1>8, <1>9
        DEF Next, Driver

LEMMA StepStops ==
  ASSUME Stopping, Next, target = "ch32", pc # "idle", error
  PROVE  flash'.busy = << >> /\ result' # "ok"
<1> USE DEF Stopping, setup, history
<1>1. CASE Call
  BY <1>1 DEF Call, Decline, Accept
<1>2. CASE Enter \/ PrepareErase \/ PrepareWrite \/ Start \/ Wait \/ Clear
             \/ Leave \/ Linux \/ LinuxReturn
  BY <1>2 DEF Enter, PrepareErase, PrepareWrite, Start, Wait, Clear, Leave,
              Linux, LinuxReturn
<1>3. CASE Unlock \/ VendorStart
  BY <1>3 DEF Unlock, VendorStart, Busy
<1>4. CASE CheckStatus
  BY <1>4 DEF CheckStatus, Busy
<1>5. CASE LockAndVerify
  BY <1>5 DEF LockAndVerify, Return, Busy
<1>6. CASE Finish
  BY <1>6 DEF Finish
<1>7. CASE PowerCut
  BY <1>7 DEF PowerCut, Reset
<1> QED BY <1>1, <1>2, <1>3, <1>4, <1>5, <1>6, <1>7 DEF Next, Driver

(* A CH32V307 that has been told of an error starts nothing more, whatever *)
(* is left of a write or an erase, and does not say that it succeeded.     *)
THEOREM ErrorsStop == Spec => StopsAtError
<1>1. Init => Stopping
  BY DEF Init, Stopping, Reset, Busy
<1>2. Stopping /\ [Next]_vars =>
        [target = "ch32" /\ pc # "idle" /\ error =>
           /\ flash'.busy = << >>
           /\ result' # "ok"]_vars
  BY StepStops
<1> QED BY <1>1, <1>2, NextStopping, PTL DEF Spec, StopsAtError

-----------------------------------------------------------------------------
(* The drivers implement LftlCallbacks. Arithmetic of pages and banks.                                          *)

LEMMA DivMod ==
  ASSUME NEW a \in Nat, NEW m \in Nat \ {0}
  PROVE  /\ a \div m \in Nat /\ a % m \in 0..(m - 1)
         /\ a = (m * (a \div m)) + (a % m)
BY SMT

LEMMA Multiple ==
  ASSUME NEW a \in Nat, NEW m \in Nat \ {0}, a % m = 0
  PROVE  a \div m \in Nat /\ a = (a \div m) * m
BY DivMod, SMT

LEMMA DivMul ==
  ASSUME NEW k \in Nat, NEW m \in Nat \ {0}
  PROVE  (k * m) \div m = k
BY SMT

LEMMA MultiplesApart ==
  ASSUME NEW j \in Nat, NEW k \in Nat, NEW m \in Nat \ {0}, j * m < k * m
  PROVE  j < k /\ (j * m) + m <= k * m
BY SMT

LEMMA ModSmall ==
  ASSUME NEW x \in Nat, NEW n \in Nat \ {0}, x < 2 * n
  PROVE  x % n = IF x < n THEN x ELSE x - n
BY SMT

LEMMA Sizes ==
  /\ N \in Nat /\ BankUnits \in Nat /\ N = 2 * BankUnits
  /\ PageUnits \in Nat \ {0}
  /\ \E m \in Nat : BankUnits = m * PageUnits
<1>1. /\ N \in Nat /\ BankUnits \in Nat /\ N = 2 * BankUnits
      /\ PageUnits \in Nat \ {0}
  BY GeometryAssumption DEF BankUnits
<1>2. \E m \in Nat : BankUnits = m * PageUnits
  BY <1>1, GeometryAssumption, Multiple
<1> QED BY <1>1, <1>2

LEMMA PhysicalIs ==
  ASSUME NEW u \in Units
  PROVE  /\ u \in Nat /\ u < N
         /\ Physical(u) = IF ~swapped THEN u
                          ELSE IF u < BankUnits THEN u + BankUnits
                          ELSE u - BankUnits
<1>1. N \in Nat \ {0} /\ BankUnits \in Nat /\ N = 2 * BankUnits /\ u \in Nat
      /\ u < N
  BY Sizes DEF Units
<1>2. (u + BankUnits) % N =
        IF u + BankUnits < N THEN u + BankUnits ELSE (u + BankUnits) - N
  <2>1. u + BankUnits \in Nat /\ u + BankUnits < 2 * N
    BY <1>1
  <2> QED BY <1>1, <2>1, ModSmall
<1> QED BY <1>1, <1>2 DEF Physical

LEMMA PhysicalUnits ==
  ASSUME NEW u \in Units
  PROVE  Physical(u) \in Units
<1> QED BY PhysicalIs, Sizes DEF Units

LEMMA PhysicalInjective ==
  ASSUME NEW u \in Units, NEW v \in Units, Physical(u) = Physical(v)
  PROVE  u = v
<1> QED BY PhysicalIs, Sizes DEF Units

(* A page lies inside of a bank.                                           *)
LEMMA PageInBank ==
  ASSUME NEW u \in Units, NEW k \in Nat, u = k * PageUnits
  PROVE  /\ u < BankUnits => u + PageUnits <= BankUnits
         /\ u + PageUnits <= N
<1>1. PICK m \in Nat : BankUnits = m * PageUnits
  BY Sizes
<1>2. N = (2 * m) * PageUnits /\ 2 * m \in Nat
  BY <1>1, Sizes
<1>3. u < N
  BY PhysicalIs
<1>4. u < BankUnits => u + PageUnits <= BankUnits
  BY <1>1, MultiplesApart, Sizes
<1>5. u + PageUnits <= N
  BY <1>2, <1>3, MultiplesApart, Sizes
<1> QED BY <1>4, <1>5

LEMMA PageTogether ==
  ASSUME NEW u \in Units, NEW k \in Nat, u = k * PageUnits,
         NEW j \in 0..(PageUnits - 1)
  PROVE  u + j \in Units /\ Physical(u + j) = Physical(u) + j
<1>1. u \in Nat /\ u < N /\ j \in Nat /\ j < PageUnits
  BY PhysicalIs, Sizes
<1>2. u + j \in Units
  BY <1>1, PageInBank, Sizes DEF Units
<1> QED BY <1>1, <1>2, PhysicalIs, PageInBank, Sizes

(* The registers of an STM32 select the page of the address.               *)
LEMMA SelectsPage ==
  ASSUME NEW u \in Units, NEW k \in Nat, u = k * PageUnits, swapped \in BOOLEAN,
         NEW bank, bank = u \div BankUnits
  PROVE  (((bank + (IF swapped THEN 1 ELSE 0)) % 2) * BankUnits)
           + (((u - (bank * BankUnits)) \div PageUnits) * PageUnits)
         = Physical(u)
<1>1. u \in Nat /\ u < N /\ BankUnits \in Nat \ {0} /\ N = 2 * BankUnits
      /\ PageUnits \in Nat \ {0}
  BY PhysicalIs, Sizes
<1>2. PICK m \in Nat : BankUnits = m * PageUnits
  BY Sizes
<1>3. bank = IF u < BankUnits THEN 0 ELSE 1
  BY <1>1, SMT
<1>4. PICK r \in Nat : u - (bank * BankUnits) = r * PageUnits
  <2>1. CASE u < BankUnits
    BY <2>1, <1>1, <1>3
  <2>2. CASE ~(u < BankUnits)
    <3>1. u - (bank * BankUnits) = (k - m) * PageUnits
      BY <2>2, <1>1, <1>2, <1>3
    <3>2. k - m >= 0
      BY <2>2, <1>1, <1>2, SMT
    <3> QED BY <3>1, <3>2
  <2> QED BY <2>1, <2>2
<1>5. ((u - (bank * BankUnits)) \div PageUnits) * PageUnits
        = u - (bank * BankUnits)
  BY <1>1, <1>4, DivMul
<1>6. CASE u < BankUnits
  BY <1>1, <1>3, <1>5, <1>6, PhysicalIs
<1>7. CASE ~(u < BankUnits)
  BY <1>1, <1>3, <1>5, <1>7, PhysicalIs
<1> QED BY <1>6, <1>7

-----------------------------------------------------------------------------
(* What each action is for the contract.                                   *)

NotIdle == pc # "idle" /\ pc' # "idle" /\ call.kind \in {"erase", "write"}
DoneUnits == (IF pc = "busy" /\ ~Busy THEN i + 1 ELSE i) * Grain
Wanted(u) == IF Erasing THEN Blank ELSE u - call.first

LEMMA QuietStep ==
  ASSUME UNCHANGED <<setup, array, call, result, error>>, NotIdle,
         DoneUnits' = DoneUnits
  PROVE  UNCHANGED Promise!vars
<1>1. \A u \in Units : Read(u)' = Read(u)
  BY DEF setup, Read, Physical
<1> QED BY <1>1 DEF Promise!vars, DoneUnits, NotIdle

LEMMA CompleteStep ==
  ASSUME UNCHANGED <<setup, call, result, error>>, NotIdle,
         DoneUnits < DoneUnits', DoneUnits' <= call.count,
         \A u \in Units :
           Read(u)' = IF call.first + DoneUnits <= u /\ u < call.first + DoneUnits'
                        THEN Wanted(u) ELSE Read(u)
  PROVE  Promise!Complete
<1>1. call.kind # "none"
  BY DEF NotIdle
<1> QED BY <1>1 DEF Promise!Complete, Promise!Units, Units, Promise!Goal, Wanted, Erasing,
           DoneUnits, NotIdle, Promise!NoOp, Promise!Blank, Blank

LEMMA FalterStep ==
  ASSUME UNCHANGED <<setup, call, result>>, NotIdle, error' = TRUE,
         \A u \in Units :
           \/ Read(u)' = Read(u)
           \/ /\ call.first <= u /\ u < call.first + call.count
              /\ Read(u)' \in {Wanted(u), Bad}
  PROVE  Promise!Falter
<1> DEFINE op == [kind |-> call.kind, first |-> call.first,
                  count |-> call.count, failed |-> error, done |-> DoneUnits]
           old == [u \in Units |-> Read(u)]
           new == [u \in Units |-> Read(u)']
<1>1. /\ op.kind = call.kind /\ op.kind # "none"
      /\ op.first = call.first /\ op.count = call.count
  BY DEF NotIdle
<1>2. \A u \in Units :
        \/ new[u] = old[u]
        \/ /\ op.first <= u /\ u < op.first + op.count
           /\ new[u] \in {IF op.kind = "erase" THEN Blank ELSE u - op.first,
                          Bad}
  BY <1>1 DEF Wanted, Erasing
<1>3. call.kind' = call.kind /\ call.first' = call.first
      /\ call.count' = call.count
  OBVIOUS
<1> QED BY <1>1, <1>2, <1>3
        DEF Promise!Falter, Promise!Units, Units, Promise!Goal, NotIdle,
            Promise!NoOp, Promise!Blank, Blank, Promise!Bad, Bad,
            Promise!InRange, DoneUnits

LEMMA ReturnStep ==
  ASSUME UNCHANGED <<setup, array>>, pc # "idle", pc' = "idle",
         call.kind \in {"erase", "write"},
         \/ /\ result' = "ok"
            /\ \A u \in Units :
                 call.first <= u /\ u < call.first + call.count =>
                   Read(u) = Wanted(u)
         \/ result' = "error" /\ error
  PROVE  Promise!Succeed \/ Promise!Fail
<1>1. \A u \in Units : Read(u)' = Read(u)
  BY DEF setup, Read, Physical
<1> QED BY <1>1 DEF Promise!Succeed, Promise!Fail, Promise!Units, Units, Promise!Goal, Wanted,
           Erasing, Promise!NoOp, Promise!Blank, Blank, Promise!InRange

-----------------------------------------------------------------------------
(* The inductive invariant.                                                *)

(* The range of a call lies in the flash and is made of whole pages.       *)
Range ==
  /\ swapped \in BOOLEAN /\ (swapped => target = "stm32")
  /\ i \in Nat
  /\ pc # "idle" =>
       /\ call.first \in Nat /\ call.count \in Nat
       /\ call.first + call.count <= N
       /\ Steps \in Nat /\ call.count = Steps * Grain
       /\ target # "linux" =>
            Steps > 0 /\ \E k \in Nat : call.first = k * Grain

(* How far the call is.                                                    *)
Position ==
  /\ pc = "enter" => i = 0 /\ ~error
  /\ pc \in {"enter", "prepare", "start", "busy"} /\ target # "linux" =>
       i < Steps
  /\ pc \in {"enter", "prepare", "start", "busy", "clear"} => status = 0
  /\ pc = "clear" => i <= Steps /\ (i < Steps => Erasing)
  /\ pc = "leave" => i = Steps \/ (target = "ch32" /\ error)

(* What the controller is told to do is the next page or unit.             *)
Selection ==
  /\ target = "stm32" /\ pc = "start" /\ Erasing =>
       (flash.bank * BankUnits) + (flash.page * PageUnits) = Physical(At)
  /\ Busy =>
       /\ flash.mode = call.kind
       /\ flash.busy = [p \in {Physical(u) : u \in At..(At + Grain - 1)} |->
                          IF Erasing THEN Blank ELSE i]

(* Unless the flash has reported an error, what is done is done.           *)
Progress ==
  /\ error \in BOOLEAN
  /\ pc # "idle" /\ ~error =>
       \A u \in Units :
         call.first <= u /\ u < call.first + DoneUnits => Read(u) = Wanted(u)
  /\ target = "stm32" /\ pc # "idle" /\ Erasing => ~error
  /\ target = "ch32" /\ pc = "start" => ~error
  /\ target # "stm32" /\ pc = "leave" => (status = 0 <=> ~error)

CInv == IInv /\ Range /\ Position /\ Selection /\ Progress

(* What follows from the invariant while a call is executed.               *)
LEMMA InCall ==
  ASSUME CInv, pc # "idle"
  PROVE  /\ call.kind \in {"erase", "write"}
         /\ Grain = (IF Erasing THEN PageUnits ELSE 1)
         /\ Grain \in Nat \ {0} /\ Steps \in Nat /\ i \in Nat
         /\ call.first \in Nat /\ call.count \in Nat
         /\ call.first + call.count <= N /\ call.count = Steps * Grain
         /\ At = call.first + (i * Grain) /\ At \in Nat /\ i * Grain \in Nat
BY Sizes DEF CInv, Range, IInv, Control, Grain, At

(* The next page or unit is in the range.                                  *)
LEMMA NextInRange ==
  ASSUME CInv, pc # "idle", i < Steps
  PROVE  /\ (i + 1) * Grain = (i * Grain) + Grain
         /\ At + Grain <= call.first + call.count
         /\ At \in Units
<1>1. /\ Grain \in Nat \ {0} /\ Steps \in Nat /\ i \in Nat
      /\ call.first \in Nat /\ call.count \in Nat /\ N \in Nat
      /\ call.first + call.count <= N /\ call.count = Steps * Grain
      /\ At = call.first + (i * Grain) /\ i * Grain \in Nat
  BY InCall, Sizes
<1>2. (i + 1) * Grain <= Steps * Grain
  BY <1>1, SMT
<1>3. (i + 1) * Grain = (i * Grain) + Grain
  BY <1>1, SMT
<1> QED BY <1>1, <1>2, <1>3 DEF Units

(* What is selected lies together in the flash.                            *)
LEMMA AtPage ==
  ASSUME CInv, pc # "idle", i < Steps, target # "linux"
  PROVE  /\ \E k \in Nat : At = k * Grain
         /\ \A j \in 0..(Grain - 1) :
              At + j \in Units /\ Physical(At + j) = Physical(At) + j
<1>1. /\ Grain \in Nat \ {0} /\ i \in Nat
      /\ At = call.first + (i * Grain) /\ At \in Units
      /\ Grain = (IF Erasing THEN PageUnits ELSE 1)
  BY InCall, NextInRange
<1>2. PICK k \in Nat : call.first = k * Grain
  BY DEF CInv, Range
<1>3. At = (k + i) * Grain /\ k + i \in Nat
  BY <1>1, <1>2, SMT
<1>4. \A j \in 0..(Grain - 1) :
        At + j \in Units /\ Physical(At + j) = Physical(At) + j
  <2>1. CASE Erasing
    BY <1>1, <1>3, <2>1, PageTogether
  <2>2. CASE ~Erasing
    <3>1. Grain = 1 /\ At \in Nat
      BY <1>1, <2>2, PhysicalIs
    <3>2. Physical(At) \in Nat
      BY <1>1, PhysicalUnits, PhysicalIs
    <3>3. \A j \in 0..(Grain - 1) : j = 0 /\ At + j = At
      BY <3>1
    <3> QED BY <1>1, <3>2, <3>3
  <2> QED BY <2>1, <2>2
<1> QED BY <1>3, <1>4

-----------------------------------------------------------------------------
(* The steps between two operations of the flash.                          *)

LEMMA QuietInv ==
  ASSUME CInv, IInv', NotIdle,
         UNCHANGED <<setup, array, call, result, error>>,
         i' \in Nat, DoneUnits' = DoneUnits, Position', Selection',
         target = "ch32" /\ pc' = "start" => ~error,
         target # "stm32" /\ pc' = "leave" => (status' = 0 <=> ~error)
  PROVE  CInv' /\ UNCHANGED Promise!vars
<1>1. /\ UNCHANGED <<target, swapped, array, call, error>>
      /\ pc # "idle"
  BY DEF setup, NotIdle
<1>2. Range'
  BY <1>1 DEF CInv, Range, Steps, Grain, Erasing
<1>3. /\ \A u \in Units : Read(u)' = Read(u) /\ Wanted(u)' = Wanted(u)
      /\ Erasing' = Erasing
  BY <1>1 DEF Read, Physical, Wanted, Erasing
<1>4. Progress'
  <2> HIDE DEF DoneUnits
  <2>1. Progress
    BY DEF CInv
  <2> QED BY <1>1, <1>3, <2>1 DEF Progress
<1>5. UNCHANGED Promise!vars
  BY QuietStep
<1> QED BY <1>2, <1>4, <1>5 DEF CInv

LEMMA SameCall ==
  ASSUME call' = call
  PROVE  Grain' = Grain /\ Steps' = Steps /\ Erasing' = Erasing
BY DEF Grain, Steps, Erasing

LEMMA EnterContract ==
  ASSUME CInv, IInv', Enter \/ Unlock
  PROVE  CInv' /\ UNCHANGED Promise!vars
<1>0. ~error
  BY DEF Enter, Unlock, CInv, Position
<1>1. /\ UNCHANGED <<setup, array, call, i, status, result, error>>
      /\ pc = "enter" /\ pc' \in {"prepare", "start"}
      /\ pc' = "start" => target = "ch32"
  BY <1>0 DEF Enter, Unlock, CInv, Progress
<1>2. NotIdle /\ i' \in Nat
  BY <1>1, InCall DEF NotIdle
<1>3. DoneUnits' = DoneUnits
  BY <1>1, SameCall DEF DoneUnits
<1>4. Position'
  BY <1>1, SameCall DEF CInv, Position, setup
<1>5. Selection'
  BY <1>1 DEF Selection, IInv, Control, setup
<1>6. ~error
  BY <1>1 DEF CInv, Position
<1> QED BY <1>1, <1>2, <1>3, <1>4, <1>5, <1>6, QuietInv

LEMMA PrepareContract ==
  ASSUME CInv, IInv', PrepareErase \/ PrepareWrite
  PROVE  CInv' /\ UNCHANGED Promise!vars
<1>1. /\ UNCHANGED <<setup, array, call, i, status, result, error>>
      /\ pc = "prepare" /\ pc' = "start" /\ target = "stm32" /\ target' = target
      /\ swapped' = swapped
  BY DEF PrepareErase, PrepareWrite, setup
<1>2. NotIdle /\ i' \in Nat /\ i < Steps
  BY <1>1, InCall DEF NotIdle, CInv, Position
<1>3. DoneUnits' = DoneUnits
  BY <1>1, SameCall DEF DoneUnits
<1>4. Position'
  BY <1>1, SameCall DEF CInv, Position
<1>5. Selection'
  <2>1. ~Busy'
    BY <1>1 DEF IInv, Control
  <2>2. At' = At /\ Physical(At)' = Physical(At) /\ Erasing' = Erasing
    BY <1>1 DEF At, Grain, Erasing, Physical
  <2>3. CASE ~Erasing
    BY <2>1, <2>2, <2>3 DEF Selection
  <2>4. CASE Erasing
    <3>1. /\ flash'.bank = ((At \div BankUnits)
                             + (IF swapped THEN 1 ELSE 0)) % 2
          /\ flash'.page = (At - ((At \div BankUnits) * BankUnits))
                             \div PageUnits
      BY <2>4 DEF PrepareErase, PrepareWrite, IInv, Shapes
    <3>2. /\ Grain = PageUnits /\ At \in Units /\ swapped \in BOOLEAN
          /\ \E k \in Nat : At = k * Grain
      BY <1>1, <1>2, <2>4, InCall, NextInRange, AtPage DEF CInv, Range
    <3>3. (flash'.bank * BankUnits) + (flash'.page * PageUnits) = Physical(At)
      BY <3>1, <3>2, SelectsPage
    <3> QED BY <2>1, <2>2, <3>3 DEF Selection, BankUnits
  <2> QED BY <2>3, <2>4
<1> QED BY <1>1, <1>2, <1>3, <1>4, <1>5, QuietInv

(* The units that are started, where they are in the flash.                *)
LEMMA StartedUnits ==
  ASSUME CInv, pc = "start"
  PROVE  /\ i < Steps /\ target \in {"stm32", "ch32"}
         /\ {Physical(u) : u \in At..(At + Grain - 1)}
              = Physical(At)..(Physical(At) + Grain - 1)
         /\ Physical(At) \in Nat
<1>1. target \in {"stm32", "ch32"} /\ i < Steps
  BY DEF CInv, IInv, Control, Position
<1>2. /\ At \in Units /\ At \in Nat /\ Grain \in Nat \ {0}
      /\ \A j \in 0..(Grain - 1) : Physical(At + j) = Physical(At) + j
  BY <1>1, InCall, NextInRange, AtPage
<1>3. Physical(At) \in Nat
  BY <1>2, PhysicalUnits, PhysicalIs
<1>4. \A u \in At..(At + Grain - 1) :
        Physical(u) \in Physical(At)..(Physical(At) + Grain - 1)
  <2> TAKE u \in At..(At + Grain - 1)
  <2>1. u - At \in 0..(Grain - 1) /\ u = At + (u - At)
    BY <1>2
  <2> QED BY <1>2, <1>3, <2>1
<1>5. \A p \in Physical(At)..(Physical(At) + Grain - 1) :
        \E u \in At..(At + Grain - 1) : p = Physical(u)
  <2> TAKE p \in Physical(At)..(Physical(At) + Grain - 1)
  <2> DEFINE j == p - Physical(At)
  <2>1. j \in 0..(Grain - 1) /\ p = Physical(At) + j
    BY <1>2, <1>3
  <2>2. At + j \in At..(At + Grain - 1) /\ p = Physical(At + j)
    BY <1>2, <2>1
  <2> QED BY <2>2
<1> QED BY <1>1, <1>3, <1>4, <1>5

LEMMA StartContract ==
  ASSUME ~VendorTimeouts, CInv, IInv', Start \/ VendorStart
  PROVE  CInv' /\ UNCHANGED Promise!vars
<1>1. /\ UNCHANGED <<setup, array, call, i, status, result, error>>
      /\ pc = "start" /\ pc' = "busy" /\ target' = target
      /\ swapped' = swapped /\ target \in {"stm32", "ch32"}
  BY DEF Start, VendorStart, setup
<1>2. /\ NotIdle /\ i' \in Nat /\ i < Steps
      /\ Grain \in Nat \ {0}
      /\ Grain = (IF Erasing THEN PageUnits ELSE 1)
      /\ At \in Units
  BY <1>1, InCall, NextInRange DEF NotIdle, CInv, Position
<1>3. /\ {Physical(u) : u \in At..(At + Grain - 1)}
           = Physical(At)..(Physical(At) + Grain - 1)
      /\ Physical(At) \in Nat
  BY <1>1, StartedUnits
<1>4. flash'.busy = [p \in Physical(At)..(Physical(At) + Grain - 1) |->
                       IF Erasing THEN Blank ELSE i]
  <2>1. CASE Start /\ Erasing
    <3>1. SelectedPage = Physical(At)..(Physical(At) + PageUnits - 1)
      BY <2>1 DEF SelectedPage, CInv, Selection, Start
    <3>2. flash'.busy = [p \in SelectedPage |-> Blank]
      BY <2>1 DEF Start, CInv, IInv, Shapes
    <3> QED BY <1>2, <2>1, <3>1, <3>2
  <2>2. CASE Start /\ ~Erasing
    <3>1. flash'.busy = [p \in {Physical(At)} |-> i]
      BY <2>2 DEF Start, CInv, IInv, Shapes
    <3>2. {Physical(At)} = Physical(At)..(Physical(At) + Grain - 1)
      BY <1>2, <1>3, <2>2
    <3> QED BY <2>2, <3>1, <3>2
  <2>3. CASE VendorStart
    <3>1. Physical(At) = At
      BY <1>2, <2>3, PhysicalIs DEF VendorStart, CInv, Range
    <3>2. flash'.busy = IF Erasing
                          THEN [p \in At..(At + PageUnits - 1) |-> Blank]
                          ELSE [p \in {At} |-> i]
      BY <2>3 DEF VendorStart, CInv, IInv, Shapes
    <3>3. ~Erasing => {At} = At..(At + Grain - 1)
      BY <1>2, <1>3, <3>1
    <3> QED BY <1>2, <3>1, <3>2, <3>3
  <2> QED BY <2>1, <2>2, <2>3
<1>5. Busy'
  <2>1. Physical(At) \in DOMAIN flash'.busy
    BY <1>2, <1>3, <1>4
  <2> QED BY <2>1 DEF Busy
<1>6. DoneUnits' = DoneUnits
  BY <1>1, <1>5, SameCall DEF DoneUnits
<1>7. Position'
  BY <1>1, SameCall DEF CInv, Position
<1>8. /\ At' = At /\ Grain' = Grain /\ Erasing' = Erasing
      /\ \A u : Physical(u)' = Physical(u)
  BY <1>1 DEF At, Grain, Erasing, Physical
<1>9. flash'.mode = call'.kind
  BY <1>1, <1>5, NextIInv DEF IInv, Stm32, Others
<1>10. Selection'
  BY <1>1, <1>3, <1>4, <1>8, <1>9 DEF Selection
<1> QED BY <1>1, <1>2, <1>6, <1>7, <1>10, QuietInv

LEMMA WaitContract ==
  ASSUME ~VendorTimeouts, CInv, IInv', Wait \/ CheckStatus
  PROVE  CInv' /\ (Promise!Falter \/ UNCHANGED Promise!vars)
<1>1. /\ UNCHANGED <<setup, array, call, result, error>>
      /\ UNCHANGED <<target, swapped>>
      /\ pc = "busy" /\ ~Busy /\ pc' \in {"start", "clear", "leave"}
      /\ target \in {"stm32", "ch32"}
      /\ pc' = "leave" => target = "ch32"
  BY DEF Wait, CheckStatus, setup, CInv, IInv, Control, Progress
<1>2. /\ NotIdle /\ i \in Nat /\ i < Steps /\ Steps \in Nat
      /\ status = 0 /\ error \in BOOLEAN
  BY <1>1, InCall DEF NotIdle, CInv, Position, Progress
<1>3. ~Busy'
  BY <1>1 DEF IInv, Control
<1>4. CASE i' = i + 1
  <2>1. DoneUnits' = DoneUnits /\ i' \in Nat
    BY <1>1, <1>2, <1>4, SameCall DEF DoneUnits
  <2>2. /\ status' = 0
        /\ pc' = "start" =>
             /\ i' < Steps
             /\ target = "stm32" => ~Erasing
             /\ target = "ch32" => ~error
        /\ pc' = "clear" => i' <= Steps /\ (i' < Steps => Erasing)
        /\ pc' = "leave" => i' = Steps /\ ~error
    <3>1. CASE Wait
      BY <1>1, <1>2, <1>4, <3>1 DEF Wait
    <3>2. CASE CheckStatus
      <4>1. ~error /\ status' = status
        BY <1>2, <1>4, <3>2 DEF CheckStatus
      <4>2. /\ pc' = (IF i' = Steps THEN "leave" ELSE "start")
            /\ target = "ch32"
        BY <4>1, <3>2 DEF CheckStatus
      <4> QED BY <1>1, <1>2, <1>4, <4>1, <4>2
    <3> QED BY <3>1, <3>2
  <2>3. Position'
    BY <1>1, <1>2, <2>2, SameCall DEF Position
  <2>4. Selection'
    BY <1>1, <1>3, <2>2, SameCall DEF Selection
  <2> QED BY <1>1, <1>2, <2>1, <2>2, <2>3, <2>4, QuietInv
<1>5. CASE i' # i + 1
  <2>1. /\ target = "ch32" /\ error = TRUE /\ i' = i /\ pc' = "leave"
        /\ status' # 0
    BY <1>2, <1>5 DEF Wait, CheckStatus
  <2>2. CInv'
    <3>1. Range'
      BY <1>1, <1>2, <2>1, SameCall DEF CInv, Range
    <3>2. Position'
      BY <1>1, <2>1 DEF Position
    <3>3. Selection'
      BY <1>3, <2>1 DEF Selection
    <3>4. Progress'
      BY <1>1, <2>1 DEF Progress
    <3> QED BY <3>1, <3>2, <3>3, <3>4 DEF CInv
  <2>3. \A u \in Units : Read(u)' = Read(u)
    BY <1>1 DEF Read, Physical
  <2>4. Promise!Falter
    BY <1>1, <1>2, <2>1, <2>3, FalterStep
  <2> QED BY <2>2, <2>4
<1> QED BY <1>4, <1>5

LEMMA ClearContract ==
  ASSUME CInv, IInv', Clear
  PROVE  CInv' /\ UNCHANGED Promise!vars
<1>1. /\ UNCHANGED <<setup, array, call, i, status, result, error>>
      /\ UNCHANGED <<target, swapped>>
      /\ pc = "clear" /\ pc' = IF i < Steps THEN "prepare" ELSE "leave"
      /\ target = "stm32"
  BY DEF Clear, setup
<1>2. /\ NotIdle /\ i \in Nat /\ i <= Steps /\ Steps \in Nat
      /\ status = 0 /\ pc' \in {"prepare", "leave"}
  BY <1>1, InCall DEF NotIdle, CInv, Position
<1>3. DoneUnits' = DoneUnits
  BY <1>1, <1>2, SameCall DEF DoneUnits
<1>4. Position'
  BY <1>1, <1>2, SameCall DEF Position
<1>5. Selection'
  BY <1>1, <1>2 DEF Selection, IInv, Control
<1> QED BY <1>1, <1>2, <1>3, <1>4, <1>5, QuietInv

-----------------------------------------------------------------------------
(* The end of a call.                                                      *)

LEMMA IdleInv ==
  ASSUME CInv, IInv', UNCHANGED setup, pc' = "idle", i' = 0,
         error' \in BOOLEAN
  PROVE  CInv'
<1>1. UNCHANGED <<target, swapped>>
  BY DEF setup
<1>2. Range'
  BY <1>1 DEF CInv, Range
<1>3. Position' /\ Selection' /\ Progress'
  BY DEF Position, Selection, Progress, IInv, Control
<1> QED BY <1>2, <1>3 DEF CInv

(* A range that was worked through without an error is as it should be.    *)
LEMMA AllDone ==
  ASSUME CInv, pc = "leave", ~error
  PROVE  /\ \A u \in Units :
              call.first <= u /\ u < call.first + call.count =>
                Read(u) = Wanted(u)
         /\ ~Erasing => Verified
<1>1. /\ call.count = Steps * Grain /\ call.first \in Nat
      /\ call.count \in Nat /\ call.first + call.count <= N /\ N \in Nat
  BY InCall, Sizes
<1>2. DoneUnits = call.count
  BY <1>1 DEF CInv, Position, DoneUnits
<1>3. \A u \in Units :
        call.first <= u /\ u < call.first + call.count => Read(u) = Wanted(u)
  BY <1>2 DEF CInv, Progress
<1>4. ASSUME ~Erasing, NEW u \in 0..(call.count - 1)
      PROVE  Read(call.first + u) = u
  <2>1. /\ call.first + u \in Units /\ call.first <= call.first + u
        /\ call.first + u < call.first + call.count
        /\ u \in Nat
    BY <1>1 DEF Units
  <2>2. Read(call.first + u) = (call.first + u) - call.first
    BY <1>3, <1>4, <2>1 DEF Wanted
  <2> QED BY <1>1, <2>1, <2>2
<1> QED BY <1>3, <1>4 DEF Verified

LEMMA VerifiedWanted ==
  ASSUME CInv, pc # "idle", ~Erasing, Verified
  PROVE  \A u \in Units :
           call.first <= u /\ u < call.first + call.count => Read(u) = Wanted(u)
<1> SUFFICES ASSUME NEW u \in Units,
                    call.first <= u, u < call.first + call.count
             PROVE  Read(u) = Wanted(u)
  OBVIOUS
<1>1. call.first \in Nat /\ call.count \in Nat /\ u \in Nat
  BY InCall, PhysicalIs
<1>2. u - call.first \in 0..(call.count - 1)
      /\ call.first + (u - call.first) = u
  BY <1>1
<1> QED BY <1>2 DEF Verified, Wanted

LEMMA ReturnContract ==
  ASSUME CInv, IInv', Leave \/ LockAndVerify \/ LinuxReturn
  PROVE  CInv' /\ (Promise!Succeed \/ Promise!Fail)
<1>1. /\ UNCHANGED <<setup, array, error>>
      /\ pc = "leave" /\ pc' = "idle" /\ i' = 0
  BY DEF Leave, LockAndVerify, LinuxReturn, Return
<1>2. /\ call.kind \in {"erase", "write"} /\ error \in BOOLEAN
  BY <1>1, InCall DEF CInv, Progress
<1>3. CInv'
  BY <1>1, <1>2, IdleInv
<1>4. \/ /\ result' = "ok"
         /\ ~error \/ (~Erasing /\ Verified)
      \/ result' = "error" /\ error
  <2>1. CASE Leave
    <3>1. Erasing => ~error
      BY <2>1 DEF Leave, CInv, Progress
    <3>2. result' = IF Erasing \/ Verified THEN "ok" ELSE "error"
      BY <2>1 DEF Leave, Return
    <3> QED BY <1>1, <1>2, <3>1, <3>2, AllDone
  <2>2. CASE LockAndVerify
    <3>1. status = 0 <=> ~error
      BY <1>1, <2>2 DEF LockAndVerify, CInv, Progress
    <3>2. result' = IF status # 0 THEN "error"
                    ELSE IF Erasing \/ Verified THEN "ok" ELSE "error"
      BY <2>2 DEF LockAndVerify, Return
    <3> QED BY <1>1, <1>2, <3>1, <3>2, AllDone
  <2>3. CASE LinuxReturn
    <3>1. status = 0 <=> ~error
      BY <1>1, <2>3 DEF LinuxReturn, CInv, Progress
    <3>2. result' = IF status = 0 THEN "ok" ELSE "error"
      BY <2>3 DEF LinuxReturn, Return
    <3> QED BY <1>2, <3>1, <3>2
  <2> QED BY <2>1, <2>2, <2>3
<1> QED BY <1>1, <1>2, <1>3, <1>4, AllDone, VerifiedWanted, ReturnStep

-----------------------------------------------------------------------------
(* The flash, and the loss of power.                                       *)

LEMMA BusyUnits ==
  ASSUME CInv, Busy
  PROVE  /\ pc = "busy" /\ i < Steps
         /\ At \in Nat /\ Grain \in Nat
         /\ call.first <= At /\ At + Grain <= call.first + call.count
         /\ \A u \in Units :
              /\ Physical(u) \in DOMAIN flash.busy
                   <=> At <= u /\ u < At + Grain
              /\ Physical(u) \in DOMAIN flash.busy =>
                   flash.busy[Physical(u)] = Wanted(u)
<1>1. pc = "busy" /\ target \in {"stm32", "ch32"}
  BY DEF CInv, IInv, Control
<1>2. i < Steps
  BY <1>1 DEF CInv, Position
<1>3. /\ Grain \in Nat \ {0} /\ Grain = (IF Erasing THEN PageUnits ELSE 1)
      /\ At = call.first + (i * Grain) /\ i * Grain \in Nat
      /\ At + Grain <= call.first + call.count
      /\ call.first + call.count <= N /\ call.first \in Nat /\ At \in Nat
      /\ call.count \in Nat /\ N \in Nat /\ i \in Nat
  BY <1>1, <1>2, InCall, NextInRange, Sizes
<1>4. flash.busy = [p \in {Physical(u) : u \in At..(At + Grain - 1)} |->
                      IF Erasing THEN Blank ELSE i]
  BY DEF CInv, Selection
<1>5. ASSUME NEW u \in Units
      PROVE  Physical(u) \in DOMAIN flash.busy <=> At <= u /\ u < At + Grain
  <2>1. u \in Nat
    BY PhysicalIs
  <2>2. ASSUME NEW w \in At..(At + Grain - 1), Physical(u) = Physical(w)
        PROVE  w = u
    <3>1. w \in Units
      BY <1>3 DEF Units
    <3> QED BY <2>2, <3>1, PhysicalInjective
  <2>3. At <= u /\ u < At + Grain <=> u \in At..(At + Grain - 1)
    BY <1>3, <2>1
  <2> QED BY <1>4, <2>2, <2>3
<1>6. ASSUME NEW u \in Units, Physical(u) \in DOMAIN flash.busy
      PROVE  flash.busy[Physical(u)] = Wanted(u)
  <2>1. At <= u /\ u < At + Grain /\ u \in Nat
    BY <1>5, <1>6, PhysicalIs
  <2>2. flash.busy[Physical(u)] = IF Erasing THEN Blank ELSE i
    BY <1>4, <1>6
  <2>3. ~Erasing => u - call.first = i
    BY <1>3, <2>1
  <2> QED BY <2>2, <2>3 DEF Wanted
<1>7. call.first <= At
  BY <1>3
<1> QED BY <1>1, <1>2, <1>3, <1>5, <1>6, <1>7

(* What the units read as after the operation, complete or spoiled.        *)
LEMMA ReadWith ==
  ASSUME CInv, UNCHANGED setup, NEW f, array' = With(f), NEW u \in Units
  PROVE  Read(u)' = IF Physical(u) \in DOMAIN f THEN f[Physical(u)] ELSE Read(u)
BY PhysicalUnits DEF Read, Physical, With, setup

LEMMA FinishContract ==
  ASSUME CInv, IInv', Finish, "stm32" \notin FaultyErases
  PROVE  CInv' /\ (Promise!Complete \/ Promise!Falter)
<1>1. /\ UNCHANGED <<setup, call, i, status, pc, result>>
      /\ UNCHANGED <<target, swapped>>
      /\ pc = "busy" /\ Busy /\ i < Steps /\ ~Busy'
  BY BusyUnits DEF Finish, setup, CInv, IInv, Shapes, Busy
<1>2. /\ NotIdle /\ i \in Nat /\ error \in BOOLEAN
      /\ Grain \in Nat \ {0} /\ At = call.first + (i * Grain)
      /\ (i + 1) * Grain = (i * Grain) + Grain /\ i * Grain \in Nat
      /\ At + Grain <= call.first + call.count
      /\ call.first \in Nat /\ call.count \in Nat
      /\ call.first + call.count <= N
  BY <1>1, InCall, NextInRange DEF NotIdle, CInv, Progress
<1>3. /\ Grain' = Grain /\ Steps' = Steps /\ Erasing' = Erasing
      /\ \A u : Wanted(u)' = Wanted(u)
  BY <1>1 DEF Grain, Steps, Erasing, Wanted
<1>4. DoneUnits = i * Grain /\ DoneUnits' = (i + 1) * Grain
  BY <1>1, <1>3 DEF DoneUnits
<1>5. Range' /\ Position' /\ Selection'
  <2>1. Range'
    BY <1>1, <1>2, <1>3 DEF CInv, Range
  <2>2. Position'
    BY <1>1, <1>3 DEF CInv, Position
  <2>3. Selection'
    BY <1>1 DEF Selection
  <2> QED BY <2>1, <2>2, <2>3
<1>6. CASE array' = With(flash.busy) /\ error' = error
  <2>1. \A u \in Units :
          Read(u)' = IF At <= u /\ u < At + Grain THEN Wanted(u) ELSE Read(u)
    BY <1>1, <1>6, BusyUnits, ReadWith
  <2>2. /\ DoneUnits < DoneUnits' /\ DoneUnits' <= call.count
        /\ At = call.first + DoneUnits
        /\ At + Grain = call.first + DoneUnits'
    BY <1>2, <1>4
  <2>3. Promise!Complete
    BY <1>1, <1>2, <1>6, <2>1, <2>2, CompleteStep
  <2>4. Progress'
    <3>1. \A u \in Units :
            ~error /\ call.first <= u /\ u < call.first + DoneUnits'
              => Read(u)' = Wanted(u)
      <4> SUFFICES ASSUME NEW u \in Units, ~error, call.first <= u,
                          u < call.first + DoneUnits'
                   PROVE  Read(u)' = Wanted(u)
        OBVIOUS
      <4>1. u < call.first + DoneUnits \/ (At <= u /\ u < At + Grain)
        BY <1>2, <2>2, PhysicalIs
      <4>2. u < call.first + DoneUnits => Read(u) = Wanted(u)
        BY <1>1 DEF CInv, Progress
      <4> QED BY <2>1, <4>1, <4>2
    <3>2. Progress
      BY DEF CInv
    <3> HIDE DEF DoneUnits
    <3> QED BY <1>1, <1>3, <1>6, <3>1, <3>2 DEF Progress
  <2> QED BY <1>5, <2>3, <2>4 DEF CInv
<1>7. CASE Failed
  <2>1. ~(target = "stm32" /\ Erasing)
    <3>1. flash.mode = call.kind
      BY <1>1 DEF CInv, Selection
    <3> QED BY <1>7, <3>1 DEF Failed, Erasing
  <2>2. error' = TRUE
    BY <1>7 DEF Failed
  <2>3. Progress'
    BY <1>1, <1>3, <2>1, <2>2 DEF Progress
  <2>4. \A u \in Units :
          \/ Read(u)' = Read(u)
          \/ /\ At <= u /\ u < At + Grain
             /\ Read(u)' = Bad
    <3>1. CASE array' = array
      BY <1>1, <3>1 DEF Read, Physical
    <3>2. CASE array' = With(Spoiled)
      <4>1. \A u \in Units :
              Read(u)' = IF Physical(u) \in DOMAIN Spoiled
                           THEN Spoiled[Physical(u)] ELSE Read(u)
        BY <1>1, <3>2, ReadWith
      <4> QED BY <1>1, <4>1, BusyUnits DEF Spoiled
    <3> QED BY <1>7, <3>1, <3>2 DEF Failed
  <2>5. \A u \in Units :
          \/ Read(u)' = Read(u)
          \/ /\ call.first <= u /\ u < call.first + call.count
             /\ Read(u)' \in {Wanted(u), Bad}
    BY <1>2, <2>4, PhysicalIs
  <2>6. Promise!Falter
    BY <1>1, <1>2, <2>2, <2>5, FalterStep
  <2> QED BY <1>5, <2>3, <2>6 DEF CInv
<1> QED BY <1>6, <1>7 DEF Finish, Done

LEMMA LinuxContract ==
  ASSUME CInv, IInv', Linux
  PROVE  CInv' /\ (Promise!Next \/ UNCHANGED Promise!vars)
<1>1. /\ UNCHANGED <<setup, call, result>>
      /\ UNCHANGED <<target, swapped>>
      /\ target = "linux" /\ pc = "enter" /\ pc' = "leave" /\ i' = Steps
  BY DEF Linux, setup
<1>2. PICK size \in 0..call.count :
        /\ array' =
             [u \in Units |->
                IF u < call.first \/ call.first + call.count <= u THEN array[u]
                ELSE IF u \in TornUnits(size) THEN Bad
                ELSE IF Erasing THEN Blank ELSE u - call.first]
        /\ status' = IF size > 0 THEN 255 ELSE 0
        /\ error' = (size # 0)
  BY DEF Linux
<1>torn. error' \in BOOLEAN /\ (error' <=> size > 0)
  <2>1. error' \in BOOLEAN /\ (error' <=> size # 0)
    BY <1>2, Zenon
  <2>2. size # 0 <=> size > 0
    BY InCall, <1>1
  <2> QED BY <2>1, <2>2
<1>3. /\ NotIdle /\ Steps \in Nat /\ call.count = Steps * Grain
      /\ call.first \in Nat /\ call.count \in Nat /\ i = 0 /\ ~error
      /\ Grain \in Nat /\ error \in BOOLEAN
  BY <1>1, InCall DEF NotIdle, CInv, Position, Progress
<1>4. /\ Grain' = Grain /\ Steps' = Steps /\ Erasing' = Erasing
      /\ \A u : Wanted(u)' = Wanted(u)
  BY <1>1 DEF Grain, Steps, Erasing, Wanted
<1>5. DoneUnits = 0 /\ DoneUnits' = call.count
  BY <1>1, <1>3, <1>4 DEF DoneUnits
<1>6. \A u \in Units :
        Read(u)' = IF call.first <= u /\ u < call.first + call.count
                     THEN IF u \in TornUnits(size) THEN Bad ELSE Wanted(u)
                     ELSE Read(u)
  <2> TAKE u \in Units
  <2>1. Physical(u) = u /\ Physical(u)' = u
    BY <1>1, PhysicalIs DEF CInv, Range, Physical
  <2> QED BY <1>2, <1>3, <2>1, PhysicalIs DEF Read, Wanted
<1>7. Range' /\ Position' /\ Selection'
  <2>1. Range'
    BY <1>1, <1>3, <1>4 DEF CInv, Range
  <2>2. Position' /\ Selection'
    BY <1>1, <1>4 DEF Position, Selection, IInv, Control
  <2> QED BY <2>1, <2>2
<1>8. Progress'
  <2>1. error' \in BOOLEAN /\ (status' = 0 <=> ~error')
    BY <1>2, <1>torn
  <2>2. ~error' => TornUnits(size) = {}
    BY <1>3, <1>torn DEF TornUnits
  <2>3. ~error' => \A u \in Units :
          call.first <= u /\ u < call.first + call.count => Read(u)' = Wanted(u)
    BY <1>6, <2>2
  <2> HIDE DEF DoneUnits
  <2> QED BY <1>1, <1>4, <1>5, <2>1, <2>3 DEF Progress
<1>9. CInv'
  BY <1>7, <1>8 DEF CInv
<1>10. CASE error' = TRUE
  BY <1>1, <1>3, <1>6, <1>9, <1>10, FalterStep DEF Promise!Next
<1>11. CASE error' = FALSE
  <2>1. TornUnits(size) = {} /\ error' = error
    BY <1>3, <1>11, <1>torn DEF TornUnits
  <2>2. \A u \in Units :
          Read(u)' = IF call.first + DoneUnits <= u
                        /\ u < call.first + DoneUnits'
                       THEN Wanted(u) ELSE Read(u)
    BY <1>3, <1>5, <1>6, <2>1
  <2>3. CASE call.count > 0
    BY <1>1, <1>3, <1>5, <1>9, <2>1, <2>2, <2>3, CompleteStep DEF Promise!Next
  <2>4. CASE call.count = 0
    <3>1. \A u \in Units : Read(u)' = Read(u)
      BY <1>3, <1>5, <2>2, <2>4, PhysicalIs
    <3>2. UNCHANGED <<error, result, call>> /\ DoneUnits' = DoneUnits
      BY <1>1, <1>5, <2>1, <2>4
    <3> QED BY <1>3, <1>9, <3>1, <3>2
            DEF Promise!vars, DoneUnits, NotIdle
  <2> QED BY <1>3, <2>3, <2>4
<1> QED BY <1>9, <1>10, <1>11, <1>torn

LEMMA PowerCutContract ==
  ASSUME CInv, IInv', PowerCut
  PROVE  CInv' /\ Promise!Cut
<1>1. /\ UNCHANGED setup /\ pc # "idle" /\ pc' = "idle" /\ i' = 0
      /\ array' = With(Spoiled) /\ error' = FALSE /\ result' = "none"
  BY DEF PowerCut, CInv, IInv, Control
<1>2. CInv'
  BY <1>1, IdleInv
<1>3. call.kind \in {"erase", "write"}
  BY <1>1, InCall
<1>4. \A u \in Units :
        Read(u)' = IF Physical(u) \in DOMAIN flash.busy THEN Bad ELSE Read(u)
  BY <1>1, ReadWith DEF Spoiled
<1>5. CASE ~Busy
  <2>1. \A u \in Units : Read(u)' = Read(u)
    BY <1>4, <1>5 DEF Busy
  <2> QED BY <1>1, <1>2, <2>1 DEF Promise!Cut, Promise!NoOp, Promise!Units, Units
<1>6. CASE Busy
  <2>1. /\ pc = "busy" /\ At = call.first + (i * Grain)
        /\ Grain = (IF Erasing THEN PageUnits ELSE 1)
        /\ At + Grain <= call.first + call.count /\ call.first <= At
        /\ call.first \in Nat /\ call.count \in Nat /\ Grain \in Nat
        /\ At \in Nat
    BY <1>1, <1>6, InCall, BusyUnits
  <2>2. \A u \in Units :
          \/ Read(u)' = Read(u)
          \/ /\ Read(u)' = Bad
             /\ At <= u /\ u < At + Grain
             /\ call.first <= u /\ u < call.first + call.count
    <3> TAKE u \in Units
    <3>1. u \in Nat
      BY PhysicalIs
    <3>2. Physical(u) \in DOMAIN flash.busy <=> At <= u /\ u < At + Grain
      BY <1>6, BusyUnits
    <3> QED BY <1>4, <2>1, <3>1, <3>2
  <2> DEFINE op == [kind |-> call.kind, first |-> call.first,
                    count |-> call.count, failed |-> error,
                    done |-> DoneUnits]
  <2>3. /\ op.kind = call.kind /\ op.first = call.first
        /\ op.count = call.count /\ op.done = i * Grain
    BY <1>6 DEF DoneUnits
  <2>4. \A u \in Units :
          \/ Read(u)' = Read(u)
          \/ /\ Read(u)' = Bad
             /\ op.first + op.done <= u
             /\ u < (op.first + op.done)
                      + (IF op.kind = "erase" THEN PageUnits ELSE 1)
             /\ op.first <= u /\ u < op.first + op.count
    BY <2>1, <2>2, <2>3 DEF Erasing
  <2> QED BY <1>1, <1>2, <2>4
          DEF Promise!Cut, Promise!NoOp, Promise!Units, Units,
              Promise!InFlight, Promise!InRange, Promise!Bad, Bad, DoneUnits
<1> QED BY <1>5, <1>6

-----------------------------------------------------------------------------
(* The beginning of a call.                                                *)

(* A call that is accepted names whole pages or units of the flash.        *)
LEMMA AcceptedRange ==
  ASSUME NEW kind \in {"erase", "write"}, NEW size \in 0..MaxSize,
         NEW addr \in 0..(FlashBase + N * Granules),
         ~Nothing(size), ~Refused(kind, addr, size),
         NEW first, first = (Resolved(addr) - FlashBase) \div Granules,
         NEW count, count = SizeOf(kind, size) \div Granules,
         NEW grain, grain = IF kind = "erase" THEN PageUnits ELSE 1
  PROVE  /\ first \in Nat /\ count \in Nat /\ first + count <= N
         /\ count \div grain \in Nat /\ count = (count \div grain) * grain
         /\ target # "linux" =>
              /\ count \div grain > 0
              /\ \E k \in Nat : first = k * grain
<1> DEFINE a == Resolved(addr)
<1>1. /\ N \in Nat /\ PageUnits \in Nat \ {0} /\ FlashBase \in Nat
      /\ Granules = 2 /\ PageGranules = PageUnits * 2
      /\ PageGranules \in Nat \ {0}
      /\ size \in Nat /\ addr \in Nat
  BY Sizes, GeometryAssumption DEF Granules, PageGranules
<1>2. a \in Nat /\ a >= FlashBase
  BY <1>1 DEF Resolved, Refused
<1>3. CASE kind = "erase"
  <2>1. a + (size * PageGranules) <= FlashBase + (N * 2)
    BY <1>1, <1>2, <1>3 DEF Refused, SizeOf
  <2>2. size * PageGranules = 2 * (size * PageUnits)
        /\ size * PageUnits \in Nat
    BY <1>1
  <2>3. count = size * PageUnits
    BY <1>1, <1>3, <2>2 DEF SizeOf
  <2>4. count \div grain = size
    BY <1>1, <1>3, <2>3, DivMul
  <2>5. first \in Nat /\ first + count <= N
    BY <1>1, <1>2, <2>1, <2>2, <2>3
  <2>6. ASSUME target # "linux"
        PROVE  size > 0 /\ \E k \in Nat : first = k * grain
    <3>1. a % PageGranules = 0 /\ FlashBase % PageGranules = 0
      BY <1>3, <2>6, GeometryAssumption DEF Refused, Alignment
    <3>2. /\ \E q \in Nat : a = q * PageGranules
          /\ \E r \in Nat : FlashBase = r * PageGranules
      <4> HIDE DEF a
      <4> QED BY <1>1, <1>2, <3>1, Multiple
    <3> PICK q \in Nat : a = q * PageGranules
      BY <3>2
    <3> PICK r \in Nat : FlashBase = r * PageGranules
      BY <3>2
    <3>3. a - FlashBase = 2 * ((q - r) * PageUnits)
      BY <1>1
    <3>4. q - r >= 0
      BY <1>1, <1>2, SMT
    <3>5. first = (q - r) * PageUnits
      BY <1>1, <3>3
    <3>6. size > 0
      BY <1>1, <2>6 DEF Nothing
    <3> QED BY <1>3, <3>4, <3>5, <3>6
  <2>7. /\ count \in Nat /\ count \div grain \in Nat
        /\ count = (count \div grain) * grain
    BY <1>1, <1>3, <2>2, <2>3, <2>4
  <2> QED BY <2>4, <2>5, <2>6, <2>7
<1>4. CASE kind = "write"
  <2>1. a + size <= FlashBase + (N * 2) /\ size % 2 = 0
    BY <1>1, <1>2, <1>4 DEF Refused, SizeOf
  <2>2. /\ count = size \div 2 /\ grain = 1
        /\ count \in Nat /\ size = 2 * count
    BY <1>1, <1>4, <2>1 DEF SizeOf
  <2>3. count \div 1 = count
    BY <2>2
  <2>4. first \in Nat /\ first + count <= N
    BY <1>1, <1>2, <2>1, <2>2
  <2>5. target # "linux" => count > 0
    BY <1>1, <2>2 DEF Nothing
  <2> QED BY <2>2, <2>3, <2>4, <2>5
<1> QED BY <1>3, <1>4

LEMMA CallContract ==
  ASSUME CInv, IInv', Call
  PROVE  CInv' /\ (Promise!Begin \/ Promise!Decline)
<1>1. PICK kind \in {"erase", "write"}, size \in 0..MaxSize,
           addr \in 0..(FlashBase + N * Granules) :
        Decline(kind, addr, size) \/ Accept(kind, addr, size)
  BY DEF Call
<1>2. CASE Decline(kind, addr, size)
  <2>1. /\ pc = "idle" /\ pc' = "idle" /\ result' \in {"ok", "error"}
        /\ UNCHANGED <<setup, array, flash, call, i, error>>
        /\ UNCHANGED <<target, swapped>>
    BY <1>2 DEF Decline, setup
  <2>2. Range'
    BY <2>1 DEF CInv, Range
  <2>3. Position' /\ Selection' /\ Progress'
    BY <2>1 DEF Position, Selection, Progress, CInv, IInv, Control
  <2>4. \A u \in Units : Read(u)' = Read(u)
    BY <2>1 DEF Read, Physical
  <2> QED BY <2>1, <2>2, <2>3, <2>4 DEF CInv, Promise!Decline, Promise!NoOp
<1>3. CASE Accept(kind, addr, size)
  <2>1. /\ pc = "idle" /\ pc' = "enter" /\ result' = "none"
        /\ UNCHANGED <<setup, flash>> /\ UNCHANGED <<target, swapped>>
        /\ i' = 0 /\ status' = 0 /\ error' = FALSE
        /\ ~Nothing(size) /\ ~Refused(kind, addr, size)
        /\ array' = [p \in Units |-> IF array[p] \in Units THEN Old
                                     ELSE array[p]]
    BY <1>3 DEF Accept, setup
  <2>2. /\ call'.kind = kind
        /\ call'.first = (Resolved(addr) - FlashBase) \div Granules
        /\ call'.count = SizeOf(kind, size) \div Granules
    BY <1>3 DEF Accept
  <2>3. Grain' = IF kind = "erase" THEN PageUnits ELSE 1
    BY <2>2 DEF Grain, Erasing
  <2>4. /\ call'.first \in Nat /\ call'.count \in Nat
        /\ call'.first + call'.count <= N
        /\ Steps' \in Nat /\ call'.count = Steps' * Grain'
        /\ target # "linux" =>
             Steps' > 0 /\ \E k \in Nat : call'.first = k * Grain'
    BY <2>1, <2>2, <2>3, AcceptedRange DEF Steps
  <2>5. Range'
    BY <2>1, <2>4 DEF CInv, Range
  <2>6. Position'
    BY <2>1, <2>4 DEF Position
  <2>7. Selection' /\ Progress'
    <3>1. ~Busy'
      BY <2>1 DEF IInv, Control
    <3>2. DoneUnits' = 0
      BY <2>1, <2>3, Sizes DEF DoneUnits
    <3>3. \A u \in Units :
            ~(call'.first <= u /\ u < call'.first + DoneUnits')
      BY <2>4, <3>2, PhysicalIs
    <3> QED BY <2>1, <3>1, <3>3 DEF Selection, Progress
  <2>8. \A u \in Units : Read(u)' = IF Read(u) \in Units THEN Old ELSE Read(u)
    BY <2>1, PhysicalUnits DEF Read, Physical
  <2>9. DoneUnits' = 0
    BY <2>1, <2>3, Sizes DEF DoneUnits
  <2>10. Promise!Begin
    BY <2>1, <2>2, <2>4, <2>8, <2>9
       DEF Promise!Begin, Promise!NoOp, Promise!Aged, Promise!Units, Units,
           Promise!Old, Old, DoneUnits
  <2> QED BY <2>5, <2>6, <2>7, <2>10 DEF CInv
<1> QED BY <1>1, <1>2, <1>3

-----------------------------------------------------------------------------
LEMMA InitContract == Init => CInv /\ Promise!Init
<1> SUFFICES ASSUME Init PROVE CInv /\ Promise!Init
  OBVIOUS
<1>1. IInv
  BY InitIInv
<1>2. /\ pc = "idle" /\ ~Busy /\ error = FALSE /\ i = 0 /\ result = "none"
      /\ swapped \in BOOLEAN /\ (swapped => target = "stm32")
      /\ array \in {[u \in Units |-> v] : v \in {Old, Blank}}
  BY DEF Init, Reset, Busy
<1>3. CInv
  BY <1>1, <1>2 DEF CInv, Range, Position, Selection, Progress
<1>4. \A u \in Units : Read(u) \in {Old, Blank}
  BY <1>2, PhysicalUnits DEF Read
<1> QED BY <1>2, <1>3, <1>4
        DEF Promise!Init, Promise!NoOp, Promise!Units, Units, Promise!Old,
            Old, Promise!Blank, Blank

LEMMA StepContract ==
  ASSUME CInv, [Next]_vars, "stm32" \notin FaultyErases, ~VendorTimeouts
  PROVE  CInv' /\ [Promise!Next]_(Promise!vars)
<1>1. IInv'
  BY NextIInv DEF CInv
<1>2. CASE Call
  BY <1>1, <1>2, CallContract DEF Promise!Next
<1>3. CASE Driver
  BY <1>1, <1>3, EnterContract, PrepareContract, StartContract, WaitContract,
     ClearContract, ReturnContract, LinuxContract DEF Driver, Promise!Next
<1>4. CASE Finish
  BY <1>1, <1>4, FinishContract DEF Promise!Next
<1>5. CASE PowerCut
  BY <1>1, <1>5, PowerCutContract DEF Promise!Next
<1>6. CASE UNCHANGED vars
  <2>1. UNCHANGED <<target, swapped, array, flash, call, i, status, pc, result,
                    error>>
    BY <1>6 DEF vars, setup
  <2>2. /\ Grain' = Grain /\ Steps' = Steps /\ Erasing' = Erasing /\ At' = At
        /\ Busy' = Busy /\ DoneUnits' = DoneUnits
        /\ \A u : /\ Physical(u)' = Physical(u) /\ Read(u)' = Read(u)
                  /\ Wanted(u)' = Wanted(u)
    BY <2>1 DEF Grain, Steps, Erasing, At, Busy, DoneUnits, Physical, Read,
                Wanted
  <2>3. Range' /\ Position' /\ Selection' /\ Progress'
    BY <2>1, <2>2 DEF CInv, Range, Position, Selection, Progress
  <2>4. UNCHANGED Promise!vars
    BY <2>1, <2>2 DEF Promise!vars
  <2> QED BY <1>1, <2>3, <2>4 DEF CInv
<1> QED BY <1>2, <1>3, <1>4, <1>5, <1>6 DEF Next

(* The three drivers do what the library asks of its callbacks, whatever   *)
(* the size of the flash, the arguments, the errors and the cuts, provided *)
(* an STM32 erases without an error and the code of the vendor of the      *)
(* CH32V307 waits until the flash is ready.                                *)
THEOREM DriversKeepContract ==
  ASSUME "stm32" \notin FaultyErases, ~VendorTimeouts
  PROVE  Spec => Contract
<1>1. Init => CInv /\ Promise!Init
  BY InitContract
<1>2. CInv /\ [Next]_vars => CInv' /\ [Promise!Next]_(Promise!vars)
  BY StepContract
<1> QED BY <1>1, <1>2, PTL DEF Spec, Contract, Promise!Spec
-----------------------------------------------------------------------------
(* The end of a call, whatever fails.                                      *)

(* The steps that a call may still take: eight for each page or unit that  *)
(* is not done, and as many as there are between here and the next one.    *)
StepsLeft ==
  8 * (Steps - i) + CASE pc = "enter"          -> 7
                      [] pc = "clear"          -> 6
                      [] pc = "prepare"        -> 5
                      [] pc = "start"          -> 4
                      [] pc = "busy" /\ Busy   -> 3
                      [] pc = "busy" /\ ~Busy  -> 2
                      [] pc = "leave"          -> 1
                      [] OTHER                 -> 0

(* No driver loops: every step of a call, the end of an operation of the   *)
(* flash included, brings it closer to its return.                         *)
CallAdvances ==
  [][pc # "idle" /\ pc' # "idle" =>
       StepsLeft' \in Nat /\ StepsLeft' < StepsLeft]_vars

(* The loops stay within the call, also when an error has ended one.       *)
Bounded ==
  pc # "idle" =>
    /\ i \in Nat /\ Steps \in Nat
    /\ i <= Steps
    /\ pc = "enter" => i = 0
    /\ pc \in {"prepare", "start", "busy"} => i < Steps
    /\ pc = "enter" /\ target # "linux" => Steps > 0

LEMMA CallBounded == IInv /\ Call => Bounded'
<1> SUFFICES ASSUME IInv, Call PROVE Bounded'
  OBVIOUS
<1>1. PICK kind \in {"erase", "write"}, size \in 0..MaxSize,
           addr \in 0..(FlashBase + N * Granules) :
        Decline(kind, addr, size) \/ Accept(kind, addr, size)
  BY DEF Call
<1>2. CASE Decline(kind, addr, size)
  BY <1>2 DEF Decline, Bounded
<1>3. CASE Accept(kind, addr, size)
  <2>1. /\ pc' = "enter" /\ i' = 0 /\ target' = target
        /\ ~Nothing(size) /\ ~Refused(kind, addr, size)
    BY <1>3 DEF Accept, setup
  <2>2. /\ call'.kind = kind
        /\ call'.count = SizeOf(kind, size) \div Granules
    BY <1>3 DEF Accept
  <2>3. Grain' = IF kind = "erase" THEN PageUnits ELSE 1
    BY <2>2 DEF Grain, Erasing
  <2>4. Steps' \in Nat /\ (target # "linux" => Steps' > 0)
    BY <2>1, <2>2, <2>3, AcceptedRange DEF Steps
  <2> QED BY <2>1, <2>4 DEF Bounded
<1> QED BY <1>1, <1>2, <1>3

(* What each step of a call lowers.                                        *)
LEMMA StepAdvances ==
  ASSUME ~VendorTimeouts, IInv, Bounded, IInv', Next,
         pc # "idle", pc' # "idle"
  PROVE  /\ Bounded'
         /\ StepsLeft' \in Nat /\ StepsLeft' < StepsLeft
<1> DEFINE S == Steps
<1>1. call' = call /\ target' = target /\ Steps' = S
  <2>1. call' = call /\ target' = target
    BY DEF Next, Call, Decline, Accept, Driver, Enter, PrepareErase,
       PrepareWrite, Start, Wait, Clear, Leave, Unlock, VendorStart,
       CheckStatus, LockAndVerify, Linux, LinuxReturn, Return, Finish,
       PowerCut, setup
  <2> QED BY <2>1 DEF Steps, Grain, Erasing
<1>2. /\ i \in Nat /\ S \in Nat /\ i <= S
      /\ pc = "enter" => i = 0
      /\ pc \in {"prepare", "start", "busy"} => i < S
      /\ pc = "enter" /\ target # "linux" => S > 0
  BY DEF Bounded
<1>3. Busy => pc = "busy"
  BY DEF IInv, Control
<1>4. Busy' => pc' = "busy"
  BY DEF IInv, Control
<1> HIDE DEF S
<1>5. CASE Enter \/ Unlock
  <2>1. /\ pc = "enter" /\ pc' \in {"prepare", "start"} /\ i' = i
        /\ target # "linux"
    BY <1>5 DEF Enter, Unlock
  <2> QED BY <1>1, <1>2, <2>1 DEF Bounded, StepsLeft, S
<1>6. CASE PrepareErase \/ PrepareWrite
  <2>1. pc = "prepare" /\ pc' = "start" /\ i' = i
    BY <1>6 DEF PrepareErase, PrepareWrite
  <2> QED BY <1>1, <1>2, <2>1 DEF Bounded, StepsLeft, S
<1>7. CASE Start \/ VendorStart
  <2>1. pc = "start" /\ pc' = "busy" /\ i' = i
    BY <1>7 DEF Start, VendorStart
  <2> QED BY <1>1, <1>2, <2>1 DEF Bounded, StepsLeft, S
<1>8. CASE Wait
  <2>1. /\ pc = "busy" /\ ~Busy /\ i' = i + 1
        /\ pc' = "clear" \/ (pc' = "start" /\ i' # S)
    BY <1>1, <1>8 DEF Wait, Steps, Grain, Erasing, S
  <2> QED BY <1>1, <1>2, <2>1 DEF Bounded, StepsLeft, S
<1>9. CASE Clear
  <2>1. /\ pc = "clear" /\ i' = i
        /\ (pc' = "prepare" /\ i < S) \/ pc' = "leave"
    BY <1>9 DEF Clear, S
  <2> QED BY <1>1, <1>2, <2>1 DEF Bounded, StepsLeft, S
<1>10. CASE CheckStatus
  <2>1. /\ pc \in {"start", "busy"} /\ ~Busy
        /\ \/ pc' = "leave" /\ i' = i
           \/ /\ pc = "busy" /\ i' = i + 1
              /\ pc' = "leave" \/ (pc' = "start" /\ i' # S)
    BY <1>1, <1>3, <1>10 DEF CheckStatus, S
  <2> QED BY <1>1, <1>2, <2>1 DEF Bounded, StepsLeft, S
<1>11. CASE Linux
  <2>1. pc = "enter" /\ pc' = "leave" /\ i' = S
    BY <1>11 DEF Linux, S
  <2> QED BY <1>1, <1>2, <2>1 DEF Bounded, StepsLeft, S
<1>12. CASE Finish
  <2>1. pc = "busy" /\ Busy /\ ~Busy' /\ pc' = pc /\ i' = i
    <3>1. Busy /\ flash' = [flash EXCEPT !.busy = << >>]
      BY <1>12 DEF Finish
    <3>2. flash'.busy = << >>
      BY <3>1 DEF IInv, Shapes
    <3> QED BY <1>3, <1>12, <3>1, <3>2 DEF Finish, Busy
  <2> QED BY <1>1, <1>2, <2>1 DEF Bounded, StepsLeft, S
<1>13. ~Call /\ ~Leave /\ ~LockAndVerify /\ ~LinuxReturn /\ ~PowerCut
  BY DEF Call, Decline, Accept, Leave, LockAndVerify, LinuxReturn, Return,
     PowerCut
<1> QED BY <1>5, <1>6, <1>7, <1>8, <1>9, <1>10, <1>11, <1>12, <1>13
        DEF Next, Driver

(* A call of any driver, on a flash of any size and whatever fails, makes  *)
(* a bounded number of steps: it returns as soon as the flash ends each    *)
(* operation it has started.                                               *)
THEOREM CallsAdvance ==
  ASSUME ~VendorTimeouts
  PROVE  Spec => CallAdvances
<1>1. Init => Bounded
  BY DEF Init, Bounded
<1>2. IInv /\ Bounded /\ [Next]_vars => Bounded'
  <2> SUFFICES ASSUME IInv, Bounded, [Next]_vars, pc' # "idle" PROVE Bounded'
    BY DEF Bounded
  <2>1. IInv'
    BY NextIInv
  <2>2. CASE pc = "idle" /\ Next
    <3>1. Call
      BY <2>2 DEF Next, Driver, Enter, PrepareErase, PrepareWrite, Start,
         Wait, Clear, Leave, Unlock, VendorStart, CheckStatus, LockAndVerify,
         Linux, LinuxReturn, Finish, PowerCut, IInv, Control
    <3> QED BY <3>1, CallBounded
  <2>3. CASE pc # "idle" /\ Next
    BY <2>1, <2>3, StepAdvances
  <2>4. CASE UNCHANGED vars
    BY <2>4 DEF vars, setup, Bounded, Steps, Grain, Erasing
  <2> QED BY <2>2, <2>3, <2>4
<1>3. IInv /\ Bounded /\ IInv' /\ [Next]_vars =>
        [pc # "idle" /\ pc' # "idle" =>
           StepsLeft' \in Nat /\ StepsLeft' < StepsLeft]_vars
  BY StepAdvances
<1> QED BY <1>1, <1>2, <1>3, Invariant, PTL DEF Spec, CallAdvances
=============================================================================
