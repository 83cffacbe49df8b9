----------------------------- MODULE LftlDriver -----------------------------
(***************************************************************************)
(* The drivers of the flashes: nvm_erase and nvm_write of the STM32L5 and  *)
(* STM32U5, of the CH32V307 and of the Linux target.  One target and, for  *)
(* an STM32, one position of the option bit that swaps the banks, is       *)
(* chosen in Init.                                                         *)
(*                                                                         *)
(* The flash controller is modelled from how the drivers use it: a page or *)
(* a unit is busy until Finish, an erase goes to the page and the bank     *)
(* that the registers select, a write to the unit that the address maps.   *)
(* Addresses and sizes are in granules of half a unit, so that they may be *)
(* misaligned; the granules 0..FlashBase - 1 are an alias on the CH32V307. *)
(***************************************************************************)
EXTENDS Integers

CONSTANTS
  N,             \* the flash has the write units 0..N - 1
  PageUnits,     \* units in a page
  FlashBase,     \* where the flash starts
  NvmAlignment,  \* alignment of the flash of the Linux target
  Targets,       \* "stm32", "ch32", "linux"
  FaultyErases,  \* the targets on which the flash may fail to erase
  VendorTimeouts, \* the vendor's code may give up while the flash is busy
  MaxSize,       \* bound: the granules or the pages of a call
  MaxCalls       \* bound: how many calls

Units == 0..(N - 1)
Granules == 2
PageGranules == PageUnits * Granules
BankUnits == N \div 2

ASSUME GeometryAssumption ==
  /\ PageUnits \in Nat \ {0}
  /\ N \in Nat /\ N = 2 * BankUnits /\ BankUnits % PageUnits = 0
  /\ FlashBase \in Nat /\ FlashBase % PageGranules = 0
  /\ NvmAlignment \in Nat \ {0}
  /\ VendorTimeouts \in BOOLEAN
  /\ MaxSize \in Nat /\ MaxCalls \in Nat

VARIABLES
  target, swapped,
  array,    \* what the units of the flash hold
  flash,    \* the controller: its lock, its mode, the page selected, and
            \* what is being erased or programmed
  cpu,      \* PRIMASK, and whether the instruction cache is on
  call,     \* the arguments of the call, once they are accepted
  i,        \* the pages or the units that are done
  saved,    \* primask and icache_enabled
  status,   \* what the call will return, if it is an error
  pc,       \* where the driver is
  result,   \* what the last call returned
  error,    \* history: the flash has reported an error in this call
  found,    \* history: cpu when the driver was called
  calls     \* how many calls

setup == <<target, swapped>>
history == <<found, calls>>
vars == <<setup, array, flash, cpu, call, i, saved, status, pc, result,
          error, history>>

(* What a unit holds, as in LftlCallbacks: unit k of the source is k.      *)
Old == -3
Bad == -2
Blank == -1

Reset == [locked |-> TRUE, mode |-> "none", bank |-> 0, page |-> 0,
          busy |-> << >>]
Idle == [kind |-> "none", first |-> 0, count |-> 0]

Erasing == call.kind = "erase"
Grain == IF Erasing THEN PageUnits ELSE 1
Steps == call.count \div Grain
At == call.first + i * Grain
Busy == flash.busy # << >>

(* The unit of the flash that address u stands for.                        *)
Physical(u) == IF swapped THEN (u + BankUnits) % N ELSE u
Read(u) == array[Physical(u)]

Init ==
  /\ target \in Targets
  /\ swapped \in BOOLEAN /\ (swapped => target = "stm32")
  /\ array \in {[u \in Units |-> v] : v \in {Old, Blank}}
  /\ flash = Reset
  /\ cpu \in [primask : BOOLEAN, icache : BOOLEAN]
  /\ call = Idle /\ i = 0 /\ status = 0 /\ pc = "idle"
  /\ saved = cpu
  /\ result = "none" /\ error = FALSE /\ found = cpu /\ calls = 0

-----------------------------------------------------------------------------
(* The call.                                                               *)

(* The CH32V307 ors FLASH_BASE into the addresses below it.                *)
Resolved(addr) ==
  IF target = "ch32" /\ addr < FlashBase THEN FlashBase + addr ELSE addr

SizeOf(kind, size) == IF kind = "erase" THEN size * PageGranules ELSE size

Alignment(kind) ==
  IF kind = "write" THEN Granules
  ELSE IF target = "linux" /\ NvmAlignment < PageGranules THEN NvmAlignment
  ELSE PageGranules

(* Mutant: the end of the range is not checked.                            *)
RefusedEndless(kind, addr, size) ==
  LET a == Resolved(addr)
  IN  \/ a < FlashBase
      \/ a % Alignment(kind) # 0
      \/ kind = "write" /\ size % Granules # 0

Refused(kind, addr, size) ==
  LET a == Resolved(addr)
  IN  \/ a < FlashBase
      \/ a + SizeOf(kind, size) > FlashBase + N * Granules
      \/ a % Alignment(kind) # 0
      \/ kind = "write" /\ size % Granules # 0

(* Only Linux checks the arguments of a call that has nothing to do.       *)
Nothing(size) == size = 0 /\ target # "linux"

Decline(kind, addr, size) ==
  /\ pc = "idle"
  /\ \/ Nothing(size) /\ result' = "ok"
     \/ ~Nothing(size) /\ Refused(kind, addr, size) /\ result' = "error"
  /\ UNCHANGED <<setup, array, flash, cpu, call, i, saved, status, pc, error,
                 found>>

Accept(kind, addr, size) ==
  /\ pc = "idle"
  /\ ~Nothing(size) /\ ~Refused(kind, addr, size)
  /\ call' = [kind  |-> kind,
              first |-> (Resolved(addr) - FlashBase) \div Granules,
              count |-> SizeOf(kind, size) \div Granules]
  /\ array' = [p \in Units |-> IF array[p] \in Units THEN Old ELSE array[p]]
  /\ i' = 0 /\ status' = 0 /\ result' = "none"
  /\ error' = FALSE
  /\ found' = cpu
  /\ pc' = "enter"
  /\ UNCHANGED <<setup, flash, cpu, saved>>

Call ==
  /\ calls < MaxCalls
  /\ calls' = calls + 1
  /\ \E kind \in {"erase", "write"}, size \in 0..MaxSize,
        addr \in 0..(FlashBase + N * Granules) :
       Decline(kind, addr, size) \/ Accept(kind, addr, size)

-----------------------------------------------------------------------------
(* The STM32s.                                                             *)

Enter ==
  /\ target = "stm32" /\ pc = "enter"
  /\ saved' = [saved EXCEPT !.primask = cpu.primask]
  /\ cpu' = [cpu EXCEPT !.primask = TRUE]
  /\ flash' = [flash EXCEPT !.locked = FALSE]
  /\ pc' = "prepare"
  /\ UNCHANGED <<setup, array, call, i, status, result, error, history>>

CacheOff ==
  /\ saved' = [saved EXCEPT !.icache = cpu.icache]
  /\ cpu' = [cpu EXCEPT !.icache = FALSE]

(* Mutant: the bank of the address is taken for the bank of the flash.     *)
PrepareEraseUnswapped ==
  /\ target = "stm32" /\ pc = "prepare" /\ Erasing
  /\ flash' = [flash EXCEPT !.bank = At \div BankUnits,
                            !.page = (At % BankUnits) \div PageUnits,
                            !.mode = "erase"]
  /\ CacheOff
  /\ pc' = "start"
  /\ UNCHANGED <<setup, array, call, i, status, result, error, history>>

(* nvm_ll_erase_page up to the start of the operation: the registers take  *)
(* the bank of the flash, which is not that of the address when the banks  *)
(* are swapped.                                                            *)
PrepareErase ==
  /\ target = "stm32" /\ pc = "prepare" /\ Erasing
  /\ LET bank == At \div BankUnits
     IN  flash' = [flash EXCEPT
                     !.bank = (bank + (IF swapped THEN 1 ELSE 0)) % 2,
                     !.page = (At - bank * BankUnits) \div PageUnits,
                     !.mode = "erase"]
  /\ CacheOff
  /\ pc' = "start"
  /\ UNCHANGED <<setup, array, call, i, status, result, error, history>>

PrepareWrite ==
  /\ target = "stm32" /\ pc = "prepare" /\ ~Erasing
  /\ flash' = [flash EXCEPT !.mode = "write"]
  /\ CacheOff
  /\ pc' = "start"
  /\ UNCHANGED <<setup, array, call, i, status, result, error, history>>

SelectedPage ==
  LET first == flash.bank * BankUnits + flash.page * PageUnits
  IN  first..(first + PageUnits - 1)

Start ==
  /\ target = "stm32" /\ pc = "start"
  /\ flash' = [flash EXCEPT
                 !.busy = IF Erasing THEN [p \in SelectedPage |-> Blank]
                          ELSE [p \in {Physical(At)} |-> i]]
  /\ pc' = "busy"
  /\ UNCHANGED <<setup, array, cpu, call, i, saved, status, result, error,
                 history>>

(* Mutant: the loop does not wait for BSY.                                 *)
WaitNot ==
  /\ target = "stm32" /\ pc = "busy"
  /\ i' = i + 1
  /\ pc' = IF Erasing \/ i' = Steps THEN "clear" ELSE "start"
  /\ UNCHANGED <<setup, array, flash, cpu, call, saved, status, result, error,
                 history>>

(* Mutant: the loop does not advance.                                      *)
WaitForever ==
  /\ target = "stm32" /\ pc = "busy"
  /\ ~Busy
  /\ pc' = IF Erasing \/ i = Steps THEN "clear" ELSE "start"
  /\ UNCHANGED <<setup, array, flash, cpu, call, i, saved, status, result,
                 error, history>>

Wait ==
  /\ target = "stm32" /\ pc = "busy"
  /\ ~Busy
  /\ i' = i + 1
  /\ pc' = IF Erasing \/ i' = Steps THEN "clear" ELSE "start"
  /\ UNCHANGED <<setup, array, flash, cpu, call, saved, status, result, error,
                 history>>

Clear ==
  /\ target = "stm32" /\ pc = "clear"
  /\ flash' = [flash EXCEPT !.mode = "none", !.bank = 0, !.page = 0]
  /\ cpu' = [cpu EXCEPT !.icache = saved.icache]
  /\ pc' = IF i < Steps THEN "prepare" ELSE "leave"
  /\ UNCHANGED <<setup, array, call, i, saved, status, result, error, history>>

Verified == \A u \in 0..(call.count - 1) : Read(call.first + u) = u

Return(code) ==
  /\ result' = IF code = 0 THEN "ok" ELSE "error"
  /\ call' = Idle /\ i' = 0
  /\ pc' = "idle"

(* Mutant: PRIMASK is cleared, whatever it was.                            *)
LeaveUnmasked ==
  /\ target = "stm32" /\ pc = "leave"
  /\ flash' = [flash EXCEPT !.locked = TRUE]
  /\ Return(IF Erasing \/ Verified THEN 0 ELSE 5)
  /\ cpu' = [cpu EXCEPT !.primask = FALSE]
  /\ UNCHANGED <<setup, array, saved, status, error, history>>

(* An erase always returns 0: the error flags of the flash are not read.   *)
Leave ==
  /\ target = "stm32" /\ pc = "leave"
  /\ flash' = [flash EXCEPT !.locked = TRUE]
  /\ Return(IF Erasing \/ Verified THEN 0 ELSE 5)
  /\ cpu' = [cpu EXCEPT !.primask = saved.primask]
  /\ UNCHANGED <<setup, array, saved, status, error, history>>

-----------------------------------------------------------------------------
(* The CH32V307. FLASH_ErasePage and FLASH_ProgramHalfWord wait for the    *)
(* flash, start an operation, wait for it and return its status: an error  *)
(* of the flash, or FLASH_TIMEOUT when one of the waits has taken too long.*)

(* FLASH_ClearFlag forgets an error that an operation abandoned by the call*)
(* before has made in between.                                             *)
Unlock ==
  /\ target = "ch32" /\ pc = "enter"
  /\ flash' = [flash EXCEPT !.locked = FALSE]
  /\ error' = FALSE
  /\ pc' = "start"
  /\ UNCHANGED <<setup, array, cpu, call, i, saved, status, result, history>>

VendorStart ==
  /\ target = "ch32" /\ pc = "start"
  /\ ~Busy /\ ~error
  /\ flash' = [flash EXCEPT
                 !.mode = call.kind,
                 !.busy = IF Erasing
                            THEN [p \in At..(At + PageUnits - 1) |-> Blank]
                            ELSE [p \in {At} |-> i]]
  /\ pc' = "busy"
  /\ UNCHANGED <<setup, array, cpu, call, i, saved, status, result, error,
                 history>>

(* Mutant: the status is not looked at, and the loop goes on after an      *)
(* error.                                                                  *)
CheckStatusIgnored ==
  /\ target = "ch32" /\ pc \in {"start", "busy"}
  /\ pc = "start" => Busy \/ error
  /\ Busy => VendorTimeouts
  /\ flash' = [flash EXCEPT !.mode = "none"]
  /\ i' = i + 1
  /\ pc' = IF i' = Steps THEN "leave" ELSE "start"
  /\ UNCHANGED <<setup, array, cpu, call, saved, status, result, error,
                 history>>

(* A timeout leaves the flash busy, and stops the driver as an error does. *)
CheckStatus ==
  /\ target = "ch32" /\ pc \in {"start", "busy"}
  /\ pc = "start" => Busy \/ error
  /\ Busy => VendorTimeouts
  /\ flash' = [flash EXCEPT !.mode = "none"]
  /\ IF error \/ Busy
       THEN /\ status' = IF Erasing THEN 4 ELSE 5
            /\ pc' = "leave"
            /\ UNCHANGED i
       ELSE /\ i' = i + 1
            /\ pc' = IF i' = Steps THEN "leave" ELSE "start"
            /\ UNCHANGED status
  /\ UNCHANGED <<setup, array, cpu, call, saved, result, error, history>>

LockAndVerify ==
  /\ target = "ch32" /\ pc = "leave"
  /\ flash' = [flash EXCEPT !.locked = TRUE]
  /\ Return(IF status # 0 THEN status
            ELSE IF Erasing \/ Verified THEN 0 ELSE 6)
  /\ UNCHANGED <<setup, array, cpu, saved, status, error, history>>

-----------------------------------------------------------------------------
(* The Linux target: the flash is memory, and the last size units that were*)
(* written are torn at times.                                              *)

TornUnits(size) == (call.first + call.count - size)..(call.first + size - 1)

Linux ==
  /\ target = "linux" /\ pc = "enter"
  /\ \E size \in 0..call.count :
       /\ array' =
            [u \in Units |->
               IF u < call.first \/ call.first + call.count <= u THEN array[u]
               ELSE IF u \in TornUnits(size) THEN Bad
               ELSE IF Erasing THEN Blank ELSE u - call.first]
       /\ status' = IF size > 0 THEN 255 ELSE 0
       /\ error' = (size # 0)
  /\ i' = Steps
  /\ pc' = "leave"
  /\ UNCHANGED <<setup, flash, cpu, call, saved, result, history>>

LinuxReturn ==
  /\ target = "linux" /\ pc = "leave"
  /\ Return(status)
  /\ UNCHANGED <<setup, array, flash, cpu, saved, status, error, history>>

-----------------------------------------------------------------------------
(* The flash.                                                              *)

With(f) == [p \in Units |-> IF p \in DOMAIN f THEN f[p] ELSE array[p]]
Spoiled == [p \in DOMAIN flash.busy |-> Bad]

Done ==
  /\ flash.mode = "write" => \A p \in DOMAIN flash.busy : array[p] = Blank
  /\ array' = With(flash.busy)
  /\ UNCHANGED error

(* The flash reports an error: a page that is protected or worn out, a     *)
(* unit that was not blank.                                                *)
Failed ==
  /\ flash.mode = "erase" => target \in FaultyErases
  /\ array' \in {array, With(Spoiled)}
  /\ error' = TRUE

Finish ==
  /\ Busy
  /\ Done \/ Failed
  /\ flash' = [flash EXCEPT !.busy = << >>]
  /\ UNCHANGED <<setup, cpu, call, i, saved, status, pc, result, history>>

(* Power is lost and comes back: the registers are reset.                  *)
PowerCut ==
  /\ target # "linux"
  /\ pc = "idle" => Busy
  /\ array' = With(Spoiled)
  /\ flash' = Reset
  /\ cpu' \in [primask : {FALSE}, icache : BOOLEAN]
  /\ found' = cpu' /\ saved' = cpu'
  /\ call' = Idle /\ i' = 0 /\ status' = 0 /\ pc' = "idle"
  /\ result' = "none" /\ error' = FALSE
  /\ UNCHANGED <<setup, calls>>

Driver ==
  \/ Enter \/ PrepareErase \/ PrepareWrite \/ Start \/ Wait \/ Clear \/ Leave
  \/ Unlock \/ VendorStart \/ CheckStatus \/ LockAndVerify
  \/ Linux \/ LinuxReturn

Next == Call \/ Driver \/ Finish \/ PowerCut

(* The processor goes on, and the flash ends every operation.              *)
Spec == Init /\ [][Next]_vars /\ WF_vars(Driver) /\ WF_vars(Finish)

-----------------------------------------------------------------------------
(* Properties.                                                             *)

(* Unless VendorTimeouts, which leaves a CH32V307 busy with what it has    *)
(* reported as failed, the first three are those of every driver.          *)

(* Every driver does what the library asks of it: it works through the     *)
(* range in order, touches nothing else even when an operation is cut, and *)
(* says that it succeeded only when the whole range is done.               *)
Promise ==
  INSTANCE LftlCallbacks WITH
    cells <- [u \in Units |-> Read(u)],
    op <- IF pc = "idle" THEN [kind |-> "none", first |-> 0, count |-> 0,
                                 done |-> 0, failed |-> FALSE]
          ELSE [kind |-> call.kind, first |-> call.first,
                count |-> call.count, failed |-> error,
                done |-> (IF pc = "busy" /\ ~Busy THEN i + 1 ELSE i) * Grain]
Contract == Promise!Spec

(* Outside of a call, whatever happened during it, the flash is locked, no *)
(* mode is left in its controller, and the interrupts and the instruction  *)
(* cache are as the call has found them.                                   *)
Restored ==
  pc = "idle" =>
    /\ flash = Reset
    /\ cpu = found

(* While an STM32 erases or programs, no interrupt can run code from the   *)
(* flash, the instruction cache is off, and the controller is left alone:  *)
(* unlocked, and in the mode of the operation.                             *)
Undisturbed ==
  Busy =>
    /\ ~flash.locked /\ flash.mode = call.kind
    /\ target = "stm32" => cpu.primask /\ ~cpu.icache /\ pc = "busy"

(* Once the flash of a CH32V307 has reported an error, the driver starts   *)
(* nothing more before it returns it.                                      *)
StopsAtError ==
  [][target = "ch32" /\ pc # "idle" /\ error =>
       /\ flash'.busy = << >>
       /\ result' # "ok"]_vars

(* Every call returns, unless the power fails first.                       *)
CallReturns == pc # "idle" ~> pc = "idle"
=============================================================================
