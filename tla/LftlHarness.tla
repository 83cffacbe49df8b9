---------------------------- MODULE LftlHarness ----------------------------
(***************************************************************************)
(* The test harness of lean-ftl (test.c) on the Linux target: it runs each *)
(* test once, counts what it programs, and runs it again for each write    *)
(* unit at which the power may fail.  Its wrappers keep, beside the flash, *)
(* a reference of what the areas must hold, and check_nvm compares the two *)
(* after each simulated tearing.                                           *)
(*                                                                         *)
(* The library is what LftlStore promises: an update that is torn takes    *)
(* effect whole or not at all.  Faults says what a broken library may do.  *)
(***************************************************************************)
EXTENDS LftlTearing, Sequences, FiniteSets

CONSTANTS
  AreaSeq,      \* nvma and nvmb, in the order of data_flash_t
  Units,        \* the write units of an area
  Data,         \* what a unit can hold
  Blank,        \* what an erased unit reads as
  None,         \* no transaction, no valid slot
  Tests,        \* the tests: sequences of operations
  FormatBytes,  \* what a format programs and erases
  MaxTests,     \* how many tests test_main runs
  Faults        \* "mixed", "refused", "internal"

Areas == {AreaSeq[i] : i \in DOMAIN AreaSeq}
FirstArea == AreaSeq[1]
Content == [Units -> Data]
Partial == UNION {[us -> Data] : us \in SUBSET Units}

(* An operation of a test: what it calls, on which area, what it writes,   *)
(* and the sizes of the flash operations that the library makes for it.    *)
Operations ==
  [kind : {"write", "erase_all", "start", "transaction_write", "commit",
           "abort", "raw", "sanity", "verify"},
   area : Areas, writes : Partial, flash : Seq(Nat)]

ASSUME TestsAssumption ==
  \A t \in Tests :
    /\ t \in Seq(Operations)
    /\ \A i \in DOMAIN t :
         /\ \A k \in DOMAIN t[i].flash : t[i].flash[k] % WriteSize = 0
         /\ t[i].kind = "erase_all" => t[i].area = FirstArea
         /\ t[i].kind \in {"sanity", "verify"} => t[i].flash = << >>

(* The target that stands for none (-1) is none; an area with no valid slot*)
(* reads as nothing that could be in it.                                   *)
ASSUME ConstantsAssumption ==
  /\ AreaSeq \in Seq(Areas) \ {<< >>}
  /\ Blank \in Data
  /\ None \notin Content
  /\ NoTarget \notin Nat
  /\ FormatBytes \in Nat

VARIABLES
  dut,      \* the test being run
  step,     \* its next operation
  todo,     \* the flash operations left in the current one
  formats,  \* the areas left to format
  phase,    \* "count", "counted" or "sweep"
  pc,       \* where the harness is
  target,   \* the loop variable of the sweep
  max,      \* target_max
  err_code, \* what the last long jump brought
  ran,      \* test_cnt
  held,     \* what lftl_read returns of each area
  open,     \* what the open transaction of each area has written
  nvm_ref, nvm_ref_previous_state, transaction_buf_ref,
  failed,   \* history: how the library broke its promise, or "none"
  torn,     \* history: the units of the test before which it was torn
  spoiled   \* history: the bytes of the test that the emulator inverted

ref == <<nvm_ref, nvm_ref_previous_state, transaction_buf_ref>>
loop == <<dut, phase, target, max, ran>>
history == <<failed, torn, spoiled>>
vars == <<cnt, stop, loop, step, todo, formats, pc, err_code, held, open,
          ref, history>>

Overlay(c, f) == [u \in Units |-> IF u \in DOMAIN f THEN f[u] ELSE c[u]]
Erased == [u \in Units |-> Blank]
AllErased == [a \in Areas |-> Erased]
NoTransactions == [a \in Areas |-> None]
Op == dut[step]

(* The bytes that operations 1..i - 1 of the test program, and the first k *)
(* flash operations of operation i.                                        *)
Bytes(flash) ==
  LET total[n \in 0..Len(flash)] ==
        IF n = 0 THEN 0 ELSE total[n - 1] + flash[n]
  IN  total
TestBytes(t) ==
  LET total[n \in 0..Len(t)] ==
        IF n = 0 THEN 0
        ELSE total[n - 1] + Bytes(t[n].flash)[Len(t[n].flash)]
  IN  total
Before ==
  TestBytes(dut)[step - 1] + Bytes(Op.flash)[Len(Op.flash) - Len(todo)]
Total == TestBytes(dut)[Len(dut)]

-----------------------------------------------------------------------------
(* The library, as far as the harness can tell: what a call does to areas  *)
(* that hold h and whose open transactions have written o.                 *)

(* What the call refuses before it touches the flash.                      *)
Refused(op, h, o) ==
  LET busy == o[op.area] # None IN
  \/ h[op.area] = None /\ op.kind \notin {"abort", "raw"}
  \/ op.kind \in {"start", "erase_all"} /\ busy
  \/ op.kind \in {"transaction_write", "commit"} /\ ~busy
  \/ /\ op.kind = "transaction_write"
     /\ busy
     /\ DOMAIN op.writes \cap DOMAIN o[op.area] # {}

(* The areas after the call.                                               *)
Result(op, h, o) ==
  CASE op.kind = "write" /\ o[op.area] = None ->
         [h EXCEPT ![op.area] = Overlay(@, op.writes)]
    [] op.kind = "erase_all" -> [h EXCEPT ![op.area] = Erased]
    [] op.kind = "commit" /\ o[op.area] # None ->
         [h EXCEPT ![op.area] = Overlay(@, o[op.area])]
    [] OTHER -> h

(* And the open transactions.                                              *)
Opened(op, h, o) ==
  CASE op.kind = "start" -> [o EXCEPT ![op.area] = << >>]
    [] op.kind \in {"transaction_write", "write"} /\ o[op.area] # None ->
         [o EXCEPT ![op.area] =
            [u \in DOMAIN @ \cup DOMAIN op.writes |->
               IF u \in DOMAIN op.writes THEN op.writes[u] ELSE @[u]]]
    [] op.kind \in {"commit", "abort"} -> [o EXCEPT ![op.area] = None]
    [] OTHER -> o

(* The tests are legal: on a library that keeps its promise each call is   *)
(* accepted, each verification finds what the test has written, and no     *)
(* transaction is left open.  An area is written directly only outside of  *)
(* its transaction, which the wrappers take for granted.                   *)
Replay(t) ==
  LET state[n \in 0..Len(t)] ==
        IF n = 0 THEN [areas |-> AllErased, open |-> NoTransactions]
        ELSE LET s == state[n - 1]
             IN  [areas |-> Result(t[n], s.areas, s.open),
                  open  |-> Opened(t[n], s.areas, s.open)]
  IN  state

Passes(op, h, o) ==
  CASE op.kind = "sanity" -> TRUE
    [] op.kind = "verify" -> h[op.area] = Overlay(h[op.area], op.writes)
    [] OTHER -> /\ ~Refused(op, h, o)
                /\ op.kind = "write" => o[op.area] = None

Legal(t) ==
  LET state == Replay(t)
  IN  /\ \A i \in DOMAIN t : Passes(t[i], state[i - 1].areas, state[i - 1].open)
      /\ state[Len(t)].open = NoTransactions

ASSUME LegalAssumption == \A t \in Tests : Legal(t)

-----------------------------------------------------------------------------
Init ==
  /\ cnt = 0 /\ stop = NoTarget
  /\ dut = << >> /\ step = 1 /\ todo = << >> /\ formats = << >>
  /\ phase = "count" /\ pc = "begin" /\ target = 0 /\ max = 0
  /\ err_code = "ok" /\ ran = 0
  /\ held = AllErased /\ open = NoTransactions
  /\ nvm_ref = held
  /\ nvm_ref_previous_state = held
  /\ transaction_buf_ref = held
  /\ failed = "none" /\ torn = {} /\ spoiled = {}

(* A long jump to the setjmp of test_and_simulate_tearing.                 *)
Throw(code) == err_code' = code /\ pc' = "caught"

-----------------------------------------------------------------------------
(* The wrappers: what each operation does to the reference before it calls *)
(* the library.                                                            *)

SaveState == nvm_ref_previous_state' = nvm_ref

RefWrite ==
  /\ SaveState
  /\ nvm_ref' = [nvm_ref EXCEPT ![Op.area] = Overlay(@, Op.writes)]
  /\ UNCHANGED transaction_buf_ref

(* The memset starts at nvm_ref: the area is taken to be the first.        *)
RefEraseAll ==
  /\ SaveState
  /\ nvm_ref' = [nvm_ref EXCEPT ![FirstArea] = Erased]
  /\ UNCHANGED transaction_buf_ref

(* Mutant: the buffer keeps what the last transaction left in it.          *)
RefStartStale == UNCHANGED ref

RefStart ==
  /\ transaction_buf_ref' =
       [transaction_buf_ref EXCEPT ![Op.area] = nvm_ref[Op.area]]
  /\ UNCHANGED <<nvm_ref, nvm_ref_previous_state>>

RefTransactionWrite ==
  /\ transaction_buf_ref' =
       [transaction_buf_ref EXCEPT ![Op.area] = Overlay(@, Op.writes)]
  /\ UNCHANGED <<nvm_ref, nvm_ref_previous_state>>

(* Mutant: the previous state is not updated.                              *)
RefCommitUnsaved ==
  /\ nvm_ref' = [nvm_ref EXCEPT ![Op.area] = transaction_buf_ref[Op.area]]
  /\ UNCHANGED <<nvm_ref_previous_state, transaction_buf_ref>>

RefCommit ==
  /\ SaveState
  /\ nvm_ref' = [nvm_ref EXCEPT ![Op.area] = transaction_buf_ref[Op.area]]
  /\ UNCHANGED transaction_buf_ref

(* The raw accesses change a page that no comparison reads.                *)
RefRaw == SaveState /\ UNCHANGED <<nvm_ref, transaction_buf_ref>>

Wrap ==
  \/ Op.kind = "write" /\ RefWrite
  \/ Op.kind = "erase_all" /\ RefEraseAll
  \/ Op.kind = "start" /\ RefStart
  \/ Op.kind = "transaction_write" /\ RefTransactionWrite
  \/ Op.kind = "commit" /\ RefCommit
  \/ Op.kind = "raw" /\ RefRaw
  \/ Op.kind = "abort" /\ UNCHANGED ref

-----------------------------------------------------------------------------
(* The call being made.                                                    *)

Refuses == Refused(Op, held, open)
Goal == Result(Op, held, open)
NewTransactions == Opened(Op, held, open)

(* Bound: the library breaks its promise once.                             *)
CanFail(how) == how \in Faults /\ failed = "none"

(* What a library that is not atomic may leave of a torn update.           *)
Mixtures ==
  LET old == held[Op.area]
      new == Goal[Op.area]
  IN  {[held EXCEPT ![Op.area] = c] :
         c \in {c \in Content : /\ \A u \in Units : c[u] \in {old[u], new[u]}
                               /\ c # old
                               /\ c # new}}

-----------------------------------------------------------------------------
(* test_and_simulate_tearing.                                              *)

(* Mutant: the emulator is left as the last test left it.                  *)
BeginArmed ==
  /\ pc = "begin"
  /\ ran < MaxTests
  /\ failed = "none"
  /\ dut' \in Tests
  /\ UNCHANGED <<cnt, stop>>
  /\ phase' = "count"
  /\ pc' = "format"
  /\ formats' = AreaSeq
  /\ target' = 0 /\ max' = 0
  /\ torn' = {} /\ spoiled' = {}
  /\ UNCHANGED <<step, todo, err_code, ran, held, open, ref, failed>>

(* The start of the next test of test_main. Bound: what follows a test in  *)
(* which the library has failed is not explored.                           *)
Begin ==
  /\ pc = "begin"
  /\ ran < MaxTests
  /\ failed = "none"
  /\ dut' \in Tests
  /\ Disarm
  /\ phase' = "count"
  /\ pc' = "format"
  /\ formats' = AreaSeq
  /\ target' = 0 /\ max' = 0
  /\ torn' = {} /\ spoiled' = {}
  /\ UNCHANGED <<step, todo, err_code, ran, held, open, ref, failed>>

(* format_func for the next area. Nothing protects a format that is torn,  *)
(* but tearing_sim_lftl_format brings the reference in line when it ends.  *)
Format ==
  LET area == Head(formats)
  IN
  /\ pc \in {"format", "handler_format"}
  /\ formats # << >>
  /\ Operate(FormatBytes)
  /\ IF TearingSize(FormatBytes) = 0
       THEN /\ held' = [held EXCEPT ![area] = Erased]
            /\ nvm_ref' = [nvm_ref EXCEPT ![area] = Erased]
            /\ formats' = Tail(formats)
            /\ UNCHANGED <<pc, err_code>>
       ELSE /\ \E c \in {None, Erased} : held' = [held EXCEPT ![area] = c]
            /\ formats' = << >>
            /\ Throw("tearing")
            /\ UNCHANGED nvm_ref
  /\ UNCHANGED <<loop, step, todo, open, nvm_ref_previous_state,
                 transaction_buf_ref, history>>

Formatted == formats = << >>

FunctionalTest ==
  /\ pc = "format" /\ Formatted
  /\ phase = "count"
  /\ Disarm
  /\ step' = 1
  /\ pc' = "run"
  /\ UNCHANGED <<loop, todo, formats, err_code, held, open, ref, history>>

(* The next call of the test: the wrapper, then the checks of the library. *)
Call ==
  /\ pc = "run"
  /\ step <= Len(dut)
  /\ Op.kind \notin {"sanity", "verify"}
  /\ Wrap
  /\ \/ /\ ~Refuses
        /\ pc' = "flash"
        /\ todo' = Op.flash
        /\ UNCHANGED <<err_code, failed>>
     \/ /\ Refuses
        /\ Throw("error")
        /\ UNCHANGED <<todo, failed>>
     \/ /\ CanFail("refused")
        /\ Throw("error")
        /\ failed' = "refused"
        /\ UNCHANGED todo
     \/ /\ CanFail("internal")
        /\ Op.kind \in {"write", "transaction_write", "commit"}
        /\ Throw("internal")
        /\ failed' = "internal"
        /\ UNCHANGED todo
  /\ UNCHANGED <<cnt, stop, loop, step, formats, held, open, torn, spoiled>>

(* One flash operation of the library. Torn, it ends the call: the driver  *)
(* returns SIMULATED_TEARING and the error handler jumps.                  *)
FlashOperation ==
  LET size  == Head(todo)
      tsize == TearingSize(size)
  IN
  /\ pc = "flash"
  /\ todo # << >>
  /\ Operate(size)
  /\ IF tsize = 0
       THEN /\ todo' = Tail(todo)
            /\ UNCHANGED <<pc, err_code, held, history>>
       ELSE /\ todo' = << >>
            /\ Throw("tearing")
            /\ torn' = torn \cup {(Before + size - tsize) \div WriteSize}
            /\ spoiled' =
                 spoiled \cup {Before + i : i \in Corrupted(size, tsize)}
            /\ \/ held' \in {held, Goal} /\ UNCHANGED failed
               \/ /\ CanFail("mixed")
                  /\ held' \in Mixtures
                  /\ failed' = "mixed"
  /\ UNCHANGED <<loop, step, formats, open, ref>>

Return ==
  /\ pc = "flash"
  /\ todo = << >>
  /\ held' = Goal
  /\ open' = NewTransactions
  /\ step' = step + 1
  /\ pc' = "run"
  /\ UNCHANGED <<cnt, stop, loop, todo, formats, err_code, ref, history>>

NvmIsEqualSecond(expected) ==
  \A a \in Areas \ {FirstArea} : held[a] = expected[a]

(* nvm_is_equal.                                                           *)
NvmIsEqual(expected) ==
  \A a \in Areas : held[a] = expected[a]

(* SANITY_CHECK compares everything, read_and_check what was written.       *)
Agrees ==
  IF Op.kind = "sanity" THEN NvmIsEqual(nvm_ref)
  ELSE /\ held[Op.area] # None
       /\ held[Op.area] = Overlay(held[Op.area], Op.writes)

Verify ==
  /\ pc = "run"
  /\ step <= Len(dut)
  /\ Op.kind \in {"sanity", "verify"}
  /\ IF Agrees THEN step' = step + 1 /\ UNCHANGED <<pc, err_code>>
     ELSE Throw("error") /\ UNCHANGED step
  /\ UNCHANGED <<cnt, stop, loop, todo, formats, held, open, ref, history>>

Completed ==
  /\ pc = "run"
  /\ step > Len(dut)
  /\ err_code' = "ok"
  /\ pc' = "over"
  /\ UNCHANGED <<cnt, stop, loop, step, todo, formats, held, open, ref, history>>

(* lftl_read raises an error when it gets to an area without a valid slot, *)
(* which it does unless the areas before it differ already.                *)
ReadFails ==
  \E i \in DOMAIN AreaSeq :
    /\ held[AreaSeq[i]] = None
    /\ \A j \in 1..(i - 1) :
         held[AreaSeq[j]] \in {nvm_ref[AreaSeq[j]],
                              nvm_ref_previous_state[AreaSeq[j]]}

(* tearing_sim_check_nvm: the contexts are reset as by a reboot, and the   *)
(* data compared with the reference, and with the one before the last      *)
(* update.                                                                 *)
CheckNvm(next) ==
  /\ open' = NoTransactions
  /\ \/ /\ ReadFails
        /\ Throw("error")
     \/ /\ ~ReadFails
        /\ pc' = IF NvmIsEqual(nvm_ref) \/ NvmIsEqual(nvm_ref_previous_state)
                    THEN next ELSE "abort"
        /\ UNCHANGED err_code

(* exception_handler: a code that ends in 0xFF is taken for a tearing,     *)
(* LFTL_INTERNAL_ERROR included.                                           *)
HandleTearing ==
  /\ pc = "caught"
  /\ err_code \in {"tearing", "internal"}
  /\ CheckNvm("handler_format")
  /\ formats' = AreaSeq
  /\ UNCHANGED <<cnt, stop, loop, step, todo, held, ref, history>>

(* ui_wait_button, which may jump back to the handler.                     *)
HandleError ==
  /\ pc = "caught"
  /\ err_code = "error"
  /\ pc' \in {"caught", "over"}
  /\ UNCHANGED <<cnt, stop, loop, step, todo, formats, err_code, held, open,
                 ref, history>>

(* The formats of the handler are over, and the run with them.             *)
HandlerOver ==
  /\ pc = "handler_format" /\ Formatted
  /\ pc' = "over"
  /\ UNCHANGED <<cnt, stop, loop, step, todo, formats, err_code, held, open,
                 ref, history>>

(* After the functional run: check_nvm, and the number of targets.         *)
Counted ==
  /\ pc = "over"
  /\ phase = "count"
  /\ CheckNvm("format")
  /\ IF pc' = "caught" THEN UNCHANGED <<max, phase, formats>>
     ELSE max' = MaxTarget /\ phase' = "counted" /\ formats' = AreaSeq
  /\ UNCHANGED <<cnt, stop, dut, target, ran, step, todo, held, ref, history>>

(* Mutant: the sweep starts from the second unit.                          *)
StartSweepFromOne ==
  /\ pc = "format" /\ Formatted
  /\ phase = "counted"
  /\ SetTarget(1) /\ target' = 1
  /\ phase' = "sweep"
  /\ step' = 1
  /\ pc' = "run"
  /\ UNCHANGED <<dut, max, ran, todo, formats, err_code, held, open, ref,
                 history>>

StartSweep ==
  /\ pc = "format" /\ Formatted
  /\ phase = "counted"
  /\ SetTarget(0) /\ target' = 0
  /\ phase' = "sweep"
  /\ step' = 1
  /\ pc' = "run"
  /\ UNCHANGED <<dut, max, ran, todo, formats, err_code, held, open, ref,
                 history>>

(* Mutant: the same target again.                                          *)
NextTargetStuck ==
  /\ pc = "over"
  /\ phase = "sweep"
  /\ target < max
  /\ SetTarget(target)
  /\ step' = 1
  /\ pc' = "run"
  /\ UNCHANGED <<loop, todo, formats, err_code, held, open, ref, history>>

NextTarget ==
  /\ pc = "over"
  /\ phase = "sweep"
  /\ target < max
  /\ SetTarget(target + 1) /\ target' = target + 1
  /\ step' = 1
  /\ pc' = "run"
  /\ UNCHANGED <<dut, phase, max, ran, todo, formats, err_code, held, open,
                 ref, history>>

(* The end of the sweep. err_code is cleared, so the exit that a failed    *)
(* test should take is never taken.                                        *)
Pass ==
  /\ pc = "over"
  /\ phase = "sweep"
  /\ target = max
  /\ err_code' = "ok"
  /\ ran' = ran + 1
  /\ pc' = IF err_code' = "ok" THEN "begin" ELSE "exit"
  /\ UNCHANGED <<cnt, stop, dut, phase, target, max, step, todo, formats, held,
                 open, ref, history>>

Next ==
  \/ Begin \/ Format \/ FunctionalTest \/ Call \/ FlashOperation \/ Return
  \/ Verify \/ Completed \/ HandleTearing \/ HandleError \/ HandlerOver \/ Counted
  \/ StartSweep \/ NextTarget \/ Pass

Spec == Init /\ [][Next]_vars

(* The test program goes on. When ui_wait_button jumps back to the handler *)
(* nothing changes, so that it comes to an end: someone presses the button.*)
FairSpec == Spec /\ WF_vars(Next)

-----------------------------------------------------------------------------
(* Properties.                                                             *)

(* The reference the wrappers keep is what the areas of a library that     *)
(* keeps its promise hold, before every call of a run.                     *)
InSync == pc = "run" /\ failed = "none" => NvmIsEqual(nvm_ref)

(* No false alarm: as long as the library keeps its promise the harness    *)
(* neither aborts nor finds an error, wherever the test is torn.           *)
NoFalseAlarm ==
  failed = "none" => pc # "abort" /\ err_code \in {"ok", "tearing"}

(* The harness lets no update pass that a tearing has left half done,     *)
(* wherever the test was torn.                                             *)
MixingReported == pc = "begin" => failed # "mixed"

(* A test that has passed did not fail: exception_handler reports an error *)
(* as "test failed", and the code that follows the sweep is written to exit*)
(* with the error.                                                         *)
FailureReported == pc = "begin" => failed = "none"

(* Formats are not protected, and the emulator is never armed during one,  *)
(* unless LFTL_INTERNAL_ERROR was taken for a tearing.                     *)
FormatsUntorn ==
  pc \in {"format", "handler_format"} /\ failed # "internal" =>
    stop = NoTarget

(* "Exhaustively tested": when the sweep is over, the power has failed     *)
(* before each of the write units that the test programs, and every byte   *)
(* was inverted in some run.                                               *)
Exhaustive ==
  pc = "begin" /\ ran > 0 /\ failed = "none" =>
    /\ torn = 0..((Total \div WriteSize) - 1)
    /\ spoiled = 0..(Total - 1)

(* A run of the sweep is torn at most once and at its own target, except   *)
(* the last one, which completes.                                          *)
TornAtTarget ==
  phase = "sweep" /\ failed = "none" =>
    /\ torn \subseteq 0..target
    /\ pc = "over" => (target \in torn <=> target < max)

(* How far a test is from its end, by weight: the runs, where it is in the *)
(* run, the calls or formats left there, whether the next call is yet to   *)
(* be made, and the flash operations left in the one being made.           *)
RunsLeft ==
  LET units == Total \div WriteSize
  IN  CASE phase = "count"   -> units + 2
        [] phase = "counted" -> units + 1
        [] phase = "sweep"   -> units - target

StageLeft ==
  CASE pc = "format"           -> 5
    [] pc \in {"run", "flash"} -> 4
    [] pc = "caught"           -> 3
    [] pc = "handler_format"   -> 2
    [] pc = "over"             -> 1
    [] OTHER                   -> 0

WorkLeft ==
  CASE pc \in {"run", "flash"}             -> Len(dut) + 1 - step
    [] pc \in {"format", "handler_format"} -> Len(formats)
    [] OTHER                               -> 0

Distance ==
  <<RunsLeft, StageLeft, WorkLeft, IF pc = "run" THEN 1 ELSE 0, Len(todo)>>

Below(d1, d2) ==
  \E i \in 1..5 : d1[i] < d2[i] /\ \A j \in 1..(i - 1) : d1[j] = d2[j]

(* A test of n write units takes at most n + 2 runs, and each step of a    *)
(* library that works brings it closer to its end: no tearing, format or   *)
(* check ever sends the harness back.                                      *)
SweepAdvances ==
  [][pc # "begin" /\ failed' = "none" =>
       Distance' \in [1..5 -> Nat] /\ Below(Distance', Distance)]_vars

(* Every test comes to an end, also when the library has failed: whatever  *)
(* jumps out of a run, once or again from the handler, the harness passes  *)
(* on to the next target, or aborts.                                       *)
SweepEnds == []<>(pc \in {"begin", "abort", "exit"})
=============================================================================
