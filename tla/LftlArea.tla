------------------------------ MODULE LftlArea ------------------------------
(***************************************************************************)
(* One LFTL area: the functions of ftl.c that read, update and search the  *)
(* slots of a context, at the granularity of one flash operation per step. *)
(*                                                                         *)
(* An area is a ring of slots; each holds a copy of the data followed by   *)
(* three metadata words: version, checksum and checksum2.  The context     *)
(* (lftl_ctx_t) lives in RAM and is lost by a reset, which may come        *)
(* between any two steps or in the middle of a flash operation.            *)
(*                                                                         *)
(* Abstractions: data is counted in write units (byte merging inside a     *)
(* unit is not modelled here); a checksum is the pair of what it was       *)
(* computed from, so that distinct contents have distinct checksums; the   *)
(* source of a write is RAM.                                               *)
(***************************************************************************)
EXTENDS Integers, FiniteSets, LftlNvm

CONSTANTS
  NSlots,         \* n_slots(ctx)
  NUnits,         \* data_size / write_size
  Val,            \* what an application writes in a unit
  None,           \* LFTL_INVALID_POINTER and other absences
  MaxVersion,     \* bound: no update starts once this version is in use
  ErasedVersion,  \* the version word of an erased slot
  TornProgramVersion(_), \* readings of a version word half programmed to v
  TornEraseVersion(_),   \* further readings of a word v half erased
  FaultyOps,      \* the pcs at which the NVM driver may report an error
  StableReads,    \* does a weak cell read the same until the next reset?
  StrayErase      \* does the driver erase at an address before the flash?

Slots == 0..(NSlots - 1)
Units == 0..(NUnits - 1)
InvalidVersion == MaxVersion + 2   \* 0xFFFFFFFF
Data == Val \cup {Blank, Garbage}
Content == [Units -> Data]
VersionWords == 0..InvalidVersion
Sums == Content \X VersionWords
BlankContent == [u \in Units |-> Blank]

Pcs == {"idle", "enter", "scan", "erase", "program", "seal",
        "version", "sum", "sum2"}
UpdateOps == {"basic_write", "erase_all", "commit"}
TransactionOps == {"start", "transaction_write", "commit", "transaction_read"}
Ops == UpdateOps \cup TransactionOps \cup {"read", "format"}

ASSUME SlotsAssumption == NSlots \in Nat /\ NSlots >= 2
ASSUME UnitsAssumption == NUnits \in Nat \ {0}
ASSUME VersionAssumption ==
  MaxVersion \in Nat \ {0} /\ ErasedVersion \in {0, InvalidVersion}
ASSUME FlagsAssumption ==
  /\ {ReprogramDisturbs, WeakErase, StableReads, StrayErase} \subseteq BOOLEAN
  /\ FaultyOps \subseteq Pcs \cup {"repair", "reread"}

SlotCells == [version : SUBSET VersionWords,
              sum : SUBSET (Sums \cup {Blank, Garbage}),
              sum2 : SUBSET (Sums \cup {Blank, Garbage}),
              data : [Units -> SUBSET Data]]
SlotReading == [version : VersionWords, sum : Sums \cup {Blank, Garbage},
                sum2 : Sums \cup {Blank, Garbage}, data : Content]
Trackers == SUBSET (0..(2 * NUnits))
Metas == [version : VersionWords, sum : Sums \cup {Blank, Garbage}]
Scans == [best : [reading : SlotReading, slot : Slots] \cup {None},
          max : VersionWords, i : 0..NSlots]
Partial == UNION {[D -> Data] : D \in SUBSET Units}
Errors == {"TRANSACTION_ONGOING", "NO_TRANSACTION", "TRANSACTION_OVERWRITE",
           "MISALIGNED", "FIRST_NOT_IN_DATA", "LAST_NOT_IN_DATA",
           "VERSION_COLLISION", "NO_VALID_VERSION", "LOW_LEVEL",
           "LOW_LEVEL_ERASE"}

ASSUME TornAssumption ==
  \A v \in VersionWords : /\ TornProgramVersion(v) \subseteq VersionWords
                          /\ TornEraseVersion(v) \subseteq VersionWords
ASSUME ValueAssumption ==
  /\ Blank # Garbage
  /\ Garbage \notin Val
  /\ Blank \notin Sums /\ Garbage \notin Sums
ASSUME NoneAssumption ==
  /\ None \notin Errors
  /\ None \notin Slots
  /\ \A t \in Trackers : None # t
  /\ None \notin Metas
  /\ None \notin Scans
  /\ None \notin [reading : SlotReading, slot : Slots]
  /\ None \notin Content
  /\ None \notin Partial

VARIABLES
  nvm,        \* the cells of every slot
  data,       \* ctx->data: the current slot, None after a reset
  tracker,    \* ctx->transaction_tracker: the marked units, or None
  pc,         \* where the call being executed stands
  call,       \* its arguments
  todo,       \* the units it still has to program in the next slot
  meta,       \* the version and checksum it is writing
  scan,       \* the loop variables of find_current_slot
  err,        \* what the last call passed to error_handler
  spoiled,    \* a call of the open transaction raised an error
  formatted   \* "never", "formatting" or "done"

VARIABLES   \* history, read by no guard of the code
  cur,        \* the slot of the committed data
  value,      \* the committed data
  pending,    \* an interrupted update that may still take effect, or None
  txn,        \* the writes of the open transaction that returned, or None
  out         \* the result of the last read, or None

run == <<pc, call, todo, meta, scan>>
app == <<err, spoiled, formatted>>
history == <<cur, value, pending, txn, out>>
vars == <<nvm, data, tracker, run, app, history>>

NoCall == [op |-> "none", val |-> Blank, lo |-> 0, n |-> 1, aligned |-> TRUE]
Span(c) == c.lo .. (c.lo + c.n - 1)
Repairing == scan # None /\ pc # "scan"

NextSlot(s) == IF s + 2 > NSlots THEN 0 ELSE s + 1

(* The slot being erased or programmed: the one find_current_slot repairs, *)
(* slot 0 for a format, else the one after the current slot.               *)
Dst == IF Repairing THEN data
       ELSE IF call.op = "format" THEN 0 ELSE NextSlot(data)

Overlay(c, f) == [u \in Units |-> IF u \in DOMAIN f THEN f[u] ELSE c[u]]

(* What the call in progress wants the data to change to.                  *)
Request ==
  IF call.op = "basic_write" THEN [u \in Span(call) \cap Units |-> call.val]
  ELSE IF call.op = "erase_all" THEN BlankContent
  ELSE IF call.op = "commit" /\ txn # None THEN txn
  ELSE [u \in {} |-> Blank]
Goal == Overlay(value, Request)

ErasedSlot == [version |-> {ErasedVersion}, sum |-> {Blank}, sum2 |-> {Blank},
               data |-> [u \in Units |-> {Blank}]]

(* A slot is erased page by page, and its metadata lies in the last page.  *)
(* When the erasure is cut, the units before first are erased, those from  *)
(* first to last disturbed, and the rest is intact; last = NUnits stands   *)
(* for the page of the metadata.                                           *)
HalfErasedSlot(s, first, last) ==
  LET disturb(cell, erased, bad) ==
        IF last = NUnits THEN HalfErased(cell, erased, bad) ELSE cell
  IN  [version |-> disturb(s.version, ErasedVersion,
                           UNION {TornEraseVersion(v) : v \in s.version}),
       sum |-> disturb(s.sum, Blank, {Garbage}),
       sum2 |-> disturb(s.sum2, Blank, {Garbage}),
       data |-> [u \in Units |->
                   IF u < first THEN {Blank}
                   ELSE IF u <= last THEN HalfErased(s.data[u], Blank, {Garbage})
                   ELSE s.data[u]]]

-----------------------------------------------------------------------------
(* Calls. The application is sequential: it makes one call at a time, on   *)
(* an area that was formatted or never written.                            *)

(* Discipline: a transaction is aborted after one of its calls raised an   *)
(* error, and a format that was cut is done again.                         *)
Disciplined(op) ==
  /\ op \in TransactionOps \ {"start"} => ~spoiled
  /\ formatted = "formatting" => op = "format"

(* No update starts when a slot may hold version MaxVersion.                *)
VersionBound ==
  \A s \in Slots : \A x \in nvm[s].sum \ {Blank, Garbage} : x[2] < MaxVersion

Calls == [op : Ops, val : Val \cup {Blank}, lo : 0..(NUnits + 1),
          n : 1..NUnits, aligned : BOOLEAN]

Call(c) ==
  /\ pc = "idle"
  /\ Disciplined(c.op)
  /\ c.op \in UpdateOps => VersionBound
  /\ pc' = "enter"
  /\ call' = c
  /\ err' = None
  /\ out' = None
  /\ UNCHANGED <<nvm, data, tracker, todo, meta, scan, spoiled, formatted,
                 cur, value, pending, txn>>

Args(op, lo, n, val, aligned) ==
  [op |-> op, val |-> val, lo |-> lo, n |-> n, aligned |-> aligned]
Plain(op) == Args(op, 0, 1, Blank, TRUE)

CallPlain ==
  \E op \in {"erase_all", "start", "commit", "format"} : Call(Plain(op))

(* lftl_read, lftl_transaction_read and their dispatcher lftl_read_newer.  *)
CallRead ==
  \E lo \in 0..(NUnits + 1), n \in 1..NUnits :
    Call(Args("read", lo, n, Blank, TRUE))

(* lftl_transaction_read checks no range: its inputs stay inside the data. *)
CallTransactionRead ==
  \E lo \in Units, n \in 1..NUnits :
    /\ lo + n <= NUnits
    /\ Call(Args("transaction_read", lo, n, Blank, TRUE))

(* lftl_basic_write, which is also lftl_write and lftl_write_any while no  *)
(* transaction is open.                                                    *)
CallBasicWrite ==
  \E lo \in 0..(NUnits + 1), n \in 1..NUnits, v \in Val :
    Call(Args("basic_write", lo, n, v, TRUE))

(* lftl_transaction_write, which is also lftl_write and lftl_write_any in  *)
(* a transaction.                                                          *)
CallTransactionWrite ==
  \E lo \in 0..(NUnits + 1), n \in 1..NUnits, v \in Val, a \in BOOLEAN :
    Call(Args("transaction_write", lo, n, v, a))

(* lftl_transaction_abort                                                  *)
Abort ==
  /\ pc = "idle"
  /\ formatted # "formatting"
  /\ tracker' = None
  /\ txn' = None
  /\ spoiled' = FALSE
  /\ UNCHANGED <<nvm, data, run, err, formatted, cur, value, pending, out>>

-----------------------------------------------------------------------------
(* Outcomes of a call.                                                     *)

Quit ==
  /\ pc' = "idle"
  /\ call' = NoCall
  /\ todo' = {}
  /\ meta' = None
  /\ scan' = None

(* error_handler does not return: the call is abandoned where it stands.   *)
Harmless == {"TRANSACTION_ONGOING", "NO_TRANSACTION"}
Raise(e) ==
  /\ Quit
  /\ err' = e
  /\ spoiled' = (spoiled \/ (call.op \in TransactionOps /\ e \notin Harmless))

(* The checks made before the current slot is known, in the code's order.  *)
Addressed == {"read", "basic_write", "transaction_write"}
Check ==
  IF call.op = "start" /\ tracker # None THEN "TRANSACTION_ONGOING"
  ELSE IF call.op \in TransactionOps \ {"start"} /\ tracker = None
    THEN "NO_TRANSACTION"
  ELSE IF call.op = "transaction_write" /\ Span(call) \cap tracker # {}
    THEN "TRANSACTION_OVERWRITE"
  ELSE IF call.op = "transaction_write" /\ ~call.aligned THEN "MISALIGNED"
  ELSE IF call.op \in Addressed /\ call.lo > NUnits THEN "FIRST_NOT_IN_DATA"
  ELSE None

(* The checks made once it is.                                             *)
CheckResolved ==
  IF call.op \in Addressed /\ call.lo + call.n > NUnits
    THEN "LAST_NOT_IN_DATA"
  ELSE IF call.op \in {"basic_write", "erase_all"} /\ tracker # None
    THEN "TRANSACTION_ONGOING"
  ELSE None

(* Mutant: the loop marks one unit too many.                               *)
MarkedOneMore == call.lo .. (call.lo + call.n)

(* lftl_transaction_write marks unit after unit until it meets a marked    *)
(* one, and before write_core checks anything.                             *)
Marked == {u \in Span(call) : \A w \in Span(call) : w <= u => w \notin tracker}
Mark == tracker' = IF call.op = "transaction_write" /\ tracker # None
                     THEN tracker \cup Marked ELSE tracker

(* The calls that translate an address, and so search when ctx->data is    *)
(* invalid.  In a transaction that is only the case after a stray erase.   *)
Searches == {"read", "basic_write", "erase_all"}
Resolves == Searches \cup {"transaction_write", "commit"}

Refuse ==
  /\ pc = "enter"
  /\ \/ Check # None /\ Raise(Check)
     \/ /\ Check = None
        /\ call.op \in Resolves => data # None
        /\ CheckResolved # None
        /\ Raise(CheckResolved)
  /\ Mark
  /\ UNCHANGED <<nvm, data, formatted, history>>

(* The call passes all its checks.                                         *)
Enter(op) ==
  /\ pc = "enter"
  /\ call.op = op
  /\ Check = None
  /\ CheckResolved = None
  /\ op \in Resolves => data # None

DataReadings(s) == {d \in Content : \A u \in Units : d[u] \in s.data[u]}

(* lftl_read                                                               *)
Read ==
  /\ Enter("read")
  /\ \E d \in DataReadings(nvm[data]) : out' = [u \in Span(call) |-> d[u]]
  /\ Quit
  /\ UNCHANGED <<nvm, data, tracker, app, cur, value, pending, txn>>

(* Mutant: the units written by the transaction are not looked up.         *)
TransactionReadOld ==
  /\ Enter("transaction_read")
  /\ \E d \in DataReadings(nvm[data]) : out' = [u \in Span(call) |-> d[u]]
  /\ Quit
  /\ UNCHANGED <<nvm, data, tracker, app, cur, value, pending, txn>>

(* lftl_transaction_read: the units marked in the tracker come from the    *)
(* next slot, the others from the current one.  It does not search: with   *)
(* ctx->data invalid it returns whatever lies at that address.             *)
TransactionRead ==
  /\ Enter("transaction_read")
  /\ \E d \in IF data = None THEN Content ELSE DataReadings(nvm[data]) :
     \E e \in IF data = None THEN Content ELSE DataReadings(nvm[NextSlot(data)]) :
       out' = [u \in Span(call) |-> IF u \in tracker THEN e[u] ELSE d[u]]
  /\ Quit
  /\ UNCHANGED <<nvm, data, tracker, app, cur, value, pending, txn>>

(* lftl_erase_all programs no data: all of it is in the range to erase.    *)
EraseAll == Enter("erase_all") /\ todo' = {}

(* lftl_basic_write and lftl_erase_all, up to the erasure.                 *)
BeginUpdate ==
  /\ (Enter("basic_write") /\ todo' = Units) \/ EraseAll
  /\ pc' = "erase"
  /\ UNCHANGED <<nvm, data, tracker, call, meta, scan, app, history>>

(* lftl_transaction_start registers the tracker, then erases the next      *)
(* slot. It does not search: with ctx->data invalid, next_slot computes a  *)
(* slot whose address wraps round to less than a slot size.  The drivers   *)
(* of the STM32s and of Linux refuse it; the one of the CH32V307 takes it  *)
(* for an alias of the start of the flash and erases there, outside the    *)
(* area: the call returns, and the next slot was not erased.               *)
Start ==
  /\ Enter("start")
  /\ tracker' = {}
  /\ IF data # None
       THEN /\ pc' = "erase"
            /\ spoiled' = FALSE
            /\ UNCHANGED <<call, todo, meta, scan, err, txn>>
       ELSE IF StrayErase
              THEN /\ Quit
                   /\ txn' = [u \in {} |-> Blank]
                   /\ spoiled' = FALSE
                   /\ UNCHANGED err
              ELSE Raise("LOW_LEVEL_ERASE") /\ UNCHANGED txn
  /\ UNCHANGED <<nvm, data, formatted, cur, value, pending, out>>

(* lftl_transaction_write                                                  *)
TransactionWrite ==
  /\ Enter("transaction_write")
  /\ Mark
  /\ pc' = "program"
  /\ todo' = Span(call)
  /\ UNCHANGED <<nvm, data, call, meta, scan, app, history>>

(* Mutant: the units of the transaction are copied too.                    *)
CommitAll ==
  /\ Enter("commit")
  /\ todo' = Units
  /\ pc' = "program"
  /\ UNCHANGED <<nvm, data, tracker, call, meta, scan, app, history>>

(* lftl_transaction_commit copies the units that are not marked.           *)
Commit ==
  /\ Enter("commit")
  /\ todo' = Units \ tracker
  /\ pc' = IF Units \subseteq tracker THEN "seal" ELSE "program"
  /\ UNCHANGED <<nvm, data, tracker, call, meta, scan, app, history>>

(* lftl_format. An open transaction stays open.                            *)
Format ==
  /\ Enter("format")
  /\ pc' = "erase"
  /\ formatted' = "formatting"
  /\ UNCHANGED <<nvm, data, tracker, call, todo, meta, scan, err, spoiled, history>>

-----------------------------------------------------------------------------
(* find_current_slot, one slot per step.  A write of a transaction that    *)
(* has to search marks its units before; here it does when the search has  *)
(* ended.                                                                  *)

BeginSearch ==
  /\ pc = "enter"
  /\ Check = None
  /\ call.op \in Resolves
  /\ data = None
  /\ pc' = "scan"
  /\ scan' = [i |-> 0, max |-> 0, best |-> None]
  /\ UNCHANGED <<nvm, data, tracker, call, todo, meta, app, history>>

Readings(s) == {[version |-> v, sum |-> c, sum2 |-> c2, data |-> d] :
                 v \in s.version, c \in s.sum, c2 \in s.sum2,
                 d \in DataReadings(s)}

(* Reading slot s once more after it returned r.                           *)
Rereadings(s, r) == IF StableReads THEN {r} ELSE Readings(s)

(* slot_integrity_check_ok: checksum() + version against the stored word.  *)
IntegrityOk(r) == r.sum = <<r.data, r.version>>

(* Slot scan.i is skipped, becomes the best one, or collides. The version  *)
(* is compared with the best one before the integrity check.               *)
ScanSlot ==
  /\ pc = "scan"
  /\ scan.i < NSlots
  /\ \E r \in Readings(nvm[scan.i]) : \E r2 \in Rereadings(nvm[scan.i], r) :
       LET skip == r.version = InvalidVersion
           newer == ~skip /\ r.version > scan.max /\ IntegrityOk(r2)
       IN  /\ skip \/ r.version # scan.max
           /\ scan' = [i |-> scan.i + 1,
                       max |-> IF newer THEN r.version ELSE scan.max,
                       best |-> IF newer THEN [slot |-> scan.i, reading |-> r2]
                                ELSE scan.best]
  /\ UNCHANGED <<nvm, data, tracker, pc, call, todo, meta, app, history>>

ScanCollides ==
  /\ pc = "scan"
  /\ scan.i < NSlots
  /\ scan.max \in nvm[scan.i].version \ {InvalidVersion}
  /\ Raise("VERSION_COLLISION")
  /\ UNCHANGED <<nvm, data, tracker, formatted, history>>

NoValidVersion ==
  /\ pc = "scan"
  /\ scan.i = NSlots
  /\ scan.best = None
  /\ Raise("NO_VALID_VERSION")
  /\ UNCHANGED <<nvm, data, tracker, formatted, history>>

(* The search settles on slot s: an update in doubt there has taken effect.*)
Settle(s) ==
  /\ cur' = s
  /\ value' = IF s # cur /\ pending # None THEN pending ELSE value
  /\ pending' = IF s # cur THEN None ELSE pending
  /\ UNCHANGED <<txn, out>>

(* Mutant: the elected slot is used without a repair.                      *)
ResolveNoRepair ==
  /\ pc = "scan"
  /\ scan.i = NSlots
  /\ scan.best # None
  /\ data' = scan.best.slot
  /\ pc' = "enter"
  /\ scan' = None
  /\ Settle(scan.best.slot)
  /\ UNCHANGED <<nvm, tracker, call, todo, meta, app>>

(* ctx->data is set, the metadata read, and written again when checksum2   *)
(* does not confirm checksum.  NvmError has the case where this read fails *)
(* and leaves ctx->data set.                                               *)
Resolve ==
  /\ pc = "scan"
  /\ scan.i = NSlots
  /\ scan.best # None
  /\ data' = scan.best.slot
  /\ \E r \in Rereadings(nvm[scan.best.slot], scan.best.reading) :
       IF r.sum = r.sum2
         THEN /\ pc' = "enter"
              /\ scan' = None
              /\ Settle(scan.best.slot)
              /\ UNCHANGED meta
         ELSE /\ pc' = "version"
              /\ meta' = [version |-> r.version, sum |-> r.sum]
              /\ UNCHANGED <<scan, history>>
  /\ UNCHANGED <<nvm, tracker, call, todo, app>>

-----------------------------------------------------------------------------
(* Flash operations: erase_slot, the nvm_write of write_core and           *)
(* lftl_transaction_commit, write_meta and write_meta_core.                *)

EraseSlot ==
  /\ pc = "erase"
  /\ call.op # "format"
  /\ nvm' = [nvm EXCEPT ![Dst] = ErasedSlot]
  /\ pending' = None
  /\ IF call.op = "start"
       THEN Quit /\ txn' = [u \in {} |-> Blank]
       ELSE /\ pc' = IF todo = {} THEN "seal" ELSE "program"
            /\ UNCHANGED <<call, todo, meta, scan, txn>>
  /\ UNCHANGED <<data, tracker, app, cur, value, out>>

EraseArea ==
  /\ pc = "erase"
  /\ call.op = "format"
  /\ nvm' = [s \in Slots |-> ErasedSlot]
  /\ data' = 0
  /\ pc' = "seal"
  /\ UNCHANGED <<tracker, call, todo, meta, scan, app, history>>

(* Units are programmed in ascending order: new content for those written, *)
(* the current slot's for those copied.                                    *)
NextUnit(u) == u \in todo /\ \A w \in todo : u <= w
Source(u) ==
  IF call.op \in {"basic_write", "transaction_write"} /\ u \in Span(call)
    THEN {call.val} ELSE nvm[data].data[u]

ProgramUnit ==
  /\ pc = "program"
  /\ \E u \in todo : \E x \in Source(u) :
       /\ NextUnit(u)
       /\ nvm' = [nvm EXCEPT ![Dst].data[u] =
                    Programmed(@, Blank, x, {Garbage})]
       /\ todo' = todo \ {u}
  /\ IF todo' # {} THEN UNCHANGED <<pc, call, meta, scan, txn>>
     ELSE IF call.op = "transaction_write"
       THEN /\ pc' = "idle" /\ call' = NoCall
            /\ txn' = IF txn = None THEN None
                      ELSE [u \in Span(call) \cup DOMAIN txn |->
                              IF u \in Span(call) THEN call.val ELSE txn[u]]
            /\ UNCHANGED <<meta, scan>>
     ELSE pc' = "seal" /\ UNCHANGED <<call, meta, scan, txn>>
  /\ UNCHANGED <<data, tracker, app, cur, value, pending, out>>

(* Mutant: only the version written by a format is incremented.            *)
SuccStale(v) == IF v = 0 THEN 1 ELSE v

(* Versions are 32-bit words.                                              *)
Succ(v) == IF v = InvalidVersion THEN 0 ELSE v + 1

(* write_meta: the next version, and the checksum of what the slot now     *)
(* reads as.                                                               *)
Seal ==
  /\ pc = "seal"
  /\ \E v \in IF call.op = "format" THEN {0} ELSE nvm[data].version :
     \E d \in DataReadings(nvm[Dst]) :
       meta' = [version |-> Succ(v), sum |-> <<d, Succ(v)>>]
  /\ pc' = "version"
  /\ UNCHANGED <<nvm, data, tracker, call, todo, scan, app, history>>

WriteVersion ==
  /\ pc = "version"
  /\ nvm' = [nvm EXCEPT ![Dst].version =
               Programmed(@, ErasedVersion, meta.version,
                          TornProgramVersion(meta.version))]
  /\ pc' = "sum"
  /\ UNCHANGED <<data, tracker, call, todo, meta, scan, app, history>>

WriteSum ==
  /\ pc = "sum"
  /\ nvm' = [nvm EXCEPT ![Dst].sum = Programmed(@, Blank, meta.sum, {Garbage})]
  /\ pc' = "sum2"
  /\ UNCHANGED <<data, tracker, call, todo, meta, scan, app, history>>

(* The last word. The call returns, or resumes after a repair.             *)
ProgramSum2 ==
  /\ pc = "sum2"
  /\ nvm' = [nvm EXCEPT ![Dst].sum2 = Programmed(@, Blank, meta.sum, {Garbage})]

(* Mutant: ctx->data is only set when there is nothing to repair.          *)
RepairDoneForgets ==
  /\ Repairing
  /\ ProgramSum2
  /\ pc' = "enter"
  /\ scan' = None
  /\ meta' = None
  /\ Settle(data)
  /\ data' = None
  /\ UNCHANGED <<tracker, call, todo, app>>

RepairDone ==
  /\ Repairing
  /\ ProgramSum2
  /\ pc' = "enter"
  /\ scan' = None
  /\ meta' = None
  /\ Settle(data)
  /\ UNCHANGED <<data, tracker, call, todo, app>>

(* Mutant: a commit leaves ctx->data on the slot it replaced.              *)
UpdateDoneKeepsData ==
  /\ ~Repairing
  /\ call.op \in UpdateOps
  /\ ProgramSum2
  /\ Quit
  /\ data' = IF call.op = "commit" THEN data ELSE Dst
  /\ tracker' = IF call.op = "commit" THEN None ELSE tracker
  /\ txn' = IF call.op = "commit" THEN None ELSE txn
  /\ cur' = Dst
  /\ value' = Goal
  /\ pending' = None
  /\ UNCHANGED <<app, out>>

UpdateDone ==
  /\ ~Repairing
  /\ call.op \in UpdateOps
  /\ ProgramSum2
  /\ Quit
  /\ data' = Dst
  /\ tracker' = IF call.op = "commit" THEN None ELSE tracker
  /\ txn' = IF call.op = "commit" THEN None ELSE txn
  /\ cur' = Dst
  /\ value' = Goal
  /\ pending' = None
  /\ UNCHANGED <<app, out>>

(* A transaction that is open keeps its marks and loses what it wrote.     *)
FormatDone ==
  /\ call.op = "format"
  /\ ProgramSum2
  /\ Quit
  /\ formatted' = "done"
  /\ cur' = 0
  /\ value' = BlankContent
  /\ pending' = None
  /\ txn' = IF txn = None THEN None ELSE [u \in DOMAIN txn |-> Blank]
  /\ UNCHANGED <<data, tracker, err, spoiled, out>>

-----------------------------------------------------------------------------
(* Interruptions.                                                          *)

(* The flash after the operation in progress was cut: the power failed, or *)
(* the driver reported an error.                                           *)
CutShort ==
  \/ /\ pc = "erase"
     /\ call.op # "format"
     /\ \E last \in 0..NUnits : \E first \in 0..last :
          nvm' = [nvm EXCEPT ![Dst] = HalfErasedSlot(@, first, last)]
  \/ /\ pc = "erase"   \* nothing is read before the next format
     /\ call.op = "format"
     /\ nvm' = [s \in Slots |-> HalfErasedSlot(nvm[s], 0, NUnits)]
  \/ /\ pc = "program"
     /\ \E u \in todo : \E x \in Source(u) :
          /\ NextUnit(u)
          /\ nvm' = [nvm EXCEPT ![Dst].data[u] =
                       HalfProgrammed(@, x, {Garbage})]
  \/ /\ pc = "version"
     /\ nvm' = [nvm EXCEPT ![Dst].version =
                  HalfProgrammed(@, meta.version,
                                 TornProgramVersion(meta.version))]
  \/ /\ pc = "sum"
     /\ nvm' = [nvm EXCEPT ![Dst].sum = HalfProgrammed(@, meta.sum, {Garbage})]
  \/ /\ pc = "sum2"
     /\ nvm' = [nvm EXCEPT ![Dst].sum2 = HalfProgrammed(@, meta.sum, {Garbage})]

Interrupted ==
  /\ CutShort \/ nvm' = nvm
  /\ pending' = IF /\ ~Repairing
                   /\ call.op \in UpdateOps
                   /\ pc = "sum2" \/ (pc = "sum" /\ nvm' # nvm)
                THEN Goal ELSE pending

(* RAM is lost; the application sets up its contexts again.                *)
Reset ==
  /\ Interrupted
  /\ Quit
  /\ data' = None
  /\ tracker' = None
  /\ err' = None
  /\ spoiled' = FALSE
  /\ txn' = None
  /\ out' = None
  /\ UNCHANGED <<formatted, cur, value>>

(* A callback returns a non-zero status. RAM is kept: when find_current_slot *)
(* fails to read the metadata of the slot it elected ("reread"), ctx->data *)
(* already designates that slot.                                           *)
NvmError ==
  /\ \/ /\ (IF Repairing THEN "repair" ELSE pc) \in FaultyOps
        /\ Interrupted
        /\ UNCHANGED data
     \/ /\ "reread" \in FaultyOps
        /\ pc = "scan" /\ scan.i = NSlots /\ scan.best # None
        /\ data' = scan.best.slot
        /\ UNCHANGED <<nvm, pending>>
  /\ Raise("LOW_LEVEL")
  /\ UNCHANGED <<tracker, formatted, cur, value, txn, out>>

-----------------------------------------------------------------------------
NeverWritten == [s \in Slots |-> ErasedSlot]

Init ==
  /\ nvm = NeverWritten
  /\ data = None
  /\ tracker = None
  /\ pc = "idle" /\ call = NoCall /\ todo = {} /\ meta = None /\ scan = None
  /\ err = None /\ spoiled = FALSE /\ formatted = "never"
  /\ cur = 0
  /\ value = BlankContent
  /\ pending = None /\ txn = None /\ out = None

Calling == CallPlain \/ CallRead \/ CallTransactionRead \/ CallBasicWrite
           \/ CallTransactionWrite \/ Abort

Step ==
  \/ Refuse \/ Read \/ TransactionRead \/ BeginUpdate \/ Start
  \/ TransactionWrite \/ Commit \/ Format
  \/ BeginSearch \/ ScanSlot \/ ScanCollides \/ NoValidVersion \/ Resolve
  \/ EraseSlot \/ EraseArea \/ ProgramUnit \/ Seal
  \/ WriteVersion \/ WriteSum \/ RepairDone \/ UpdateDone \/ FormatDone

Next == Calling \/ Step \/ NvmError \/ Reset

Spec == Init /\ [][Next]_vars
-----------------------------------------------------------------------------
(* Properties.                                                             *)

(* Type correctness of the context, the call in progress and the flash.    *)
TypeOK ==
  /\ nvm \in [Slots -> SlotCells]
  /\ data \in Slots \cup {None}
  /\ tracker \in Trackers \cup {None}
  /\ pc \in Pcs
  /\ call \in Calls \cup {NoCall}
  /\ todo \in SUBSET Units
  /\ meta \in Metas \cup {None}
  /\ scan \in Scans \cup {None}
  /\ err \in Errors \cup {None}
  /\ spoiled \in BOOLEAN
  /\ formatted \in {"never", "formatting", "done"}
  /\ cur \in Slots
  /\ value \in Content
  /\ pending \in Content \cup {None}
  /\ txn \in Partial \cup {None}

(* Slot s may pass the integrity check as version v of the data d.         *)
MayHold(s, d, v) ==
  /\ v \in nvm[s].version \ {InvalidVersion}
  /\ <<d, v>> \in nvm[s].sum
  /\ \A u \in Units : d[u] \in nvm[s].data[u]

(* Slot s holds d as version v whatever the next resets read.              *)
Holds(s, d, v) ==
  /\ Sound(nvm[s].version, v)
  /\ Sound(nvm[s].sum, <<d, v>>)
  /\ \A u \in Units : Sound(nvm[s].data[u], d[u])

(* What a reset at this point may turn into the committed data.            *)
InDoubt == {pending} \cup
  (IF pc = "sum2" /\ ~Repairing /\ call.op \in UpdateOps THEN {Goal} ELSE {})

(* Anti-tearing: whatever was interrupted and whatever weak cells read as, *)
(* the only copies a search can elect are the committed data, held soundly *)
(* by one slot, and the update left in doubt, in the next slot and one     *)
(* version higher.                                                         *)
AntiTearing ==
  formatted = "done" =>
    \E vc \in nvm[cur].version :
      /\ Holds(cur, value, vc)
      /\ \A s \in Slots \ {cur} : \A x \in nvm[s].sum \ {Blank, Garbage} :
           MayHold(s, x[1], x[2]) =>
             \/ x[2] < vc
             \/ s = NextSlot(cur) /\ x[2] = vc + 1 /\ x[1] \in InDoubt

(* Once formatted, an area is never refused by find_current_slot, however  *)
(* many resets cut however many updates.                                   *)
SearchSucceeds ==
  err \in {"VERSION_COLLISION", "NO_VALID_VERSION"} => formatted = "never"

(* A transaction can be the first use of a context after a reset: as long  *)
(* as the driver works, lftl_transaction_start erases a slot of the area,  *)
(* and the transaction it opens knows the current slot.                    *)
TransactionStarts ==
  formatted = "done" =>
    err # "LOW_LEVEL_ERASE" /\ (tracker # None /\ ~spoiled => data # None)

(* No program pulse hits a cell that was not erased first, except to write *)
(* again what it holds: flash programmed twice reads as garbage.           *)
NothingOverprogrammed ==
  \A s \in Slots :
    /\ \A u \in Units : ~Sound(nvm[s].data[u], Garbage)
    /\ ~Sound(nvm[s].sum, Garbage)
    /\ ~Sound(nvm[s].sum2, Garbage)

(* Wear leveling: outside a format, the slot that gets erased is never the *)
(* one that holds the data, and among the slots that hold old data it is   *)
(* the one with the oldest, so that slots are worn in turn.                *)
OldestErased ==
  [][\A s \in Slots :
       (/\ nvm'[s] # nvm[s]
        /\ nvm'[s] = ErasedSlot
        /\ call.op # "format")
       => /\ s # cur
          /\ \A t \in Slots \ {s} :
               \A x \in nvm[s].sum \ {Blank, Garbage},
                  y \in nvm[t].sum \ {Blank, Garbage} :
                 Holds(s, x[1], x[2]) /\ Holds(t, y[1], y[2])
                   => x[2] < y[2] \/ x[1] = pending]_vars

(* A bound on the steps the call in progress still has to take: the slots  *)
(* to search, the words to repair, then the units and words to program.    *)
StepsLeft ==
  LET searching == IF pc = "scan" THEN NSlots - scan.i + 4
                   ELSE IF pc = "enter" /\ data = None THEN NSlots + 5 ELSE 0
      executing == [idle |-> 0, sum2 |-> 1, sum |-> 2, version |-> 3, seal |-> 4,
                    program |-> 4 + Cardinality(todo), erase |-> NUnits + 5,
                    enter |-> NUnits + 6, scan |-> NUnits + 6]
  IN  searching + executing[pc] + (IF Repairing THEN executing["enter"] ELSE 0)

(* Every call ends, with a result or an error: no step of a call, and no   *)
(* repair it makes on the way, takes it back to where it was.              *)
CallEnds == [][pc # "idle" => StepsLeft' < StepsLeft]_vars
=============================================================================
