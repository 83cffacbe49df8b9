--------------------------- MODULE LftlAreaProofs ---------------------------
(***************************************************************************)
(* What each step of LftlArea keeps, proved for every size of the ring and *)
(* of the data.                                                            *)
(*                                                                         *)
(* First the types: TypeOK together with Control, the facts that tie the   *)
(* RAM variables to the place a call has reached.  Nothing is assumed of   *)
(* the flash, the driver or the application, and the lemmas follow the     *)
(* order of the actions in LftlArea.                                       *)
(*                                                                         *)
(* Then anti-tearing, on sound flash: each step keeps IInv of LftlAreaInv. *)
(* The steps are grouped by what they touch: those that only change RAM,   *)
(* those that end a search, those that operate on the flash, and           *)
(* interruptions.                                                          *)
(***************************************************************************)
EXTENDS LftlAreaInv, TLAPS

USE DEF Slots, Units, VersionWords, InvalidVersion

(* next_slot stays inside the ring and never returns the current slot.     *)
LEMMA NextSlotType ==
  ASSUME NEW s \in Slots
  PROVE  NextSlot(s) \in Slots /\ NextSlot(s) # s
BY SlotsAssumption DEF NextSlot

(* What erased flash reads as is well typed.                               *)
LEMMA BlankTypes == /\ Blank \in Data /\ Garbage \in Data
                    /\ ErasedVersion \in VersionWords
                    /\ BlankContent \in Content
                    /\ ErasedSlot \in SlotCells
<1>1. Blank \in Data /\ Garbage \in Data
  BY DEF Data
<1>2. ErasedVersion \in VersionWords
  BY VersionAssumption
<1>3. BlankContent \in Content
  BY <1>1 DEF BlankContent, Content
<1>4. ErasedSlot \in SlotCells
  BY <1>1, <1>2 DEF ErasedSlot, SlotCells
<1> QED BY <1>1, <1>2, <1>3, <1>4

(* The context starts well typed, with no call in progress.                *)
LEMMA InitTyped == Init => TypeOK /\ Control
<1> SUFFICES ASSUME Init PROVE TypeOK /\ Control
  OBVIOUS
<1>1. nvm \in [Slots -> SlotCells]
  <2>1. nvm = [s \in Slots |-> ErasedSlot]
    BY DEF Init, NeverWritten
  <2> HIDE DEF Slots
  <2> QED BY <2>1, BlankTypes
<1>2. 0 \in Slots
  BY SlotsAssumption
<1>3. TypeOK
  BY <1>1, <1>2, BlankTypes DEF Init, TypeOK, Pcs
<1>4. Control
  BY DEF Init, Control, Repairing, NoCall, FlashPcs, MetaPcs, Searches, Resolves, UpdateOps, TransactionOps
<1> QED BY <1>3, <1>4

(* The slot a flash operation targets is a slot of the area.               *)
LEMMA DstTyped ==
  ASSUME TypeOK, Control, pc \in FlashPcs
  PROVE  Dst \in Slots
<1>1. 0 \in Slots
  BY SlotsAssumption
<1> QED
  BY <1>1, NextSlotType DEF Dst, TypeOK, Control, FlashPcs, MetaPcs

(* A flash operation on a cell leaves readings of the same type.           *)
LEMMA CellTypes ==
  ASSUME NEW S, NEW cell \in SUBSET S, NEW bad \in SUBSET S,
         NEW x \in S, NEW e \in S
  PROVE  /\ Programmed(cell, e, x, bad) \in SUBSET S
         /\ HalfProgrammed(cell, x, bad) \in SUBSET S
         /\ HalfErased(cell, e, bad) \in SUBSET S
BY DEF Programmed, HalfProgrammed, HalfErased


(* A call that ends leaves no trace in the working variables.              *)
LEMMA QuitTyped ==
  ASSUME Quit
  PROVE  /\ pc' = "idle" /\ pc' \in Pcs
         /\ call' = NoCall /\ call'.op = "none"
         /\ todo' = {} /\ meta' = None /\ scan' = None
         /\ ~Repairing'
BY DEF Quit, Pcs, NoCall, Repairing

(* Making a call keeps the types.                                          *)
LEMMA CallTyped ==
  ASSUME TypeOK, Control, NEW c \in Calls, Call(c)
  PROVE  TypeOK' /\ Control'
<1>1. TypeOK'
  BY DEF Call, TypeOK, Pcs
<1>2. Control'
  BY DEF Call, TypeOK, Control, Disciplined, Calls, Ops, UpdateOps, TransactionOps, Searches, Resolves, FlashPcs, MetaPcs, Repairing, NoCall
<1> QED BY <1>1, <1>2

(* The argument lists of the public functions are calls.                   *)
LEMMA ArgsTyped ==
  ASSUME NEW op \in Ops, NEW lo \in 0..(NUnits + 1), NEW n \in 1..NUnits,
         NEW v \in Val \cup {Blank}, NEW a \in BOOLEAN
  PROVE  Args(op, lo, n, v, a) \in Calls
BY UnitsAssumption DEF Args, Calls

(* Every public function the application may call is a Call or an Abort.   *)
LEMMA CallingIsCall ==
  ASSUME Calling
  PROVE  Abort \/ \E c \in Calls : Call(c)
<1>1. CASE CallPlain
  <2>1. PICK op \in {"erase_all", "start", "commit", "format"} : Call(Plain(op))
    BY <1>1 DEF CallPlain
  <2>2. Plain(op) \in Calls
    BY UnitsAssumption DEF Args, Plain, Calls, Ops, UpdateOps, TransactionOps
  <2> QED BY <2>1, <2>2
<1>2. CASE CallRead
  <2>1. PICK lo \in 0..(NUnits + 1), n \in 1..NUnits :
          Call(Args("read", lo, n, Blank, TRUE))
    BY <1>2 DEF CallRead
  <2> QED BY <2>1, ArgsTyped DEF Ops
<1>3. CASE CallTransactionRead
  <2>1. PICK lo \in Units, n \in 1..NUnits :
          Call(Args("transaction_read", lo, n, Blank, TRUE))
    BY <1>3 DEF CallTransactionRead
  <2>2. lo \in 0..(NUnits + 1)
    BY UnitsAssumption
  <2> QED BY <2>1, <2>2, ArgsTyped DEF Ops, TransactionOps
<1>4. CASE CallBasicWrite
  <2>1. PICK lo \in 0..(NUnits + 1), n \in 1..NUnits, v \in Val :
          Call(Args("basic_write", lo, n, v, TRUE))
    BY <1>4 DEF CallBasicWrite
  <2> QED BY <2>1, ArgsTyped DEF Ops, UpdateOps
<1>5. CASE CallTransactionWrite
  <2>1. PICK lo \in 0..(NUnits + 1), n \in 1..NUnits, v \in Val, a \in BOOLEAN :
          Call(Args("transaction_write", lo, n, v, a))
    BY <1>5 DEF CallTransactionWrite
  <2> QED BY <2>1, ArgsTyped DEF Ops, TransactionOps
<1> QED BY <1>1, <1>2, <1>3, <1>4, <1>5 DEF Calling

(* The application only makes well typed calls.                            *)
LEMMA CallingTyped ==
  ASSUME TypeOK, Control, Calling
  PROVE  TypeOK' /\ Control'
<1>1. CASE Abort
  BY <1>1 DEF Abort, run, TypeOK, Control, Repairing
<1>2. CASE \E c \in Calls : Call(c)
  BY <1>2, CallTyped
<1> QED BY <1>1, <1>2, CallingIsCall

(* The units a call addresses, in or out of the data.                      *)
LEMMA SpanTyped ==
  ASSUME TypeOK
  PROVE  /\ Span(call) \subseteq 0..(2 * NUnits)
         /\ call.op \in Ops => call \in Calls
         /\ call \in Calls => call.op \in Ops
<1>1. CASE call = NoCall
  BY <1>1, UnitsAssumption DEF NoCall, Calls, Span, Ops, UpdateOps, TransactionOps
<1>2. CASE call \in Calls
  BY <1>2, UnitsAssumption DEF Calls, Span
<1> QED BY <1>1, <1>2 DEF TypeOK

(* Marking units keeps the tracker well typed, and never opens one.        *)
LEMMA MarkTyped ==
  ASSUME TypeOK, Mark
  PROVE  /\ tracker' \in Trackers \cup {None}
         /\ tracker' = None <=> tracker = None
<1>1. Marked \subseteq 0..(2 * NUnits)
  BY SpanTyped DEF Marked
<1> QED BY <1>1, NoneAssumption DEF Mark, TypeOK, Trackers

(* A refused call keeps the types.                                         *)
LEMMA RefuseTyped ==
  ASSUME TypeOK, Control, Refuse
  PROVE  TypeOK' /\ Control'
<1>1. PICK e \in Errors : Raise(e)
  BY NoneAssumption DEF Refuse, Check, CheckResolved, Errors
<1>2. Quit /\ err' \in Errors /\ spoiled' \in BOOLEAN /\ (spoiled => spoiled')
  BY <1>1 DEF Raise, TypeOK
<1>3. TypeOK'
  BY <1>2, QuitTyped, MarkTyped DEF Refuse, history, TypeOK
<1>4. Control'
  BY <1>2, QuitTyped, MarkTyped
     DEF Refuse, history, Control, FlashPcs, MetaPcs, Searches, Resolves, UpdateOps, TransactionOps
<1> QED BY <1>3, <1>4

(* What a slot reads as is well typed.                                     *)
LEMMA DataReadingsTyped ==
  ASSUME NEW s \in SlotCells, NEW d \in DataReadings(s)
  PROVE  d \in Content /\ \A u \in Units : d[u] \in s.data[u]
BY DEF DataReadings

(* The steps that only read.                                               *)
LEMMA ReadTyped ==
  ASSUME TypeOK, Control, Read \/ TransactionRead
  PROVE  TypeOK' /\ Control'
<1>1. Quit /\ UNCHANGED <<nvm, data, tracker, app, cur, value, pending, txn>>
  BY DEF Read, TransactionRead
<1>2. TypeOK'
  BY <1>1, QuitTyped DEF app, TypeOK
<1>3. Control'
  BY <1>1, QuitTyped
     DEF app, Control, FlashPcs, MetaPcs, Searches, Resolves, UpdateOps, TransactionOps
<1> QED BY <1>2, <1>3

(* What a call that passes its checks may rely on.                         *)
LEMMA EnterTyped ==
  ASSUME TypeOK, Control, NEW op \in Ops, Enter(op)
  PROVE  /\ pc = "enter" /\ call.op = op /\ call \in Calls
         /\ todo = {} /\ scan = None /\ ~Repairing
         /\ op \in Resolves => data # None
         /\ op \in TransactionOps \ {"start"} => tracker # None
         /\ op \in TransactionOps \ {"start"} /\ ~StrayErase => data # None
         /\ op = "start" => tracker = None
         /\ op \in Addressed => Span(call) \subseteq Units
         /\ op = "transaction_write" => Span(call) \cap tracker = {}
         /\ op \in {"basic_write", "erase_all"} => tracker = None
<1>1. pc = "enter" /\ call.op = op /\ call \in Calls
  BY SpanTyped DEF Enter
<1>2. todo = {} /\ scan = None /\ ~Repairing
  BY <1>1 DEF Control, Repairing, MetaPcs
<1>3. op \in Resolves => data # None
  BY DEF Enter
<1>4. op \in TransactionOps \ {"start"} =>
        tracker # None /\ (~StrayErase => data # None)
  BY <1>1, NoneAssumption DEF Errors, Enter, Check, Control
<1>5. op = "start" => tracker = None
  BY <1>1, NoneAssumption DEF Errors, Enter, Check
<1>6. op \in Addressed => Span(call) \subseteq Units
  <2> SUFFICES ASSUME op \in Addressed
               PROVE  Span(call) \subseteq Units
    OBVIOUS
  <2>2. call.lo \in Nat /\ call.n \in Nat
    BY <1>1, UnitsAssumption DEF Calls
  <2>3. ~(call.lo + call.n > NUnits)
    BY <1>1, NoneAssumption DEF Errors, Enter, CheckResolved
  <2>1. call.lo + call.n <= NUnits
    BY <2>2, <2>3, UnitsAssumption
  <2> QED BY <2>1, <2>2, UnitsAssumption DEF Span
<1>7. op = "transaction_write" => Span(call) \cap tracker = {}
  BY <1>1, NoneAssumption DEF Errors, Enter, Check, TransactionOps
<1>8. op \in {"basic_write", "erase_all"} => tracker = None
  BY <1>1, NoneAssumption DEF Errors, Enter, CheckResolved
<1> QED BY <1>1, <1>2, <1>3, <1>4, <1>5, <1>6, <1>7, <1>8


(* Beginning an update keeps the types.                                    *)
LEMMA BeginTyped ==
  ASSUME TypeOK, Control, BeginUpdate \/ TransactionWrite \/ Commit \/ Format
  PROVE  TypeOK' /\ Control'
<1> USE DEF Ops, UpdateOps, TransactionOps, Searches, Resolves, FlashPcs, MetaPcs
<1>1. CASE BeginUpdate
  <2>1. PICK op \in {"basic_write", "erase_all"} :
          Enter(op) /\ todo' = (IF op = "basic_write" THEN Units ELSE {})
    BY <1>1 DEF BeginUpdate, EraseAll
  <2>2. UNCHANGED <<nvm, data, tracker, call, meta, scan, app, history>> /\ pc' = "erase"
    BY <1>1 DEF BeginUpdate, EraseAll
  <2>3. TypeOK'
    BY <2>1, <2>2 DEF TypeOK, app, history, Pcs
  <2>4. Control'
    BY <2>1, <2>2, EnterTyped DEF Control, app, Repairing
  <2> QED BY <2>3, <2>4
<1>2. CASE TransactionWrite
  <2>1. Enter("transaction_write") /\ Mark /\ pc' = "program" /\ todo' = Span(call)
        /\ UNCHANGED <<nvm, data, call, meta, scan, app, history>>
    BY <1>2 DEF TransactionWrite
  <2>2. Span(call) \subseteq Units
    BY <2>1, EnterTyped DEF Addressed
  <2>3. TypeOK'
    BY <2>1, <2>2, MarkTyped DEF TypeOK, app, history, Pcs
  <2>4. Span(call) # {}
    BY <2>1, EnterTyped DEF Control, Calls, Span
  <2>5. Control'
    BY <2>1, <2>2, <2>4, EnterTyped, MarkTyped DEF Control, app, Repairing, Span
  <2> QED BY <2>3, <2>5
<1>3. CASE Commit
  <2>1. Enter("commit") /\ todo' = Units \ tracker
        /\ UNCHANGED <<nvm, data, tracker, call, meta, scan, app, history>>
        /\ pc' = (IF Units \subseteq tracker THEN "seal" ELSE "program")
    BY <1>3 DEF Commit
  <2>2. TypeOK'
    BY <2>1 DEF TypeOK, app, history, Pcs
  <2>3. /\ call.op = "commit" /\ pc' \in {"seal", "program"} /\ scan = None
        /\ data # None /\ tracker # None
        /\ pc' = "seal" => todo' = {}
        /\ pc' = "program" => todo' # {}
    BY <2>1, EnterTyped
  <2>4. Control'
    BY <2>1, <2>3 DEF Control, app, Repairing
  <2> QED BY <2>2, <2>4
<1>4. CASE Format
  <2>1. Enter("format") /\ pc' = "erase" /\ formatted' = "formatting"
        /\ UNCHANGED <<nvm, data, tracker, call, todo, meta, scan, err, spoiled, history>>
    BY <1>4 DEF Format
  <2>2. TypeOK'
    BY <2>1 DEF TypeOK, history, Pcs
  <2>3. call.op = "format" /\ scan = None /\ todo = {}
    BY <2>1, EnterTyped
  <2>4. Control'
    BY <2>1, <2>3 DEF Control, Repairing
  <2> QED BY <2>2, <2>4
<1> QED BY <1>1, <1>2, <1>3, <1>4

(* Starting a transaction keeps the types.                                 *)
LEMMA StartTyped ==
  ASSUME TypeOK, Control, Start
  PROVE  TypeOK' /\ Control'
<1> USE DEF Ops, UpdateOps, TransactionOps, Searches, Resolves, FlashPcs, MetaPcs
<1>1. /\ Enter("start") /\ tracker' = {}
      /\ UNCHANGED <<nvm, data, formatted, cur, value, pending, out>>
  BY DEF Start
<1>2. tracker' \in Trackers
  BY <1>1 DEF Trackers
<1>3. CASE data # None
  <2>1. pc' = "erase" /\ spoiled' = FALSE /\ UNCHANGED <<call, todo, meta, scan, err, txn>>
    BY <1>3 DEF Start
  <2>2. TypeOK'
    BY <1>1, <1>2, <2>1 DEF TypeOK, Pcs
  <2>4. Control'
    BY <1>1, <1>3, <2>1, EnterTyped DEF Control, Repairing
  <2> QED BY <2>2, <2>4
<1>4. CASE data = None /\ ~StrayErase
  <2>1. Raise("LOW_LEVEL_ERASE") /\ UNCHANGED txn
    BY <1>4 DEF Start
  <2>2. Quit /\ spoiled' = TRUE /\ err' \in Errors
    BY <1>1, <2>1, EnterTyped DEF Raise, Harmless, Errors, TypeOK
  <2>3. TypeOK'
    BY <1>1, <1>2, <2>1, <2>2, QuitTyped DEF TypeOK
  <2>4. Control'
    BY <1>1, <2>2, QuitTyped DEF Control
  <2> QED BY <2>3, <2>4
<1>5. CASE data = None /\ StrayErase
  <2>1. Quit /\ txn' = [u \in {} |-> Blank] /\ spoiled' = FALSE /\ UNCHANGED err
    BY <1>5 DEF Start
  <2>2. txn' \in Partial
    <3>1. txn' \in [{} -> Data]
      BY <2>1
    <3> QED BY <3>1 DEF Partial
  <2>3. TypeOK'
    BY <1>1, <1>2, <2>1, <2>2, QuitTyped DEF TypeOK
  <2>4. Control'
    BY <1>1, <1>5, <2>1, QuitTyped DEF Control
  <2> QED BY <2>3, <2>4
<1> QED BY <1>3, <1>4, <1>5

(* What find_current_slot reads of a slot is well typed.                   *)
LEMMA ReadingsTyped ==
  ASSUME NEW s \in SlotCells
  PROVE  Readings(s) \subseteq SlotReading
BY DEF Readings, SlotReading, SlotCells, DataReadings

(* Reading a slot once more is just as well typed.                         *)
LEMMA RereadingsTyped ==
  ASSUME NEW s \in SlotCells, NEW r \in SlotReading
  PROVE  Rereadings(s, r) \subseteq SlotReading
BY ReadingsTyped DEF Rereadings

(* While find_current_slot runs.                                           *)
LEMMA ScanningTyped ==
  ASSUME TypeOK, Control, pc = "scan"
  PROVE  /\ scan \in Scans /\ ~Repairing /\ data = None
         /\ call.op \in Resolves /\ todo = {}
         /\ ~StrayErase => call.op \in Searches
         /\ scan.i \in 0..NSlots /\ scan.max \in VersionWords
         /\ scan.best # None => /\ scan.best.slot \in Slots
                                /\ scan.best.reading \in SlotReading
<1>1. scan \in Scans
  BY DEF Control, TypeOK
<1> QED BY <1>1 DEF Control, Scans

(* Calling error_handler keeps the types.                                  *)
LEMMA RaiseTyped ==
  ASSUME TypeOK, NEW e \in Errors, Raise(e)
  PROVE  /\ Quit /\ err' \in Errors /\ spoiled' \in BOOLEAN
         /\ spoiled => spoiled'
BY DEF Raise, TypeOK

(* The steps of find_current_slot keep the types.                          *)
LEMMA SearchTyped ==
  ASSUME TypeOK, Control,
         BeginSearch \/ ScanSlot \/ ScanCollides \/ NoValidVersion \/ Resolve
  PROVE  TypeOK' /\ Control'
<1> USE DEF Ops, UpdateOps, TransactionOps, Searches, Resolves, FlashPcs, MetaPcs
<1>1. CASE BeginSearch
  <2>1. /\ pc = "enter" /\ call.op \in Resolves /\ data = None /\ pc' = "scan"
        /\ Check = None
        /\ scan' = [i |-> 0, max |-> 0, best |-> None]
        /\ UNCHANGED <<nvm, data, tracker, call, todo, meta, app, history>>
    BY <1>1 DEF BeginSearch
  <2>2. scan' \in Scans
    BY <2>1, SlotsAssumption, VersionAssumption DEF Scans
  <2>3. TypeOK'
    BY <2>1, <2>2 DEF TypeOK, app, history, Pcs
  <2>4. scan' # None
    BY <2>2, NoneAssumption
  <2>5. call.op \in {"transaction_write", "commit"} => tracker # None
    BY <2>1, NoneAssumption DEF Check, Errors
  <2>6. Control'
    BY <2>1, <2>4, <2>5 DEF Control, app, Repairing
  <2> QED BY <2>3, <2>6
<1>2. CASE ScanSlot
  <2>1. /\ pc = "scan" /\ scan.i < NSlots
        /\ UNCHANGED <<nvm, data, tracker, pc, call, todo, meta, app, history>>
    BY <1>2 DEF ScanSlot
  <2>2. scan.i \in Slots
    BY <2>1, ScanningTyped, SlotsAssumption
  <2>3. PICK r \in Readings(nvm[scan.i]) : \E r2 \in Rereadings(nvm[scan.i], r) :
          \E newer \in BOOLEAN :
            scan' = [i |-> scan.i + 1,
                     max |-> IF newer THEN r.version ELSE scan.max,
                     best |-> IF newer THEN [slot |-> scan.i, reading |-> r2]
                              ELSE scan.best]
    BY <1>2 DEF ScanSlot
  <2>4. nvm[scan.i] \in SlotCells
    BY <2>2 DEF TypeOK
  <2>5. r \in SlotReading
    BY <2>4, ReadingsTyped
  <2>6. r.version \in VersionWords
    BY <2>5 DEF SlotReading
  <2>7. PICK r2 \in SlotReading, newer \in BOOLEAN :
          scan' = [i |-> scan.i + 1,
                   max |-> IF newer THEN r.version ELSE scan.max,
                   best |-> IF newer THEN [slot |-> scan.i, reading |-> r2]
                            ELSE scan.best]
    BY <2>3, <2>4, <2>5, RereadingsTyped
  <2>8. scan.i + 1 \in 0..NSlots
    BY <2>1, ScanningTyped, SlotsAssumption
  <2>9. scan.best \in [reading : SlotReading, slot : Slots] \cup {None}
    BY <2>1, ScanningTyped DEF Scans
  <2>10. scan' \in Scans
    BY <2>1, <2>2, <2>6, <2>7, <2>8, <2>9, ScanningTyped DEF Scans
  <2>11. TypeOK'
    BY <2>1, <2>10 DEF TypeOK, app, history
  <2>12. scan' # None
    BY <2>10, NoneAssumption
  <2>13. Control'
    BY <2>1, <2>12 DEF Control, app, Repairing
  <2> QED BY <2>11, <2>13
<1>3. CASE ScanCollides \/ NoValidVersion
  <2>1. /\ pc = "scan" /\ Quit /\ err' \in Errors /\ spoiled' \in BOOLEAN
        /\ spoiled => spoiled'
        /\ UNCHANGED <<nvm, data, tracker, formatted, history>>
    BY <1>3, RaiseTyped DEF ScanCollides, NoValidVersion, Errors
  <2>2. TypeOK'
    BY <2>1, QuitTyped DEF TypeOK, history
  <2>3. Control'
    BY <2>1, QuitTyped DEF Control
  <2> QED BY <2>2, <2>3
<1>4. CASE Resolve
  <2>1. /\ pc = "scan" /\ scan.best # None /\ data' = scan.best.slot
        /\ UNCHANGED <<nvm, tracker, call, todo, app>>
    BY <1>4 DEF Resolve
  <2>2. data' \in Slots /\ scan.best.reading \in SlotReading
    BY <2>1, ScanningTyped
  <2>3. PICK r \in SlotReading :
          IF r.sum = r.sum2
          THEN pc' = "enter" /\ scan' = None /\ Settle(data') /\ UNCHANGED meta
          ELSE /\ pc' = "version" /\ meta' = [version |-> r.version, sum |-> r.sum]
               /\ UNCHANGED <<scan, history>>
    BY <1>4, <2>1, <2>2, RereadingsTyped DEF Resolve, TypeOK
  <2>4. data' # None
    BY <2>2, NoneAssumption
  <2>5. CASE r.sum = r.sum2
    <3>1. pc' = "enter" /\ scan' = None /\ Settle(data') /\ UNCHANGED meta
      BY <2>3, <2>5
    <3>2. TypeOK'
      BY <2>1, <2>2, <3>1 DEF Settle, TypeOK, app, Pcs
    <3>3. Control'
      BY <2>1, <2>4, <3>1, ScanningTyped DEF Control, app, Repairing
    <3> QED BY <3>2, <3>3
  <2>6. CASE r.sum # r.sum2
    <3>1. /\ pc' = "version" /\ meta' = [version |-> r.version, sum |-> r.sum]
          /\ UNCHANGED <<scan, history>>
      BY <2>3, <2>6
    <3>2. meta' \in Metas
      BY <3>1 DEF Metas, SlotReading
    <3>3. TypeOK'
      BY <2>1, <2>2, <3>1, <3>2 DEF TypeOK, app, history, Pcs
    <3>4. meta' # None
      BY <3>2, NoneAssumption
    <3>5. Control'
      BY <2>1, <2>4, <3>1, <3>4, ScanningTyped DEF Control, app, Repairing
    <3> QED BY <3>3, <3>5
  <2> QED BY <2>5, <2>6
<1> QED BY <1>1, <1>2, <1>3, <1>4

(* Writing one field or one unit of a slot keeps the flash well typed.     *)
LEMMA SlotUpdateTyped ==
  ASSUME nvm \in [Slots -> SlotCells], NEW s \in Slots
  PROVE  /\ nvm[s] \in SlotCells
         /\ nvm[s].version \in SUBSET VersionWords
         /\ nvm[s].sum \in SUBSET (Sums \cup {Blank, Garbage})
         /\ nvm[s].sum2 \in SUBSET (Sums \cup {Blank, Garbage})
         /\ nvm[s].data \in [Units -> SUBSET Data]
         /\ \A c \in SUBSET VersionWords :
              [nvm EXCEPT ![s].version = c] \in [Slots -> SlotCells]
         /\ \A c \in SUBSET (Sums \cup {Blank, Garbage}) :
              /\ [nvm EXCEPT ![s].sum = c] \in [Slots -> SlotCells]
              /\ [nvm EXCEPT ![s].sum2 = c] \in [Slots -> SlotCells]
         /\ \A u \in Units, c \in SUBSET Data :
              [nvm EXCEPT ![s].data[u] = c] \in [Slots -> SlotCells]
         /\ \A c \in SlotCells : [nvm EXCEPT ![s] = c] \in [Slots -> SlotCells]
<1> HIDE DEF Slots, Units, VersionWords
<1> QED BY DEF SlotCells

(* Where a flash operation is executed its target and source are known.    *)
LEMMA FlashTyped ==
  ASSUME TypeOK, Control, pc \in FlashPcs
  PROVE  /\ Dst \in Slots
         /\ call \in Calls
         /\ nvm[Dst] \in SlotCells
         /\ pc \in MetaPcs => meta \in Metas
         /\ pc # "erase" \/ call.op # "format" => (data \in Slots \/ Repairing \/ call.op = "format")
<1>1. Dst \in Slots
  BY DstTyped
<1>2. call \in Calls
  BY SpanTyped DEF Control, TypeOK, NoCall, FlashPcs, MetaPcs
<1>3. data # None => data \in Slots
  BY DEF TypeOK
<1> QED BY <1>1, <1>2, <1>3 DEF TypeOK, Control

(* What is programmed in a unit is data.                                   *)
LEMMA SourceTyped ==
  ASSUME TypeOK, Control, pc = "program", NEW u \in Units
  PROVE  Source(u) \in SUBSET Data
<1>1. call \in Calls /\ data \in Slots
  BY FlashTyped DEF FlashPcs, Control, TypeOK
<1>2. call.val \in Data
  BY <1>1 DEF Calls, Data
<1>3. nvm[data].data[u] \in SUBSET Data
  BY <1>1, SlotUpdateTyped DEF TypeOK
<1> QED BY <1>2, <1>3 DEF Source

(* Erasing the next slot keeps the types.                                  *)
LEMMA EraseSlotTyped ==
  ASSUME TypeOK, Control, EraseSlot
  PROVE  TypeOK' /\ Control'
<1>1. /\ pc = "erase" /\ call.op # "format"
      /\ nvm' = [nvm EXCEPT ![Dst] = ErasedSlot]
      /\ pending' = None
      /\ UNCHANGED <<data, tracker, app, cur, value, out>>
  BY DEF EraseSlot
<1>2. nvm' \in [Slots -> SlotCells]
  BY <1>1, FlashTyped, SlotUpdateTyped, BlankTypes DEF FlashPcs, TypeOK
<1>3. CASE call.op = "start"
  <2>1. Quit /\ txn' = [u \in {} |-> Blank]
    BY <1>3 DEF EraseSlot
  <2>2. txn' \in Partial
    <3>1. txn' \in [{} -> Data]
      BY <2>1
    <3> QED BY <3>1 DEF Partial
  <2>3. TypeOK'
    BY <1>1, <1>2, <2>1, <2>2, QuitTyped DEF TypeOK, app
  <2>4. Control'
    BY <1>1, <2>1, QuitTyped DEF Control, app, FlashPcs, MetaPcs, Searches, Resolves, TransactionOps, UpdateOps
  <2> QED BY <2>3, <2>4
<1>4. CASE call.op # "start"
  <2>1. /\ pc' = IF todo = {} THEN "seal" ELSE "program"
        /\ UNCHANGED <<call, todo, meta, scan, txn>>
    BY <1>4 DEF EraseSlot
  <2>2. TypeOK'
    BY <1>1, <1>2, <2>1 DEF TypeOK, app, Pcs
  <2>3. call.op \in {"basic_write", "erase_all"} /\ ~Repairing /\ scan = None
    BY <1>1, <1>4 DEF Control, MetaPcs, Repairing
  <2>4. pc' \in {"seal", "program"} /\ (pc' = "seal" => todo = {}) /\ (pc' = "program" => todo # {})
    BY <2>1
  <2>5. todo = IF call.op = "basic_write" THEN Units ELSE {}
    BY <1>1 DEF Control
  <2>6. call.op = "erase_all" => pc' = "seal"
    BY <2>3, <2>5, <2>1
  <2>7. Control'
    BY <1>1, <2>1, <2>3, <2>4, <2>6
       DEF Control, Repairing, app, FlashPcs, MetaPcs, Searches, Resolves, TransactionOps, UpdateOps
  <2> QED BY <2>2, <2>7
<1> QED BY <1>3, <1>4

(* Erasing the whole area keeps the types.                                 *)
LEMMA EraseAreaTyped ==
  ASSUME TypeOK, Control, EraseArea
  PROVE  TypeOK' /\ Control'
<1>1. /\ pc = "erase" /\ call.op = "format" /\ data' = 0 /\ pc' = "seal"
      /\ nvm' = [s \in Slots |-> ErasedSlot]
      /\ UNCHANGED <<tracker, call, todo, meta, scan, app, history>>
  BY DEF EraseArea
<1>2. nvm' \in [Slots -> SlotCells]
  <2> HIDE DEF Slots
  <2> QED BY <1>1, BlankTypes
<1>3. data' \in Slots /\ data' # None
  BY <1>1, SlotsAssumption, NoneAssumption
<1>4. TypeOK'
  BY <1>1, <1>2, <1>3 DEF TypeOK, app, history, Pcs
<1>5. todo = {} /\ scan = None
  BY <1>1 DEF Control, Repairing, MetaPcs
<1>6. Control'
  BY <1>1, <1>3, <1>5 DEF Control, Repairing, app, FlashPcs, MetaPcs, Searches, Resolves, TransactionOps, UpdateOps
<1> QED BY <1>4, <1>6

(* Programming a unit keeps the types.                                     *)
LEMMA ProgramUnitTyped ==
  ASSUME TypeOK, Control, ProgramUnit
  PROVE  TypeOK' /\ Control'
<1>1. /\ pc = "program"
      /\ UNCHANGED <<data, tracker, app, cur, value, pending, out>>
  BY DEF ProgramUnit
<1>2. PICK u \in todo : \E x \in Source(u) :
        /\ nvm' = [nvm EXCEPT ![Dst].data[u] = Programmed(@, Blank, x, {Garbage})]
        /\ todo' = todo \ {u}
  BY DEF ProgramUnit
<1>3. u \in Units /\ Dst \in Slots
  BY <1>1, <1>2, FlashTyped DEF TypeOK, FlashPcs
<1>4. PICK x \in Source(u) :
        nvm' = [nvm EXCEPT ![Dst].data[u] = Programmed(nvm[Dst].data[u], Blank, x, {Garbage})]
  BY <1>2
<1>5. nvm' \in [Slots -> SlotCells]
  <2>1. x \in Data
    BY <1>1, <1>3, <1>4, SourceTyped
  <2>2. nvm[Dst].data[u] \in SUBSET Data
    BY <1>3, SlotUpdateTyped DEF TypeOK
  <2>3. Programmed(nvm[Dst].data[u], Blank, x, {Garbage}) \in SUBSET Data
    <3>1. {Garbage} \in SUBSET Data /\ Blank \in Data
      BY BlankTypes
    <3> QED BY <2>1, <2>2, <3>1, CellTypes
  <2> QED BY <1>3, <1>4, <2>3, SlotUpdateTyped DEF TypeOK
<1>6. todo' \in SUBSET Units
  BY <1>2 DEF TypeOK
<1>7. call.op \in {"basic_write", "transaction_write", "commit"} /\ data # None /\ scan = None
  BY <1>1 DEF Control, Repairing, FlashPcs, MetaPcs
<1> USE DEF FlashPcs, MetaPcs, Searches, Resolves, TransactionOps, UpdateOps, app
<1>8. CASE todo' # {}
  <2>1. UNCHANGED <<pc, call, meta, scan, txn>>
    BY <1>8 DEF ProgramUnit
  <2>2. TypeOK'
    BY <1>1, <1>5, <1>6, <2>1 DEF TypeOK
  <2>3. Control'
    BY <1>1, <1>7, <1>8, <2>1 DEF Control, Repairing
  <2> QED BY <2>2, <2>3
<1>9. CASE todo' = {} /\ call.op = "transaction_write"
  <2>1. /\ pc' = "idle" /\ call' = NoCall /\ UNCHANGED <<meta, scan>>
        /\ txn' = IF txn = None THEN None
                  ELSE [w \in Span(call) \cup DOMAIN txn |->
                              IF w \in Span(call) THEN call.val ELSE txn[w]]
    BY <1>9 DEF ProgramUnit
  <2>2. txn' \in Partial \cup {None}
    <3>1. CASE txn = None
      BY <2>1, <3>1
    <3>2. CASE txn # None
      <4>1. PICK D \in SUBSET Units : txn \in [D -> Data]
        BY <3>2 DEF TypeOK, Partial
      <4>2. Span(call) \subseteq Units
        BY <1>1, <1>9 DEF Control
      <4>3. call.val \in Data
        BY <1>1, FlashTyped DEF Calls, Data
      <4>4. txn' \in [Span(call) \cup D -> Data]
        BY <2>1, <3>2, <4>1, <4>3
      <4> QED BY <4>1, <4>2, <4>4 DEF Partial
    <3> QED BY <3>1, <3>2
  <2>3. TypeOK'
    BY <1>1, <1>5, <1>9, <2>1, <2>2 DEF TypeOK, Pcs
  <2>4. call'.op = "none"
    BY <2>1 DEF NoCall
  <2>5. Control'
    BY <1>1, <1>7, <1>9, <2>1, <2>4 DEF Control, Repairing
  <2> QED BY <2>3, <2>5
<1>10. CASE todo' = {} /\ call.op # "transaction_write"
  <2>1. pc' = "seal" /\ UNCHANGED <<call, meta, scan, txn>>
    BY <1>10 DEF ProgramUnit
  <2>2. TypeOK'
    BY <1>1, <1>5, <1>6, <2>1 DEF TypeOK, Pcs
  <2>3. Control'
    BY <1>1, <1>7, <1>10, <2>1 DEF Control, Repairing
  <2> QED BY <2>2, <2>3
<1> QED BY <1>8, <1>9, <1>10


(* What a call writes is a part of a content.                              *)
LEMMA RequestTyped ==
  ASSUME TypeOK, call \in Calls
  PROVE  Request \in Partial
<1>1. CASE call.op = "basic_write"
  <2>1. call.val \in Data
    BY DEF Calls, Data
  <2>2. Request \in [Span(call) \cap Units -> Data]
    BY <1>1, <2>1 DEF Request
  <2> QED BY <2>2 DEF Partial
<1>2. CASE call.op = "erase_all"
  BY <1>2, BlankTypes DEF Request, Partial, Content
<1>3. CASE call.op \notin {"basic_write", "erase_all"} /\ Request = txn /\ txn # None
  BY <1>3 DEF TypeOK
<1>4. CASE Request = [u \in {} |-> Blank]
  <2>1. Request \in [{} -> Data]
    BY <1>4
  <2> QED BY <2>1 DEF Partial
<1> QED BY <1>1, <1>2, <1>3, <1>4 DEF Request

(* What a call wants the data to become is content.                        *)
LEMMA GoalTyped ==
  ASSUME TypeOK, call \in Calls
  PROVE  Goal \in Content
<1>1. \A u \in Units : value[u] \in Data
  BY DEF TypeOK, Content
<1>2. Request \in Partial
  BY RequestTyped
<1>3. PICK D \in SUBSET Units : Request \in [D -> Data]
  BY <1>2 DEF Partial
<1>4. \A u \in Units : (IF u \in DOMAIN Request THEN Request[u] ELSE value[u]) \in Data
  BY <1>1, <1>3
<1> QED BY <1>4 DEF Goal, Overlay, Content

(* Computing version and checksum keeps the types.                         *)
LEMMA SealTyped ==
  ASSUME TypeOK, Control, Seal
  PROVE  TypeOK' /\ Control'
<1>1. /\ pc = "seal" /\ pc' = "version"
      /\ UNCHANGED <<nvm, data, tracker, call, todo, scan, app, history>>
  BY DEF Seal
<1>2. PICK v \in IF call.op = "format" THEN {0} ELSE nvm[data].version,
           d \in DataReadings(nvm[Dst]) :
        meta' = [version |-> Succ(v), sum |-> <<d, Succ(v)>>]
  BY DEF Seal
<1>3. scan = None /\ ~Repairing
  BY <1>1 DEF Control, Repairing, MetaPcs
<1>4. v \in VersionWords
  <2>1. CASE call.op = "format"
    BY <1>2, <2>1, VersionAssumption
  <2>2. CASE call.op # "format"
    <3>1. data \in Slots
      BY <1>1, <2>2 DEF Control, FlashPcs, TypeOK
    <3> QED BY <1>2, <2>2, <3>1, SlotUpdateTyped DEF TypeOK
  <2> QED BY <2>1, <2>2
<1>5. Succ(v) \in VersionWords
  BY <1>4, VersionAssumption DEF Succ
<1>6. d \in Content
  BY DEF DataReadings
<1>7. meta' \in Metas
  BY <1>2, <1>5, <1>6 DEF Metas, Sums
<1>8. TypeOK'
  BY <1>1, <1>7 DEF TypeOK, app, history, Pcs
<1>9. meta' # None
  BY <1>7, NoneAssumption
<1>10. Control'
  BY <1>1, <1>3, <1>9 DEF Control, Repairing, app, FlashPcs, MetaPcs, Searches, Resolves, TransactionOps, UpdateOps
<1> QED BY <1>8, <1>10

(* Programming a metadata word, fully or not, keeps the flash well typed.  *)
LEMMA MetaCellsTyped ==
  ASSUME TypeOK, Control, pc \in MetaPcs
  PROVE  /\ [nvm EXCEPT ![Dst].version =
               Programmed(@, ErasedVersion, meta.version, TornProgramVersion(meta.version))]
               \in [Slots -> SlotCells]
         /\ [nvm EXCEPT ![Dst].version =
               HalfProgrammed(@, meta.version, TornProgramVersion(meta.version))]
               \in [Slots -> SlotCells]
         /\ [nvm EXCEPT ![Dst].sum = Programmed(@, Blank, meta.sum, {Garbage})]
               \in [Slots -> SlotCells]
         /\ [nvm EXCEPT ![Dst].sum = HalfProgrammed(@, meta.sum, {Garbage})]
               \in [Slots -> SlotCells]
         /\ [nvm EXCEPT ![Dst].sum2 = Programmed(@, Blank, meta.sum, {Garbage})]
               \in [Slots -> SlotCells]
         /\ [nvm EXCEPT ![Dst].sum2 = HalfProgrammed(@, meta.sum, {Garbage})]
               \in [Slots -> SlotCells]
<1> DEFINE S == Sums \cup {Blank, Garbage}
<1>1. Dst \in Slots /\ meta \in Metas
  BY FlashTyped DEF FlashPcs
<1>2. /\ meta.version \in VersionWords
      /\ meta.sum \in S
      /\ TornProgramVersion(meta.version) \in SUBSET VersionWords
  BY <1>1, TornAssumption DEF Metas
<1>3. /\ nvm[Dst].version \in SUBSET VersionWords
      /\ nvm[Dst].sum \in SUBSET S
      /\ nvm[Dst].sum2 \in SUBSET S
  BY <1>1, SlotUpdateTyped DEF TypeOK
<1>4. /\ \A cell \in SUBSET S, x \in S :
           /\ Programmed(cell, Blank, x, {Garbage}) \in SUBSET S
           /\ HalfProgrammed(cell, x, {Garbage}) \in SUBSET S
  BY DEF Programmed, HalfProgrammed
<1> HIDE DEF S
<1>5. /\ Programmed(nvm[Dst].version, ErasedVersion, meta.version,
                    TornProgramVersion(meta.version)) \in SUBSET VersionWords
      /\ HalfProgrammed(nvm[Dst].version, meta.version,
                    TornProgramVersion(meta.version)) \in SUBSET VersionWords
  BY <1>2, <1>3, BlankTypes, CellTypes
<1>6. /\ Programmed(nvm[Dst].sum, Blank, meta.sum, {Garbage}) \in SUBSET S
      /\ HalfProgrammed(nvm[Dst].sum, meta.sum, {Garbage}) \in SUBSET S
      /\ Programmed(nvm[Dst].sum2, Blank, meta.sum, {Garbage}) \in SUBSET S
      /\ HalfProgrammed(nvm[Dst].sum2, meta.sum, {Garbage}) \in SUBSET S
  BY <1>2, <1>3, <1>4
<1> QED BY <1>1, <1>5, <1>6, SlotUpdateTyped DEF S, TypeOK

(* Writing version and checksum keeps the types.                           *)
LEMMA WriteMetaTyped ==
  ASSUME TypeOK, Control, WriteVersion \/ WriteSum
  PROVE  TypeOK' /\ Control'
<1>1. /\ pc \in MetaPcs /\ pc' \in MetaPcs
      /\ UNCHANGED <<data, tracker, call, todo, meta, scan, app, history>>
  BY DEF WriteVersion, WriteSum, MetaPcs
<1>2. nvm' \in [Slots -> SlotCells]
  BY <1>1, MetaCellsTyped DEF WriteVersion, WriteSum
<1>3. TypeOK'
  BY <1>1, <1>2 DEF TypeOK, app, history, Pcs, MetaPcs
<1>4. Control'
  BY <1>1 DEF Control, Repairing, app, FlashPcs, MetaPcs, Searches, Resolves, TransactionOps, UpdateOps
<1> QED BY <1>3, <1>4

(* Writing checksum2 and returning keeps the types.                        *)
LEMMA DoneTyped ==
  ASSUME TypeOK, Control, RepairDone \/ UpdateDone \/ FormatDone
  PROVE  TypeOK' /\ Control'
<1> USE DEF FlashPcs, MetaPcs, Searches, Resolves, TransactionOps, UpdateOps, app
<1>1. pc = "sum2" /\ nvm' \in [Slots -> SlotCells]
  BY MetaCellsTyped DEF RepairDone, UpdateDone, FormatDone, ProgramSum2
<1>2. CASE RepairDone
  <2>1. /\ Repairing /\ pc' = "enter" /\ scan' = None /\ meta' = None /\ Settle(data)
        /\ UNCHANGED <<data, tracker, call, todo, app>>
    BY <1>2 DEF RepairDone
  <2>2. data \in Slots /\ data # None
    BY <2>1 DEF Control, TypeOK
  <2>3. TypeOK'
    BY <1>1, <2>1, <2>2 DEF TypeOK, Settle, Pcs
  <2>4. Control'
    BY <1>1, <2>1, <2>2 DEF Control, Repairing
  <2> QED BY <2>3, <2>4
<1>3. CASE UpdateDone
  <2>1. /\ ~Repairing /\ call.op \in UpdateOps /\ Quit /\ data' = Dst
        /\ value' = Goal /\ cur' = Dst /\ pending' = None /\ UNCHANGED app
        /\ tracker' \in {None, tracker} /\ txn' \in {None, txn}
    BY <1>3 DEF UpdateDone
  <2>2. Dst \in Slots /\ Dst # None
    BY <1>1, FlashTyped, NoneAssumption
  <2>3. value' \in Content
    BY <1>1, <2>1, GoalTyped, FlashTyped
  <2>4. TypeOK'
    BY <1>1, <2>1, <2>2, <2>3, QuitTyped DEF TypeOK
  <2>5. Control'
    BY <1>1, <2>1, <2>2, QuitTyped DEF Control
  <2> QED BY <2>4, <2>5
<1>4. CASE FormatDone
  <2>1. /\ call.op = "format" /\ Quit /\ formatted' = "done" /\ cur' = 0
        /\ value' = BlankContent /\ pending' = None
        /\ txn' = IF txn = None THEN None ELSE [u \in DOMAIN txn |-> Blank]
        /\ UNCHANGED <<data, tracker, err, spoiled, out>>
    BY <1>4 DEF FormatDone
  <2>2. 0 \in Slots
    BY SlotsAssumption
  <2>3. txn' \in Partial \cup {None}
    <3>1. CASE txn \in Partial
      <4>1. PICK D \in SUBSET Units : txn \in [D -> Data]
        BY <3>1 DEF Partial
      <4>2. [u \in DOMAIN txn |-> Blank] \in [D -> Data]
        BY <4>1, BlankTypes
      <4>3. [u \in DOMAIN txn |-> Blank] \in Partial
        BY <4>2 DEF Partial
      <4> QED BY <2>1, <4>3
    <3> QED BY <2>1, <3>1 DEF TypeOK
  <2>4. TypeOK'
    BY <1>1, <2>1, <2>2, <2>3, BlankTypes, QuitTyped DEF TypeOK
  <2>5. Control'
    BY <1>1, <2>1, QuitTyped DEF Control
  <2> QED BY <2>4, <2>5
<1> QED BY <1>2, <1>3, <1>4

(* A slot half erased is still made of readable cells.                     *)
LEMMA HalfErasedTyped ==
  ASSUME NEW s \in SlotCells, NEW last \in 0..NUnits, NEW first \in 0..NUnits
  PROVE  HalfErasedSlot(s, first, last) \in SlotCells
<1> DEFINE S == Sums \cup {Blank, Garbage}
           bad == UNION {TornEraseVersion(v) : v \in s.version}
<1>1. /\ s.data \in [Units -> SUBSET Data] /\ s.version \in SUBSET VersionWords
      /\ s.sum \in SUBSET S /\ s.sum2 \in SUBSET S
  BY DEF SlotCells
<1>2. bad \in SUBSET VersionWords
  BY <1>1, TornAssumption
<1>3. Blank \in S /\ {Garbage} \in SUBSET S
  OBVIOUS
<1>4. Blank \in Data /\ {Garbage} \in SUBSET Data
  BY BlankTypes
<1> HIDE DEF S, bad
<1>5. /\ HalfErased(s.version, ErasedVersion, bad) \in SUBSET VersionWords
      /\ HalfErased(s.sum, Blank, {Garbage}) \in SUBSET S
      /\ HalfErased(s.sum2, Blank, {Garbage}) \in SUBSET S
  BY <1>1, <1>2, <1>3, BlankTypes, CellTypes
<1>6. \A u \in Units : s.data[u] \in SUBSET Data
  BY <1>1
<1>7. \A u \in Units : HalfErased(s.data[u], Blank, {Garbage}) \in SUBSET Data
  BY <1>4, <1>6, CellTypes
<1>8. [u \in Units |-> IF u < first THEN {Blank}
                       ELSE IF u <= last THEN HalfErased(s.data[u], Blank, {Garbage})
                       ELSE s.data[u]] \in [Units -> SUBSET Data]
  BY <1>4, <1>6, <1>7
<1> QED BY <1>1, <1>5, <1>8 DEF HalfErasedSlot, SlotCells, bad, S

(* Wherever an operation is cut the flash stays well typed.                *)
LEMMA InterruptedTyped ==
  ASSUME TypeOK, Control, Interrupted
  PROVE  nvm' \in [Slots -> SlotCells]
<1>1. nvm \in [Slots -> SlotCells]
  BY DEF TypeOK
<1>2. CASE /\ pc = "erase"
           /\ \E last \in 0..NUnits : \E first \in 0..last :
                nvm' = [nvm EXCEPT ![Dst] = HalfErasedSlot(@, first, last)]
  <2>1. PICK last \in 0..NUnits : \E first \in 0..last :
                nvm' = [nvm EXCEPT ![Dst] = HalfErasedSlot(nvm[Dst], first, last)]
    BY <1>2
  <2>3. PICK first \in 0..last :
                nvm' = [nvm EXCEPT ![Dst] = HalfErasedSlot(nvm[Dst], first, last)]
    BY <2>1
  <2>4. first \in 0..NUnits
    BY UnitsAssumption
  <2>2. Dst \in Slots /\ nvm[Dst] \in SlotCells
    BY <1>2, FlashTyped DEF FlashPcs
  <2> QED BY <1>1, <2>2, <2>3, <2>4, HalfErasedTyped, SlotUpdateTyped
<1>3. CASE nvm' = [s \in Slots |-> HalfErasedSlot(nvm[s], 0, NUnits)]
  <2>1. 0 \in 0..NUnits /\ NUnits \in 0..NUnits
    BY UnitsAssumption
  <2>2. \A s \in Slots : HalfErasedSlot(nvm[s], 0, NUnits) \in SlotCells
    BY <1>1, <2>1, HalfErasedTyped
  <2> HIDE DEF Slots
  <2> QED BY <1>3, <2>2
<1>4. CASE /\ pc = "program"
           /\ \E u \in todo : \E x \in Source(u) :
                nvm' = [nvm EXCEPT ![Dst].data[u] = HalfProgrammed(@, x, {Garbage})]
  <2>1. PICK u \in todo : \E x \in Source(u) :
                nvm' = [nvm EXCEPT ![Dst].data[u] = HalfProgrammed(@, x, {Garbage})]
    BY <1>4
  <2>2. PICK x \in Source(u) :
          nvm' = [nvm EXCEPT ![Dst].data[u] = HalfProgrammed(nvm[Dst].data[u], x, {Garbage})]
    BY <2>1
  <2>3. u \in Units /\ Dst \in Slots
    BY <1>4, FlashTyped DEF TypeOK, FlashPcs
  <2>4. x \in Data /\ nvm[Dst].data[u] \in SUBSET Data
    BY <1>1, <1>4, <2>3, SourceTyped, SlotUpdateTyped
  <2>5. {Garbage} \in SUBSET Data /\ Blank \in Data
    BY BlankTypes
  <2>6. HalfProgrammed(nvm[Dst].data[u], x, {Garbage}) \in SUBSET Data
    BY <2>4, <2>5, CellTypes
  <2> QED BY <1>1, <2>2, <2>3, <2>6, SlotUpdateTyped
<1>5. CASE pc \in MetaPcs /\ CutShort
  BY <1>5, MetaCellsTyped DEF CutShort, MetaPcs
<1> QED BY <1>1, <1>2, <1>3, <1>4, <1>5 DEF Interrupted, CutShort, MetaPcs

(* What an interruption leaves in doubt is content.                        *)
LEMMA PendingTyped ==
  ASSUME TypeOK, Interrupted
  PROVE  pending' \in Content \cup {None}
<1>1. pending' \in {pending, Goal} /\ (pending' # pending => call.op \in UpdateOps)
  BY DEF Interrupted
<1>2. call.op \in UpdateOps => call \in Calls
  BY SpanTyped DEF Ops
<1> QED BY <1>1, <1>2, GoalTyped DEF TypeOK

(* A reset and a driver error keep the types.                              *)
LEMMA InterruptionTyped ==
  ASSUME TypeOK, Control, Reset \/ NvmError
  PROVE  TypeOK' /\ Control'
<1> USE DEF FlashPcs, MetaPcs, Searches, Resolves, TransactionOps, UpdateOps
<1>1. Quit
  BY DEF Reset, NvmError, Raise
<1>2. CASE Reset
  <2>1. /\ Interrupted /\ data' = None /\ tracker' = None /\ err' = None /\ spoiled' = FALSE
        /\ txn' = None /\ out' = None /\ UNCHANGED <<formatted, cur, value>>
    BY <1>2 DEF Reset
  <2>2. TypeOK'
    BY <1>1, <2>1, InterruptedTyped, PendingTyped, QuitTyped DEF TypeOK
  <2>3. Control'
    BY <1>1, <2>1, QuitTyped DEF Control
  <2> QED BY <2>2, <2>3
<1>3. CASE NvmError
  <2>1. /\ Raise("LOW_LEVEL")
        /\ UNCHANGED <<tracker, formatted, cur, value, txn, out>>
    BY <1>3 DEF NvmError
  <2>2. err' \in Errors /\ spoiled' \in BOOLEAN /\ (spoiled => spoiled')
    BY <2>1, RaiseTyped DEF Errors
  <2>3. CASE Interrupted /\ UNCHANGED data
    <3>1. TypeOK'
      BY <1>1, <2>1, <2>2, <2>3, InterruptedTyped, PendingTyped, QuitTyped DEF TypeOK
    <3>2. Control'
      BY <1>1, <2>1, <2>2, <2>3, QuitTyped DEF Control
    <3> QED BY <3>1, <3>2
  <2>4. CASE /\ pc = "scan" /\ scan.best # None /\ data' = scan.best.slot
             /\ UNCHANGED <<nvm, pending>>
    <3>1. data' \in Slots
      BY <2>4, ScanningTyped
    <3>2. TypeOK'
      BY <1>1, <2>1, <2>2, <2>4, <3>1, QuitTyped DEF TypeOK
    <3>3. data' # None
      BY <3>1, NoneAssumption
    <3>4. Control'
      BY <1>1, <2>1, <2>2, <3>3, QuitTyped DEF Control
    <3> QED BY <3>2, <3>4
  <2> QED BY <1>3, <2>3, <2>4 DEF NvmError
<1> QED BY <1>2, <1>3

(* Every step keeps the types.                                             *)
LEMMA NextTyped ==
  ASSUME TypeOK, Control, [Next]_vars
  PROVE  TypeOK' /\ Control'
<1>1. CASE Next
  BY <1>1, CallingTyped, RefuseTyped, ReadTyped, BeginTyped, StartTyped,
     SearchTyped, EraseSlotTyped, EraseAreaTyped, ProgramUnitTyped, SealTyped,
     WriteMetaTyped, DoneTyped, InterruptionTyped DEF Next, Step
<1>2. CASE UNCHANGED vars
  BY <1>2 DEF vars, run, app, history, TypeOK, Control, Repairing, FlashPcs, MetaPcs, Span
<1> QED BY <1>1, <1>2

(* Type correctness, with the control structure of ftl.c as the            *)
(* strengthening: for every size of ring and data, any flash and any       *)
(* driver, the context and the flash keep their types through calls,       *)
(* errors and resets.                                                      *)
THEOREM TypeCorrect == Spec => []TypeOK
<1>1. Init => TypeOK /\ Control
  BY InitTyped
<1>2. TypeOK /\ Control /\ [Next]_vars => (TypeOK /\ Control)'
  BY NextTyped
<1> QED BY <1>1, <1>2, PTL DEF Spec

-----------------------------------------------------------------------------
(* Anti-tearing: on sound flash a search can only elect the committed data *)
(* or, whole, the update left in doubt.                                    *)

(* What a search sees of the flash.                                        *)
FlashSafe(vc) == CurrentSound(vc) /\ OthersOlder(vc) /\ DoubtSound(vc)

(* A checksum word is a checksum, blank or garbage.                        *)
LEMMA SumsAre ==
  ASSUME TypeOK, NEW s \in Slots
  PROVE  /\ Tuples(s) = nvm[s].sum \ {Blank, Garbage}
         /\ \A x \in Tuples(s) : x \in Sums /\ x[1] \in Content /\ x[2] \in VersionWords
         /\ \A d \in Content, v \in VersionWords :
              /\ <<d, v>> \in Sums /\ <<d, v>> # Blank /\ <<d, v>> # Garbage
              /\ <<d, v>> \in nvm[s].sum => <<d, v>> \in Tuples(s)
<1>1. nvm[s].sum \subseteq Sums \cup {Blank, Garbage}
  BY SlotUpdateTyped DEF TypeOK
<1> QED BY <1>1, ValueAssumption DEF Tuples, Sums

(* Contents are equal when their units are.                                *)
LEMMA SameContent ==
  ASSUME NEW d \in Content, NEW e \in Content, \A u \in Units : d[u] = e[u]
  PROVE  d = e
<1> HIDE DEF Units
<1>1. d = [u \in Units |-> d[u]] /\ e = [u \in Units |-> e[u]]
  BY DEF Content
<1>2. [u \in Units |-> d[u]] = [u \in Units |-> e[u]]
  OBVIOUS
<1> QED BY <1>1, <1>2

(* A slot whose checksum is blank or garbage holds no candidate.           *)
LEMMA ErasedHasNoTuples ==
  ASSUME NEW s, nvm[s].sum \subseteq {Blank, Garbage}
  PROVE  Tuples(s) = {}
BY ValueAssumption DEF Tuples

(* The current slot and the next one differ.                               *)
LEMMA CurFacts ==
  ASSUME TypeOK
  PROVE  /\ cur \in Slots /\ Next1 \in Slots /\ Next1 # cur
         /\ NextSlot(Next1) \in Slots /\ NextSlot(Next1) # Next1
BY NextSlotType DEF TypeOK, Next1

(* Except at the last word of an update, only an interrupted update is in  *)
(* doubt.                                                                  *)
LEMMA OnlyPending ==
  ASSUME pc # "sum2" \/ Repairing \/ call.op \notin UpdateOps
  PROVE  InDoubt = {pending}
BY DEF InDoubt

(* A step that leaves flash and history alone leaves nothing more to elect. *)
LEMMA FlashFrame ==
  ASSUME NEW vc, FlashSafe(vc),
         UNCHANGED <<nvm, cur, value, pending>>,
         pc # "sum2" \/ Repairing \/ call.op \notin UpdateOps
  PROVE  FlashSafe(vc)'
<1>1. InDoubt = {pending} /\ pending' \in InDoubt'
  BY OnlyPending DEF InDoubt
<1>2. Next1' = Next1 /\ \A s \in Slots : Tuples(s)' = Tuples(s)
  BY DEF Next1, Tuples
<1>3. CurrentSound(vc)'
  BY DEF FlashSafe, CurrentSound, Holds
<1>4. OthersOlder(vc)'
  BY <1>1, <1>2 DEF FlashSafe, OthersOlder
<1>5. DoubtSound(vc)'
  BY <1>2 DEF FlashSafe, DoubtSound, Tuples
<1> QED BY <1>3, <1>4, <1>5 DEF FlashSafe

(* What a transaction wrote stays in the next slot between its calls.      *)
LEMMA TxnSlotFrame ==
  ASSUME TxnSlot, UNCHANGED <<nvm, cur, txn>>,
         pc \in {"idle", "enter", "scan"}, pc' \in {"idle", "enter", "scan", "erase"},
         Open' => Open /\ tracker' = tracker
  PROVE  TxnSlot'
<1> SUFFICES ASSUME Open' PROVE TxnSlot'
  BY DEF TxnSlot
<1>1. Open /\ tracker' = tracker /\ Next1' = Next1
  BY DEF Next1
<1>2. /\ txn \in Partial /\ \A u \in DOMAIN txn : txn[u] \in Clean
      /\ tracker = DOMAIN txn
      /\ MetaErased(Next1)
      /\ \A u \in Units : Sound(nvm[Next1].data[u], WrittenSoFar(u))
  BY <1>1 DEF TxnSlot, MetaPcs
<1>3. \A u \in Units : WrittenSoFar(u)' = WrittenSoFar(u)
  BY DEF WrittenSoFar
<1>4. MetaErased(Next1)' /\ \A u \in Units : Sound(nvm[Next1].data[u], WrittenSoFar(u))'
  BY <1>1, <1>2, <1>3 DEF MetaErased, Sound
<1> QED BY <1>1, <1>2, <1>4 DEF TxnSlot

(* The calls that end or begin without touching the flash.                 *)
LEMMA QuietFrame ==
  ASSUME TypeOK, Control, NEW vc \in VersionWords, Safe(vc),
         UNCHANGED <<nvm, cur, value, pending, txn>>,
         pc \in {"idle", "enter", "scan"}, pc' \in {"idle", "enter", "erase"},
         ~Repairing', data' = data,
         Open' => Open /\ tracker' = tracker,
         RoomForVersion(vc)', TxnProgress'
  PROVE  Safe(vc)'
<1>1. FlashSafe(vc)'
  BY FlashFrame DEF Safe, FlashSafe
<1>2. TxnSlot'
  BY TxnSlotFrame DEF Safe
<1>3. ~Repairing
  BY DEF Control, MetaPcs
<1>4. DataSettled'
  BY <1>3 DEF Safe, DataSettled
<1>5. ScanProgress(vc)' /\ RepairProgress(vc)' /\ UpdateProgress(vc)'
  BY DEF ScanProgress, RepairProgress, UpdateProgress, FlashPcs, MetaPcs
<1> QED BY <1>1, <1>2, <1>4, <1>5 DEF Safe, FlashSafe

(* A new call leaves the area safe.                                        *)
LEMMA CallSafe ==
  ASSUME SoundFlash, TypeOK, Control, NEW vc \in VersionWords, Safe(vc),
         NEW c \in Calls, Call(c)
  PROVE  Safe(vc)'
<1>1. /\ pc = "idle" /\ Disciplined(c.op) /\ pc' = "enter" /\ call' = c
      /\ c.op \in UpdateOps => VersionBound
      /\ UNCHANGED <<nvm, data, tracker, todo, meta, scan, spoiled, formatted,
                     cur, value, pending, txn>>
  BY DEF Call
<1>2. scan = None /\ ~Repairing'
  BY <1>1 DEF Control, Repairing, Searches, Resolves, MetaPcs
<1>3. call.op = "none"
  BY <1>1 DEF Control
<1>4. Open' => Open /\ tracker' = tracker
  BY <1>1, <1>3 DEF Open
<1>5. RoomForVersion(vc)'
  <2> SUFFICES ASSUME c.op \in UpdateOps
               PROVE  vc < MaxVersion /\ \A s \in Slots : \A x \in Tuples(s) : x[2] < MaxVersion
    BY <1>1 DEF RoomForVersion, Tuples
  <2>1. \A s \in Slots : \A x \in Tuples(s) : x[2] < MaxVersion
    BY <1>1, SumsAre DEF VersionBound
  <2>2. nvm[cur].sum = {<<value, vc>>} /\ value \in Content
    BY DEF Safe, CurrentSound, Holds, Sound, TypeOK
  <2>3. <<value, vc>> \in Tuples(cur)
    BY <2>2, SumsAre, CurFacts
  <2> QED BY <2>1, <2>3, CurFacts
<1>6. TxnProgress'
  BY <1>1, <1>3 DEF TxnProgress, SoundFlash, Disciplined, FlashPcs, MetaPcs
<1> QED BY <1>1, <1>2, <1>4, <1>5, <1>6, QuietFrame

(* So do all the calls the application can make.                           *)
LEMMA CallingSafe ==
  ASSUME SoundFlash, TypeOK, Control, NEW vc \in VersionWords, Safe(vc), Calling
  PROVE  Safe(vc)'
<1>1. CASE \E c \in Calls : Call(c)
  BY <1>1, CallSafe
<1>2. CASE Abort
  <2>1. pc = "idle" /\ tracker' = None /\ UNCHANGED <<nvm, data, run, cur, value, pending>>
    BY <1>2 DEF Abort
  <2>2. call.op = "none" /\ scan = None
    BY <2>1 DEF Control, Repairing, Searches, Resolves, MetaPcs
  <2>3. ~Repairing' /\ ~Repairing /\ ~Open'
    BY <2>1, <2>2 DEF Repairing, Open, run
  <2>4. FlashSafe(vc)'
    BY <2>1, FlashFrame DEF Safe, FlashSafe
  <2>5. RoomForVersion(vc)' /\ TxnProgress' /\ TxnSlot' /\ DataSettled'
    BY <2>1, <2>2, <2>3
       DEF run, RoomForVersion, TxnProgress, TxnSlot, UpdateOps, TransactionOps, Safe, DataSettled
  <2>6. ScanProgress(vc)' /\ RepairProgress(vc)' /\ UpdateProgress(vc)'
    BY <2>1, <2>3 DEF run, ScanProgress, RepairProgress, UpdateProgress, FlashPcs, MetaPcs
  <2> QED BY <2>4, <2>5, <2>6 DEF Safe, FlashSafe
<1> QED BY <1>1, <1>2, CallingIsCall

(* A call that is refused or that only reads leaves the area safe.         *)
LEMMA QuitSafe ==
  ASSUME TypeOK, Control, NEW vc \in VersionWords, Safe(vc),
         Refuse \/ Read \/ TransactionRead \/ ScanCollides \/ NoValidVersion
  PROVE  Safe(vc)'
<1>1. /\ Quit /\ pc \in {"enter", "scan"}
      /\ UNCHANGED <<nvm, data, cur, value, pending, txn>>
  BY DEF Refuse, Read, TransactionRead, ScanCollides, NoValidVersion, Raise,
         Enter, history
<1>2. Open' => Open /\ tracker' = tracker
  <2>1. CASE Refuse
    <3>1. PICK e \in {Check, CheckResolved} \ {None} : Raise(e)
      BY <2>1 DEF Refuse
    <3>2. pc = "enter" /\ Mark /\ (Raise(CheckResolved) => Check = None \/ Raise(Check))
      BY <2>1 DEF Refuse
    <3>3. CASE call.op = "transaction_write" /\ tracker # None
      <4>1. e \notin Harmless
        BY <3>1, <3>3 DEF Check, CheckResolved, Harmless, Addressed, TransactionOps
      <4>2. spoiled' = TRUE
        BY <3>1, <3>3, <4>1 DEF Raise, TransactionOps
      <4> QED BY <4>2 DEF Open
    <3>4. CASE ~(call.op = "transaction_write" /\ tracker # None)
      <4>1. tracker' = tracker
        BY <3>2, <3>4 DEF Mark
      <4>2. spoiled => spoiled'
        BY <3>1 DEF Raise, TypeOK
      <4> QED BY <3>2, <4>1, <4>2 DEF Open
    <3> QED BY <3>3, <3>4
  <2>2. CASE ~Refuse
    <3>1. tracker' = tracker /\ (spoiled => spoiled')
      BY <2>2 DEF Read, TransactionRead, ScanCollides, NoValidVersion, Raise, app, TypeOK
    <3> QED BY <1>1, <3>1 DEF Open
  <2> QED BY <2>1, <2>2
<1>3. RoomForVersion(vc)' /\ TxnProgress'
  BY <1>1, QuitTyped DEF RoomForVersion, TxnProgress, UpdateOps, TransactionOps, Searches, Resolves
<1> QED BY <1>1, <1>2, <1>3, QuitTyped, QuietFrame

(* So does an update that passes its checks.                               *)
LEMMA BeginUpdateSafe ==
  ASSUME TypeOK, Control, NEW vc \in VersionWords, Safe(vc), BeginUpdate
  PROVE  Safe(vc)'
<1>1. /\ pc' = "erase" /\ UNCHANGED <<nvm, data, tracker, call, meta, scan, app, history>>
      /\ Enter("basic_write") \/ Enter("erase_all")
  BY DEF BeginUpdate, EraseAll
<1>2. /\ pc = "enter" /\ scan = None /\ tracker = None
      /\ call.op \in {"basic_write", "erase_all"}
  BY <1>1, EnterTyped DEF Ops, UpdateOps
<1>3. ~Repairing' /\ ~Open'
  BY <1>1, <1>2 DEF Repairing, Open
<1>4. RoomForVersion(vc)'
  BY <1>1, <1>2, <1>3 DEF Safe, RoomForVersion
<1>5. TxnProgress'
  BY <1>1, <1>2, <1>3 DEF TxnProgress, TransactionOps
<1> QED BY <1>1, <1>2, <1>3, <1>4, <1>5, QuietFrame DEF history

(* On the driver the library needs, a transaction that starts with         *)
(* ctx->data invalid is refused.                                           *)
LEMMA SoundStart ==
  ASSUME SoundFlash, Start
  PROVE  /\ Enter("start") /\ tracker' = {}
         /\ UNCHANGED <<nvm, data, formatted, history>>
         /\ IF data # None
              THEN /\ pc' = "erase" /\ spoiled' = FALSE
                   /\ UNCHANGED <<call, todo, meta, scan, err>>
              ELSE Raise("LOW_LEVEL_ERASE")
BY DEF SoundFlash, Start, history

(* So does a transaction that starts, before it erases.                    *)
LEMMA StartSafe ==
  ASSUME SoundFlash, TypeOK, Control, NEW vc \in VersionWords, Safe(vc), Start
  PROVE  Safe(vc)'
<1>1. /\ Enter("start") /\ tracker' = {} /\ UNCHANGED <<nvm, data, formatted, history>>
      /\ IF data # None
           THEN pc' = "erase" /\ spoiled' = FALSE /\ UNCHANGED <<call, todo, meta, scan, err>>
           ELSE Raise("LOW_LEVEL_ERASE")
  BY SoundStart
<1>2. pc = "enter" /\ call.op = "start" /\ scan = None
  BY <1>1, EnterTyped DEF Ops, TransactionOps
<1>3. CASE data # None
  <2>1. ~Repairing' /\ ~Open'
    BY <1>1, <1>2, <1>3 DEF Repairing, Open
  <2>2. RoomForVersion(vc)' /\ TxnProgress'
    BY <1>1, <1>2, <1>3 DEF RoomForVersion, TxnProgress, TransactionOps, UpdateOps, Searches, Resolves
  <2> QED BY <1>1, <1>2, <1>3, <2>1, <2>2, QuietFrame DEF history
<1>4. CASE data = None
  <2>1. Quit /\ spoiled' = TRUE
    BY <1>1, <1>2, <1>4 DEF Raise, Harmless, TransactionOps
  <2>2. ~Open'
    BY <2>1 DEF Open
  <2>3. RoomForVersion(vc)' /\ TxnProgress'
    BY <2>1, QuitTyped DEF RoomForVersion, TxnProgress, TransactionOps, UpdateOps, Searches, Resolves
  <2> QED BY <1>1, <1>2, <2>1, <2>2, <2>3, QuitTyped, QuietFrame DEF history
<1> QED BY <1>3, <1>4

(* So does a transaction write that marks its units.                       *)
LEMMA TransactionWriteSafe ==
  ASSUME SoundFlash, TypeOK, Control, NEW vc \in VersionWords, Safe(vc), TransactionWrite
  PROVE  Safe(vc)'
<1>1. /\ Enter("transaction_write") /\ Mark /\ pc' = "program" /\ todo' = Span(call)
      /\ UNCHANGED <<nvm, data, call, meta, scan, app, history>>
  BY DEF TransactionWrite
<1>2. /\ pc = "enter" /\ call.op = "transaction_write" /\ scan = None
      /\ tracker # None /\ Span(call) \cap tracker = {} /\ data # None
  BY <1>1, EnterTyped DEF Ops, TransactionOps, SoundFlash
<1>3. tracker' = tracker \cup Span(call)
  BY <1>1, <1>2 DEF Mark, Marked
<1>4. ~Repairing' /\ ~Repairing /\ tracker' # None
  BY <1>1, <1>2, MarkTyped DEF Repairing
<1>5. FlashSafe(vc)'
  BY <1>1, <1>2, FlashFrame DEF Safe, FlashSafe, history
<1>6. RoomForVersion(vc)' /\ ScanProgress(vc)' /\ RepairProgress(vc)' /\ UpdateProgress(vc)'
  BY <1>1, <1>2, <1>4
     DEF RoomForVersion, ScanProgress, RepairProgress, UpdateProgress, UpdateOps
<1>7. DataSettled'
  BY <1>1, <1>4 DEF Safe, DataSettled, history
<1>8. TxnProgress'
  BY <1>1, <1>2, <1>4 DEF Safe, TxnProgress, Searches, Resolves, app
<1>9. TxnSlot'
  <2>1. Open /\ Next1' = Next1
    BY <1>1, <1>2 DEF Open, Safe, TxnProgress, TransactionOps, Next1, history
  <2>2. /\ txn \in Partial /\ \A u \in DOMAIN txn : txn[u] \in Clean
        /\ tracker = DOMAIN txn
        /\ MetaErased(Next1)
        /\ \A u \in Units : Sound(nvm[Next1].data[u], WrittenSoFar(u))
    BY <1>2, <2>1 DEF Safe, TxnSlot, MetaPcs
  <2>3. \A u \in Units : WrittenSoFar(u)' = WrittenSoFar(u)
    BY <1>1, <1>2 DEF WrittenSoFar, history
  <2>4. MetaErased(Next1)' /\ \A u \in Units : Sound(nvm[Next1].data[u], WrittenSoFar(u))'
    BY <1>1, <2>1, <2>2, <2>3 DEF MetaErased, Sound, history
  <2>5. Span(call)' = Span(call)
    BY <1>1 DEF Span
  <2> QED BY <1>1, <1>2, <1>3, <2>1, <2>2, <2>4, <2>5 DEF TxnSlot, history
<1> QED BY <1>5, <1>6, <1>7, <1>8, <1>9 DEF Safe, FlashSafe

(* While a transaction is open a commit programs the units that are not    *)
(* marked, and nothing else was programmed.                                *)
LEMMA CommitSafe ==
  ASSUME SoundFlash, TypeOK, Control, NEW vc \in VersionWords, Safe(vc), Commit
  PROVE  Safe(vc)'
<1>1. /\ Enter("commit") /\ todo' = Units \ tracker /\ pc' \in {"seal", "program"}
      /\ UNCHANGED <<nvm, data, tracker, call, meta, scan, app, history>>
  BY DEF Commit
<1>2. pc = "enter" /\ call.op = "commit" /\ scan = None /\ tracker # None /\ data # None
  BY <1>1, EnterTyped DEF Ops, TransactionOps, SoundFlash
<1>3. ~Repairing' /\ ~Repairing
  BY <1>1, <1>2 DEF Repairing
<1>4. FlashSafe(vc)'
  BY <1>1, <1>2, FlashFrame DEF Safe, FlashSafe, history
<1>5. RoomForVersion(vc)' /\ ScanProgress(vc)' /\ RepairProgress(vc)' /\ DataSettled'
  BY <1>1, <1>2, <1>3
     DEF Safe, RoomForVersion, ScanProgress, RepairProgress, DataSettled, history
<1>6. Open /\ Open' /\ Next1' = Next1
  BY <1>1, <1>2 DEF Open, Safe, TxnProgress, TransactionOps, Next1, history, app
<1>7. /\ txn \in Partial /\ \A u \in DOMAIN txn : txn[u] \in Clean
      /\ tracker = DOMAIN txn
      /\ MetaErased(Next1)
      /\ \A u \in Units : Sound(nvm[Next1].data[u], WrittenSoFar(u))
  BY <1>2, <1>6 DEF Safe, TxnSlot, MetaPcs
<1>8. TxnProgress'
  BY <1>1, <1>2 DEF Safe, TxnProgress, Searches, Resolves, app
<1>9. TxnSlot'
  BY <1>1, <1>2, <1>7 DEF TxnSlot, history
<1>10. UpdateProgress(vc)'
  <2>1. txn # None /\ Goal' = Goal
    BY <1>1, <1>7, NoneAssumption DEF Goal, Request, Span, history
  <2>2. \A u \in Units :
          Sound(nvm[Next1].data[u], IF u \in todo' THEN Blank ELSE Goal[u])
    <3> SUFFICES ASSUME NEW u \in Units
                 PROVE  Sound(nvm[Next1].data[u], IF u \in todo' THEN Blank ELSE Goal[u])
      OBVIOUS
    <3>1. u \in todo' <=> u \notin DOMAIN txn
      BY <1>1, <1>7
    <3>2. u \in DOMAIN txn => Goal[u] = txn[u]
      BY <1>2, <2>1 DEF Goal, Request, Overlay
    <3>3. WrittenSoFar(u) = IF u \in DOMAIN txn THEN txn[u] ELSE Blank
      BY <1>2 DEF WrittenSoFar
    <3> QED BY <1>7, <3>1, <3>2, <3>3
  <2>3. todo' \cap DOMAIN txn = {}
    BY <1>1, <1>7
  <2> QED BY <1>1, <1>2, <1>6, <1>7, <2>1, <2>2, <2>3
          DEF UpdateProgress, MetaErased, Sound, MetaPcs, history
<1> QED BY <1>4, <1>5, <1>8, <1>9, <1>10 DEF Safe, FlashSafe

(* The data moves to the next slot, one version higher.                    *)
LEMMA Advance ==
  ASSUME TypeOK, NEW vc \in VersionWords, FlashSafe(vc), vc < MaxVersion,
         NEW d \in Content, d \in [Units -> Clean],
         NEW n \in Slots, n = Next1,
         cur' = n, value' = d, pending' = None,
         Holds(n, d, vc + 1)',
         \A s \in Slots : nvm'[s].sum = nvm[s].sum
  PROVE  FlashSafe(vc + 1)'
<1>1. vc \in Nat /\ vc + 1 \in 1..MaxVersion
  BY VersionAssumption
<1>2. CurrentSound(vc + 1)'
  <2>1. Holds(cur, value, vc + 1)'
    BY DEF Holds
  <2> QED BY <1>1, <2>1 DEF CurrentSound
<1>3. \A s \in Slots : Tuples(s)' = Tuples(s)
  BY DEF Tuples
<1>4. \A s \in Slots \ {cur'} : \A x \in Tuples(s) : x[2] \in Nat /\ x[2] < vc + 1
  <2> SUFFICES ASSUME NEW s \in Slots \ {Next1}, NEW x \in Tuples(s)
               PROVE  x[2] \in Nat /\ x[2] < vc + 1
    OBVIOUS
  <2>1. x[2] \in Nat
    BY SumsAre
  <2>2. CASE s = cur
    <3>1. nvm[cur].sum = {<<value, vc>>}
      BY DEF FlashSafe, CurrentSound, Holds, Sound
    <3>2. x = <<value, vc>>
      BY <2>2, <3>1 DEF Tuples
    <3> QED BY <1>1, <2>1, <3>2
  <2>3. CASE s # cur
    BY <1>1, <2>1, <2>3 DEF FlashSafe, OthersOlder
  <2> QED BY <2>2, <2>3
<1>5. OthersOlder(vc + 1)'
  BY <1>3, <1>4 DEF OthersOlder
<1>6. DoubtSound(vc + 1)'
  <2>1. Next1' = NextSlot(Next1) /\ Next1' \in Slots \ {cur'}
    BY CurFacts DEF Next1
  <2>2. \A x \in Tuples(Next1)' : x[2] # (vc + 1) + 1
    BY <1>1, <1>3, <1>4, <2>1 DEF Tuples
  <2> QED BY <2>2 DEF DoubtSound, Tuples
<1> QED BY <1>2, <1>5, <1>6 DEF FlashSafe

(* So does the beginning of find_current_slot.                             *)
LEMMA BeginSearchSafe ==
  ASSUME TypeOK, Control, NEW vc \in VersionWords, Safe(vc), BeginSearch
  PROVE  Safe(vc)'
<1>1. /\ pc = "enter" /\ call.op \in Resolves /\ data = None /\ pc' = "scan"
      /\ scan' = [i |-> 0, max |-> 0, best |-> None]
      /\ UNCHANGED <<nvm, data, tracker, call, todo, meta, app, history>>
  BY DEF BeginSearch
<1>2. ~Repairing'
  BY <1>1 DEF Repairing
<1>3. FlashSafe(vc)'
  BY <1>1, FlashFrame DEF Safe, FlashSafe, history
<1>4. RoomForVersion(vc)'
  BY <1>1, <1>2 DEF Safe, RoomForVersion, Tuples
<1>5. ScanProgress(vc)'
  BY <1>1, CurFacts DEF ScanProgress, history
<1>6. RepairProgress(vc)' /\ UpdateProgress(vc)' /\ DataSettled'
  BY <1>1, <1>2 DEF RepairProgress, UpdateProgress, DataSettled, FlashPcs, MetaPcs
<1>7. TxnProgress'
  BY <1>1 DEF Safe, TxnProgress, FlashPcs, MetaPcs, app
<1>8. Open' => Open /\ tracker' = tracker
  BY <1>1 DEF Open, app
<1>9. TxnSlot'
  BY <1>1, <1>8, TxnSlotFrame DEF Safe, history
<1> QED BY <1>3, <1>4, <1>5, <1>6, <1>7, <1>9 DEF Safe, FlashSafe

(* When the loop reaches the current slot it keeps it, unless it already   *)
(* holds a newer one.                                                      *)
LEMMA ScanSlotSafe ==
  ASSUME SoundFlash, TypeOK, Control, NEW vc \in VersionWords, Safe(vc), ScanSlot
  PROVE  Safe(vc)'
<1>1. /\ pc = "scan" /\ scan.i < NSlots
      /\ UNCHANGED <<nvm, data, tracker, pc, call, todo, meta, app, history>>
  BY DEF ScanSlot
<1>2. scan.i \in Slots /\ nvm[scan.i] \in SlotCells
  BY <1>1, ScanningTyped, SlotsAssumption DEF TypeOK
<1>3. PICK r \in Readings(nvm[scan.i]), newer \in BOOLEAN :
        /\ newer <=> /\ r.version # InvalidVersion
                     /\ r.version > scan.max
                     /\ IntegrityOk(r)
        /\ r.version = InvalidVersion \/ r.version # scan.max
        /\ scan' = [i |-> scan.i + 1,
                    max |-> IF newer THEN r.version ELSE scan.max,
                    best |-> IF newer THEN [slot |-> scan.i, reading |-> r]
                             ELSE scan.best]
  <2>1. PICK r \in Readings(nvm[scan.i]) : \E r2 \in {r} :
          LET skip == r.version = InvalidVersion
              newer == ~skip /\ r.version > scan.max /\ IntegrityOk(r2)
          IN  /\ skip \/ r.version # scan.max
              /\ scan' = [i |-> scan.i + 1,
                          max |-> IF newer THEN r.version ELSE scan.max,
                          best |-> IF newer THEN [slot |-> scan.i, reading |-> r2]
                                   ELSE scan.best]
    BY DEF ScanSlot, Rereadings, SoundFlash
  <2> DEFINE n == ~(r.version = InvalidVersion) /\ r.version > scan.max /\ IntegrityOk(r)
  <2>2. n \in BOOLEAN
    OBVIOUS
  <2>3. /\ r.version = InvalidVersion \/ r.version # scan.max
        /\ scan' = [i |-> scan.i + 1,
                    max |-> IF n THEN r.version ELSE scan.max,
                    best |-> IF n THEN [slot |-> scan.i, reading |-> r]
                             ELSE scan.best]
    BY <2>1
  <2> QED BY <2>2, <2>3
<1>4. r.version \in VersionWords
  BY <1>2, ReadingsTyped DEF SlotReading
<1>5. scan.i \in Nat /\ scan.max \in Nat /\ scan # None
  BY <1>1, ScanningTyped DEF Control
<1>6. ~Repairing /\ ~Repairing' /\ InDoubt = {pending}
  BY <1>1, OnlyPending DEF Repairing
<1>7. ScanProgress(vc)'
  <2> DEFINE best == scan.best
  <2>1. /\ best = None => scan.max = 0
        /\ best # None => /\ best.reading \in Readings(nvm[best.slot])
                          /\ IntegrityOk(best.reading)
                          /\ best.reading.version = scan.max
                          /\ scan.max # InvalidVersion
        /\ cur < scan.i => best # None /\ scan.max >= vc
    BY <1>1 DEF Safe, ScanProgress
  <2>2. /\ scan'.i = scan.i + 1
        /\ newer => /\ scan'.max = r.version
                    /\ scan'.best = [slot |-> scan.i, reading |-> r]
        /\ ~newer => scan'.max = scan.max /\ scan'.best = best
    BY <1>3
  <2>3. newer => scan'.best # None
    <3>1. r \in SlotReading
      BY <1>2, ReadingsTyped
    <3>2. [slot |-> scan.i, reading |-> r] \in [reading : SlotReading, slot : Slots]
      BY <1>2, <3>1
    <3> QED BY <2>2, <3>2, NoneAssumption
  <2>4. scan'.best = None => scan'.max = 0
    BY <2>1, <2>2, <2>3
  <2>5. scan'.best # None =>
          /\ scan'.best.reading \in Readings(nvm[scan'.best.slot])
          /\ IntegrityOk(scan'.best.reading)
          /\ scan'.best.reading.version = scan'.max
          /\ scan'.max # InvalidVersion
    BY <1>3, <2>1, <2>2
  <2>6. scan.i = cur => r.version = vc /\ IntegrityOk(r)
    <3> SUFFICES ASSUME scan.i = cur PROVE r.version = vc /\ IntegrityOk(r)
      OBVIOUS
    <3>1. Holds(cur, value, vc) /\ value \in Content
      BY DEF Safe, CurrentSound, TypeOK
    <3>2. PICK v \in nvm[cur].version, c \in nvm[cur].sum, c2 \in nvm[cur].sum2,
               d \in DataReadings(nvm[cur]) :
            r = [version |-> v, sum |-> c, sum2 |-> c2, data |-> d]
      BY <1>3 DEF Readings
    <3>3. v = vc /\ c = <<value, vc>>
      BY <3>1, <3>2 DEF Holds, Sound
    <3>4. d = value
      <4>1. \A u \in Units : d[u] \in nvm[cur].data[u] /\ nvm[cur].data[u] = {value[u]}
        BY <3>1, <3>2 DEF Holds, Sound, DataReadings
      <4>2. \A u \in Units : d[u] = value[u]
        BY <4>1
      <4>3. d \in Content
        BY <3>2 DEF DataReadings
      <4> QED BY <3>1, <4>2, <4>3, SameContent
    <3> QED BY <3>2, <3>3, <3>4 DEF IntegrityOk
  <2>7. vc \in 1..MaxVersion /\ vc # InvalidVersion
    BY VersionAssumption DEF Safe, CurrentSound
  <2>8. cur < scan'.i => scan'.best # None /\ scan'.max >= vc
    <3> SUFFICES ASSUME cur < scan.i + 1
                 PROVE  scan'.best # None /\ scan'.max >= vc
      BY <2>2
    <3>1. cur \in Nat
      BY CurFacts
    <3>2. CASE scan.i = cur
      BY <1>3, <1>4, <1>5, <2>1, <2>2, <2>3, <2>6, <2>7, <3>2
    <3>3. CASE cur < scan.i
      BY <1>3, <1>4, <1>5, <2>1, <2>2, <2>3, <2>7, <3>3
    <3> QED BY <1>5, <3>1, <3>2, <3>3
  <2>9. pc' = pc /\ cur' = cur /\ nvm' = nvm
    BY <1>1 DEF history
  <2> QED BY <2>4, <2>5, <2>8, <2>9 DEF ScanProgress
<1>8. FlashSafe(vc)'
  BY <1>1, FlashFrame DEF Safe, FlashSafe, history
<1>9. RoomForVersion(vc)'
  BY <1>1, <1>6 DEF Safe, RoomForVersion, Tuples
<1>10. RepairProgress(vc)' /\ UpdateProgress(vc)' /\ DataSettled'
  BY <1>1, <1>6
     DEF Safe, RepairProgress, UpdateProgress, DataSettled, FlashPcs, MetaPcs, history
<1>11. Open' = Open
  BY <1>1 DEF Open, app
<1>12. TxnProgress' /\ TxnSlot'
  BY <1>1, <1>11, TxnSlotFrame DEF Safe, TxnProgress, FlashPcs, MetaPcs, app, history
<1> QED BY <1>7, <1>8, <1>9, <1>10, <1>12 DEF Safe, FlashSafe

(* Slot s holds, whole, the update in doubt.                               *)
HoldsPending(s, vc) ==
  /\ s = Next1 /\ vc < MaxVersion
  /\ pending # None /\ pending \in Content /\ pending \in [Units -> Clean]
  /\ Sound(nvm[s].version, vc + 1)
  /\ <<pending, vc + 1>> \in nvm[s].sum
  /\ \A u \in Units : Sound(nvm[s].data[u], pending[u])

(* The search elects the current slot or the update in doubt.              *)
LEMMA Elected ==
  ASSUME TypeOK, Control, NEW vc \in VersionWords, Safe(vc),
         pc = "scan", scan.i = NSlots, scan.best # None,
         NEW s, s = scan.best.slot, NEW r, r = scan.best.reading
  PROVE  /\ s \in Slots /\ r \in Readings(nvm[s])
         /\ \/ s = cur /\ r.version = vc /\ r.sum = <<value, vc>>
            \/ /\ s # cur
               /\ HoldsPending(s, vc)
               /\ r.version = vc + 1
               /\ r.sum = <<pending, vc + 1>>
               /\ r.sum = r.sum2 => Sound(nvm[s].sum, <<pending, vc + 1>>)
<1>1. s \in Slots /\ r \in SlotReading
  BY ScanningTyped
<1>2. /\ r \in Readings(nvm[s]) /\ IntegrityOk(r)
      /\ r.version # InvalidVersion /\ r.version >= vc
  <2>1. cur < scan.i /\ scan.max \in Nat
    BY CurFacts, ScanningTyped, SlotsAssumption
  <2> QED BY <2>1 DEF Safe, ScanProgress
<1>3. /\ r.version \in nvm[s].version /\ r.sum \in nvm[s].sum /\ r.sum2 \in nvm[s].sum2
      /\ r.data \in Content /\ r.version \in VersionWords
      /\ \A u \in Units : r.data[u] \in nvm[s].data[u]
      /\ r.sum = <<r.data, r.version>>
  BY <1>1, <1>2 DEF Readings, DataReadings, IntegrityOk, SlotReading
<1>4. CASE s = cur
  BY <1>1, <1>2, <1>3, <1>4 DEF Safe, CurrentSound, Holds, Sound
<1>5. CASE s # cur
  <2>1. r.sum \in Tuples(s)
    BY <1>1, <1>3, SumsAre
  <2>2. s = Next1 /\ r.version = vc + 1 /\ vc < MaxVersion /\ r.data \in InDoubt
    BY <1>1, <1>2, <1>3, <1>5, <2>1 DEF Safe, OthersOlder
  <2>3. r.data = pending
    BY <2>2, OnlyPending
  <2>4. pending # None /\ pending \in Content /\ pending \in [Units -> Clean]
    BY <1>3, <2>3, NoneAssumption DEF Safe, CurrentSound
  <2>5. /\ Sound(nvm[s].version, vc + 1)
        /\ r.sum \in nvm[s].sum2 => Sound(nvm[s].sum, r.sum)
        /\ \A u \in Units :
             \/ Sound(nvm[s].data[u], r.data[u])
             \/ r.data[u] # Blank /\ nvm[s].data[u] \subseteq {Blank, Garbage}
    BY <1>3, <2>1, <2>2 DEF Safe, DoubtSound
  <2>6. \A u \in Units : Sound(nvm[s].data[u], r.data[u])
    <3> SUFFICES ASSUME NEW u \in Units,
                        r.data[u] # Blank, nvm[s].data[u] \subseteq {Blank, Garbage}
                 PROVE  FALSE
      BY <2>5
    <3>1. r.data[u] = Garbage
      BY <1>3
    <3>2. r.data[u] \in Val \cup {Blank}
      BY <2>3, <2>4 DEF Clean
    <3> QED BY <3>1, <3>2, ValueAssumption
  <2> QED BY <1>1, <1>2, <1>3, <1>5, <2>2, <2>3, <2>4, <2>5, <2>6 DEF HoldsPending
<1> QED BY <1>4, <1>5

(* The end of a search makes the elected slot the current one, or starts   *)
(* its repair.                                                             *)
LEMMA ResolveSafe ==
  ASSUME SoundFlash, TypeOK, Control, NEW vc \in VersionWords, Safe(vc), Resolve
  PROVE  \E wc \in VersionWords : Safe(wc)'
<1> DEFINE s == scan.best.slot
           r == scan.best.reading
<1>1. /\ pc = "scan" /\ scan.i = NSlots /\ scan.best # None /\ data' = s
      /\ UNCHANGED <<nvm, tracker, call, todo, app>>
      /\ IF r.sum = r.sum2
           THEN pc' = "enter" /\ scan' = None /\ Settle(s) /\ UNCHANGED meta
           ELSE /\ pc' = "version"
                /\ meta' = [version |-> r.version, sum |-> r.sum]
                /\ UNCHANGED <<scan, history>>
  BY DEF Resolve, Rereadings, SoundFlash
<1>2. /\ s \in Slots
      /\ \/ s = cur /\ r.version = vc /\ r.sum = <<value, vc>>
         \/ /\ s # cur
            /\ HoldsPending(s, vc)
            /\ r.version = vc + 1
            /\ r.sum = <<pending, vc + 1>>
            /\ r.sum = r.sum2 => Sound(nvm[s].sum, <<pending, vc + 1>>)
  BY <1>1, Elected
<1> HIDE DEF s, r
<1>3. /\ call.op \in Searches /\ todo = {} /\ data = None /\ scan # None
      /\ ~Repairing /\ (tracker = None \/ spoiled)
  BY <1>1, ScanningTyped DEF Control, SoundFlash
<1>4. ~Open /\ ~Open'
  BY <1>1, <1>3 DEF Open, app
<1>5. TxnProgress' /\ TxnSlot'
  BY <1>1, <1>3, <1>4 DEF TxnProgress, TxnSlot, Searches, Resolves, TransactionOps, app
<1>6. vc \in Nat /\ vc + 1 \in VersionWords
  BY VersionAssumption DEF Safe, CurrentSound
<1>7. call.op \in UpdateOps =>
        vc < MaxVersion /\ \A t \in Slots : \A x \in Tuples(t) : x[2] < MaxVersion
  BY <1>1 DEF Safe, RoomForVersion
<1>8. HoldsPending(s, vc) /\ call.op \in UpdateOps => vc + 1 < MaxVersion
  <2> SUFFICES ASSUME HoldsPending(s, vc), call.op \in UpdateOps
               PROVE  vc + 1 < MaxVersion
    OBVIOUS
  <2>1. <<pending, vc + 1>> \in Tuples(s)
    BY <1>2, <1>6, SumsAre DEF HoldsPending
  <2> QED BY <1>2, <1>7, <2>1
<1>9. FlashSafe(vc)
  BY DEF Safe, FlashSafe
<1>10. CASE r.sum = r.sum2
  <2>1. pc' = "enter" /\ scan' = None /\ Settle(s) /\ ~Repairing'
    BY <1>1, <1>10 DEF Repairing
  <2>2. DataSettled' /\ cur' = s
    BY <1>1, <2>1 DEF Settle, DataSettled
  <2>3. \A wc : ScanProgress(wc)' /\ RepairProgress(wc)' /\ UpdateProgress(wc)'
    BY <2>1 DEF ScanProgress, RepairProgress, UpdateProgress, FlashPcs, MetaPcs
  <2>4. CASE s = cur
    <3>1. UNCHANGED <<nvm, cur, value, pending>>
      BY <1>1, <2>1, <2>4 DEF Settle
    <3>2. FlashSafe(vc)'
      BY <1>1, <1>9, <3>1, FlashFrame
    <3>3. RoomForVersion(vc)'
      BY <1>1, <1>7, <3>1 DEF RoomForVersion, Tuples
    <3> QED BY <1>5, <2>2, <2>3, <3>2, <3>3 DEF Safe, FlashSafe
  <2>5. CASE s # cur
    <3>1. HoldsPending(s, vc) /\ Sound(nvm[s].sum, <<pending, vc + 1>>)
      BY <1>2, <1>10, <2>5
    <3>2. value' = pending /\ pending' = None
      BY <2>1, <2>5, <3>1 DEF Settle, HoldsPending
    <3>3. PICK p \in Content, n \in Slots : p = pending /\ n = s
      BY <1>2, <3>1 DEF HoldsPending
    <3>4. FlashSafe(vc + 1)'
      <4>1. Holds(n, p, vc + 1)'
        BY <1>1, <3>1, <3>3 DEF Holds, HoldsPending
      <4>2. /\ n = Next1 /\ cur' = n /\ value' = p /\ p \in [Units -> Clean]
            /\ vc < MaxVersion /\ \A t \in Slots : nvm'[t].sum = nvm[t].sum
        BY <1>1, <2>2, <3>1, <3>2, <3>3 DEF HoldsPending
      <4> QED BY <1>9, <3>2, <4>1, <4>2, Advance
    <3>5. RoomForVersion(vc + 1)'
      BY <1>1, <1>7, <1>8, <3>1 DEF RoomForVersion, Tuples
    <3> QED BY <1>5, <1>6, <2>2, <2>3, <3>4, <3>5 DEF Safe, FlashSafe
  <2> QED BY <2>4, <2>5
<1>11. CASE r.sum # r.sum2
  <2>1. /\ pc' = "version" /\ UNCHANGED <<scan, history>>
        /\ meta' = [version |-> r.version, sum |-> r.sum]
    BY <1>1, <1>11
  <2>2. Repairing'
    BY <1>3, <2>1 DEF Repairing
  <2>3. FlashSafe(vc)'
    BY <1>1, <1>9, <2>1, FlashFrame DEF history
  <2>4. RoomForVersion(vc)'
    BY <1>1, <1>7 DEF RoomForVersion, Tuples
  <2>5. DataSettled' /\ ScanProgress(vc)' /\ UpdateProgress(vc)'
    BY <2>1, <2>2 DEF DataSettled, ScanProgress, UpdateProgress
  <2>6. RepairProgress(vc)'
    <3>1. CASE s = cur
      <4>1. r.version = vc /\ r.sum = <<value, vc>>
        BY <1>2, <3>1 DEF HoldsPending
      <4>2. data' = cur' /\ meta' = [version |-> vc, sum |-> <<value', vc>>]
        BY <1>1, <2>1, <3>1, <4>1 DEF history
      <4> QED BY <4>2 DEF RepairProgress
    <3>2. CASE s # cur
      <4>1. HoldsPending(s, vc) /\ r.version = vc + 1 /\ r.sum = <<pending, vc + 1>>
        BY <1>2, <3>2
      <4>2. Next1' = Next1 /\ pending' = pending /\ nvm' = nvm
        BY <1>1, <2>1 DEF Next1, history
      <4> QED BY <1>1, <1>8, <2>1, <4>1, <4>2 DEF RepairProgress, HoldsPending
    <3> QED BY <3>1, <3>2
  <2> QED BY <1>5, <2>3, <2>4, <2>5, <2>6 DEF Safe, FlashSafe
<1> QED BY <1>10, <1>11

(* What a write to one cell of a slot leaves alone.                        *)
LEMMA DataWrite ==
  ASSUME TypeOK, NEW s \in Slots, NEW u \in Units, NEW c,
         nvm' = [nvm EXCEPT ![s].data[u] = c]
  PROVE  /\ \A t \in Slots \ {s} : nvm'[t] = nvm[t]
         /\ nvm'[s].data[u] = c
         /\ \A w \in Units \ {u} : nvm'[s].data[w] = nvm[s].data[w]
         /\ nvm'[s].version = nvm[s].version
         /\ nvm'[s].sum = nvm[s].sum
         /\ nvm'[s].sum2 = nvm[s].sum2
<1> HIDE DEF Slots, Units
<1>1. nvm \in [Slots -> SlotCells] /\ nvm[s] \in SlotCells
  BY DEF TypeOK
<1>2. nvm[s].data \in [Units -> SUBSET Data]
  BY <1>1 DEF SlotCells
<1>3. nvm'[s] = [nvm[s] EXCEPT !.data = [nvm[s].data EXCEPT ![u] = c]]
  BY <1>1
<1>4. /\ nvm'[s].data = [nvm[s].data EXCEPT ![u] = c]
      /\ nvm'[s].version = nvm[s].version
      /\ nvm'[s].sum = nvm[s].sum
      /\ nvm'[s].sum2 = nvm[s].sum2
  BY <1>1, <1>3 DEF SlotCells
<1> QED BY <1>1, <1>2, <1>4

(* Writing a metadata word changes one field of one slot.                  *)
LEMMA MetaWrite ==
  ASSUME TypeOK, NEW s \in Slots, NEW c,
         \/ nvm' = [nvm EXCEPT ![s].version = c]
         \/ nvm' = [nvm EXCEPT ![s].sum = c]
         \/ nvm' = [nvm EXCEPT ![s].sum2 = c]
  PROVE  /\ \A t \in Slots \ {s} : nvm'[t] = nvm[t]
         /\ nvm'[s].data = nvm[s].data
         /\ nvm' = [nvm EXCEPT ![s].version = c] =>
              /\ nvm'[s].version = c
              /\ nvm'[s].sum = nvm[s].sum /\ nvm'[s].sum2 = nvm[s].sum2
         /\ nvm' = [nvm EXCEPT ![s].sum = c] =>
              /\ nvm'[s].sum = c
              /\ nvm'[s].version = nvm[s].version /\ nvm'[s].sum2 = nvm[s].sum2
         /\ nvm' = [nvm EXCEPT ![s].sum2 = c] =>
              /\ nvm'[s].sum2 = c
              /\ nvm'[s].version = nvm[s].version /\ nvm'[s].sum = nvm[s].sum
<1> HIDE DEF Slots, Units
<1>1. nvm \in [Slots -> SlotCells] /\ nvm[s] \in SlotCells
  BY DEF TypeOK
<1>2. \A t \in Slots \ {s} : nvm'[t] = nvm[t]
  BY <1>1
<1>3. /\ nvm' = [nvm EXCEPT ![s].version = c] => nvm'[s] = [nvm[s] EXCEPT !.version = c]
      /\ nvm' = [nvm EXCEPT ![s].sum = c] => nvm'[s] = [nvm[s] EXCEPT !.sum = c]
      /\ nvm' = [nvm EXCEPT ![s].sum2 = c] => nvm'[s] = [nvm[s] EXCEPT !.sum2 = c]
  BY <1>1
<1> QED BY <1>1, <1>2, <1>3 DEF SlotCells

(* Writing a cell with what it holds changes nothing.                      *)
LEMMA SameWrite ==
  ASSUME TypeOK, NEW s \in Slots
  PROVE  /\ [nvm EXCEPT ![s].version = nvm[s].version] = nvm
         /\ [nvm EXCEPT ![s].sum = nvm[s].sum] = nvm
<1> HIDE DEF Slots, Units
<1>1. nvm \in [Slots -> SlotCells] /\ nvm[s] \in SlotCells
  BY DEF TypeOK
<1>2. /\ [nvm[s] EXCEPT !.version = nvm[s].version] = nvm[s]
      /\ [nvm[s] EXCEPT !.sum = nvm[s].sum] = nvm[s]
  BY <1>1 DEF SlotCells
<1> QED BY <1>1, <1>2

(* Outside repairs and formats the slot operated on is the next one.       *)
LEMMA WritesNext ==
  ASSUME TypeOK, Control, NEW vc \in VersionWords, Safe(vc),
         pc \in FlashPcs, ~Repairing, call.op # "format"
  PROVE  data = cur /\ Dst = Next1 /\ scan = None
<1>1. data = cur
  BY DEF Control, Safe, DataSettled
<1> QED BY <1>1 DEF Dst, Next1, Repairing, FlashPcs, MetaPcs

(* A next slot without a checksum is never elected.                        *)
LEMMA NextSlotBlank ==
  ASSUME TypeOK, NEW vc \in VersionWords, FlashSafe(vc),
         UNCHANGED <<cur, value>>,
         pending' # None => pending' \in [Units -> Clean],
         \A s \in Slots \ {Next1} : nvm'[s] = nvm[s],
         nvm'[Next1].sum \subseteq {Blank, Garbage}
  PROVE  FlashSafe(vc)'
<1>1. Next1' = Next1 /\ Next1 \in Slots
  BY CurFacts DEF Next1
<1>2. /\ \A s \in Slots \ {Next1} : Tuples(s)' = Tuples(s)
      /\ Tuples(Next1)' = {}
  BY <1>1, ValueAssumption DEF Tuples
<1>3. nvm'[cur] = nvm[cur]
  BY CurFacts
<1>4. CurrentSound(vc)'
  BY <1>3 DEF FlashSafe, CurrentSound, Holds
<1>5. OthersOlder(vc)'
  BY <1>1, <1>2 DEF FlashSafe, OthersOlder
<1>6. DoubtSound(vc)'
  BY <1>2 DEF DoubtSound
<1> QED BY <1>4, <1>5, <1>6 DEF FlashSafe

(* Erasing the next slot loses nothing: what was in doubt is forgotten.    *)
LEMMA EraseSlotSafe ==
  ASSUME TypeOK, Control, NEW vc \in VersionWords, Safe(vc), EraseSlot
  PROVE  Safe(vc)'
<1>1. /\ pc = "erase" /\ call.op # "format"
      /\ nvm' = [nvm EXCEPT ![Dst] = ErasedSlot]
      /\ pending' = None
      /\ UNCHANGED <<data, tracker, app, cur, value, out>>
  BY DEF EraseSlot
<1>2. ~Repairing
  BY <1>1 DEF Control, MetaPcs
<1>3. data = cur /\ Dst = Next1 /\ scan = None /\ Next1 \in Slots
  BY <1>1, <1>2, WritesNext, CurFacts DEF FlashPcs
<1>4. /\ nvm'[Next1] = ErasedSlot
      /\ \A s \in Slots \ {Next1} : nvm'[s] = nvm[s]
  BY <1>1, <1>3 DEF TypeOK
<1>5. /\ \A u \in Units : Sound(nvm'[Next1].data[u], Blank)
      /\ Sound(nvm'[Next1].version, ErasedVersion)
      /\ Sound(nvm'[Next1].sum, Blank) /\ Sound(nvm'[Next1].sum2, Blank)
  BY <1>4 DEF ErasedSlot, Sound
<1>6. FlashSafe(vc)'
  BY <1>1, <1>4, <1>5, NextSlotBlank DEF Safe, FlashSafe, Sound
<1>7. Next1' = Next1 /\ DataSettled'
  BY <1>1, <1>3 DEF Next1, DataSettled
<1>8. call.op \in {"start", "basic_write", "erase_all"}
  BY <1>1 DEF Control
<1>9. CASE call.op = "start"
  <2>1. Quit /\ txn' = [u \in {} |-> Blank]
    BY <1>9 DEF EraseSlot
  <2>2. txn' \in [{} -> Data] /\ DOMAIN txn' = {}
    BY <2>1
  <2>3. txn' \in Partial
    BY <2>2 DEF Partial
  <2>4. tracker' = {}
    BY <1>1, <1>9 DEF Control
  <2>5. \A u \in Units : Sound(nvm'[Next1].data[u], WrittenSoFar(u)')
    BY <1>5, <2>1, <2>2, QuitTyped DEF WrittenSoFar
  <2>6. TxnSlot'
    BY <1>5, <1>7, <2>1, <2>2, <2>3, <2>4, <2>5, QuitTyped DEF TxnSlot, MetaErased
  <2>7. RoomForVersion(vc)' /\ ScanProgress(vc)' /\ RepairProgress(vc)'
        /\ UpdateProgress(vc)' /\ TxnProgress'
    BY <2>1, QuitTyped DEF RoomForVersion, ScanProgress, RepairProgress,
       UpdateProgress, TxnProgress, UpdateOps, TransactionOps, Searches, Resolves, FlashPcs, MetaPcs
  <2> QED BY <1>6, <1>7, <2>6, <2>7 DEF Safe, FlashSafe
<1>10. CASE call.op # "start"
  <2>1. /\ pc' \in {"seal", "program"} /\ UNCHANGED <<call, todo, meta, scan, txn>>
        /\ call.op \in {"basic_write", "erase_all"}
    BY <1>8, <1>10 DEF EraseSlot
  <2>2. ~Repairing' /\ scan' = None
    BY <1>3, <2>1 DEF Repairing
  <2>3. ~Open /\ ~Open'
    BY <1>1, <2>1 DEF Safe, TxnProgress, Searches, Resolves, FlashPcs, Open, app
  <2>4. TxnProgress' /\ TxnSlot'
    BY <2>1, <2>3 DEF TxnProgress, TxnSlot, TransactionOps
  <2>5. RoomForVersion(vc)' /\ ScanProgress(vc)' /\ RepairProgress(vc)'
    BY <1>2, <2>1, <2>2 DEF Safe, RoomForVersion, ScanProgress, RepairProgress
  <2>6. UpdateProgress(vc)'
    <3>1. todo = IF call.op = "basic_write" THEN Units ELSE {}
      BY <1>1 DEF Control
    <3>2. call.op = "erase_all" => \A u \in Units : Goal'[u] = Blank
      BY <2>1 DEF Goal, Request, Overlay, BlankContent
    <3>3. \A u \in Units :
            Sound(nvm'[Next1].data[u], IF u \in todo' THEN Blank ELSE Goal'[u])
      BY <1>5, <2>1, <3>1, <3>2
    <3> QED BY <1>5, <1>7, <2>1, <3>3 DEF UpdateProgress, MetaPcs
  <2> QED BY <1>6, <1>7, <2>4, <2>5, <2>6 DEF Safe, FlashSafe
<1> QED BY <1>9, <1>10

(* A unit is programmed on an erased cell, with what the update wants.     *)
LEMMA ProgramUnitSafe ==
  ASSUME TypeOK, Control, NEW vc \in VersionWords, Safe(vc), ProgramUnit
  PROVE  Safe(vc)'
<1>1. /\ pc = "program" /\ UNCHANGED <<data, tracker, app, cur, value, pending, out>>
  BY DEF ProgramUnit
<1>2. /\ call.op \in {"basic_write", "transaction_write", "commit"}
      /\ ~Repairing /\ data # None
  BY <1>1 DEF Control, MetaPcs, FlashPcs
<1>3. data = cur /\ Dst = Next1 /\ scan = None /\ Next1 \in Slots /\ Next1' = Next1
  BY <1>1, <1>2, WritesNext, CurFacts DEF FlashPcs, Next1
<1>0. PICK u \in todo : \E x \in Source(u) :
        /\ nvm' = [nvm EXCEPT ![Next1].data[u] =
                     Programmed(nvm[Next1].data[u], Blank, x, {Garbage})]
        /\ todo' = todo \ {u}
  BY <1>3 DEF ProgramUnit
<1>4. PICK x \in Source(u) :
        /\ nvm' = [nvm EXCEPT ![Next1].data[u] =
                     Programmed(nvm[Next1].data[u], Blank, x, {Garbage})]
        /\ todo' = todo \ {u}
  BY <1>0
<1>5. u \in Units /\ todo \subseteq Units
  BY DEF TypeOK
<1>6. /\ \A t \in Slots \ {Next1} : nvm'[t] = nvm[t]
      /\ nvm'[Next1].data[u] = Programmed(nvm[Next1].data[u], Blank, x, {Garbage})
      /\ \A w \in Units \ {u} : nvm'[Next1].data[w] = nvm[Next1].data[w]
      /\ nvm'[Next1].version = nvm[Next1].version
      /\ nvm'[Next1].sum = nvm[Next1].sum
      /\ nvm'[Next1].sum2 = nvm[Next1].sum2
  BY <1>3, <1>4, <1>5, DataWrite
<1>7. x = IF call.op \in {"basic_write", "transaction_write"} /\ u \in Span(call)
            THEN call.val ELSE value[u]
  BY <1>3, <1>5 DEF Source, Safe, CurrentSound, Holds, Sound
<1>8. Sound(nvm[Next1].data[u], Blank) => Sound(nvm'[Next1].data[u], x)
  BY <1>6 DEF Sound, Programmed
<1>9. DataSettled' /\ ~Repairing'
  BY <1>1, <1>3 DEF DataSettled, Repairing, ProgramUnit
<1>10. CASE call.op = "transaction_write"
  <2>1. Open /\ Open'
    <3>1. Open
      BY <1>1, <1>10 DEF Safe, TxnProgress, TransactionOps, FlashPcs, Open
    <3>2. call'.op # "start"
      BY <1>10 DEF ProgramUnit, NoCall
    <3> QED BY <1>1, <3>1, <3>2 DEF Open, app
  <2>2. /\ txn \in Partial /\ \A w \in DOMAIN txn : txn[w] \in Clean
        /\ tracker = DOMAIN txn \cup Span(call)
        /\ Span(call) \cap DOMAIN txn = {}
        /\ todo \subseteq Span(call)
        /\ MetaErased(Next1)
        /\ \A w \in Units : Sound(nvm[Next1].data[w], WrittenSoFar(w))
    BY <1>1, <1>10, <2>1 DEF Safe, TxnSlot
  <2>3. u \in Span(call) /\ u \notin DOMAIN txn /\ x = call.val
    BY <1>7, <1>10, <2>2
  <2>4. Sound(nvm[Next1].data[u], Blank)
    BY <1>5, <2>2, <2>3 DEF WrittenSoFar
  <2>5. \A w \in Units :
          Sound(nvm'[Next1].data[w],
                IF w \in DOMAIN txn THEN txn[w]
                ELSE IF w \in Span(call) \ todo' THEN call.val ELSE Blank)
    BY <1>1, <1>4, <1>6, <1>8, <2>2, <2>3, <2>4 DEF WrittenSoFar, Sound
  <2>6. MetaErased(Next1)' /\ nvm'[Next1].sum \subseteq {Blank, Garbage}
    BY <1>3, <1>6, <2>2 DEF MetaErased, Sound
  <2>7. FlashSafe(vc)'
    BY <1>1, <1>6, <2>6, NextSlotBlank DEF Safe, FlashSafe, CurrentSound
  <2>8. CASE todo' # {}
    <3>1. UNCHANGED <<pc, call, meta, scan, txn>>
      BY <2>8 DEF ProgramUnit
    <3>2. \A w \in Units : Sound(nvm'[Next1].data[w], WrittenSoFar(w)')
      BY <1>1, <2>5, <3>1 DEF WrittenSoFar, Span
    <3>3. Span(call)' = Span(call)
      BY <3>1 DEF Span
    <3>4. TxnSlot'
      BY <1>1, <1>3, <1>4, <1>10, <2>2, <2>6, <3>1, <3>2, <3>3 DEF TxnSlot
    <3>5. TxnProgress'
      BY <1>1, <1>10, <3>1 DEF Safe, TxnProgress, app, Searches, Resolves
    <3>6. RoomForVersion(vc)' /\ ScanProgress(vc)' /\ RepairProgress(vc)'
          /\ UpdateProgress(vc)'
      BY <1>1, <1>9, <1>10, <3>1
         DEF RoomForVersion, ScanProgress, RepairProgress, UpdateProgress, UpdateOps
    <3> QED BY <1>9, <2>7, <3>4, <3>5, <3>6 DEF Safe, FlashSafe
  <2>9. CASE todo' = {}
    <3>1. /\ pc' = "idle" /\ call' = NoCall /\ UNCHANGED <<meta, scan>>
          /\ txn' = [w \in Span(call) \cup DOMAIN txn |->
                       IF w \in Span(call) THEN call.val ELSE txn[w]]
      BY <1>10, <2>2, <2>9, NoneAssumption DEF ProgramUnit
    <3>2. call'.op = "none"
      BY <3>1 DEF NoCall
    <3>3. /\ DOMAIN txn' = tracker
          /\ \A w \in DOMAIN txn' :
               txn'[w] = IF w \in Span(call) THEN call.val ELSE txn[w]
      BY <2>2, <3>1
    <3>4. call.val \in Clean
      BY <1>1, FlashTyped DEF Calls, Clean, FlashPcs
    <3>5. \A w \in DOMAIN txn' : txn'[w] \in Clean
      BY <2>2, <3>3, <3>4
    <3>6. txn' \in Partial
      <4>1. PICK D \in SUBSET Units : txn \in [D -> Data]
        BY <2>2 DEF Partial
      <4>2. Span(call) \subseteq Units /\ call.val \in Data
        BY <1>1, <1>10, FlashTyped DEF Control, Calls, Data, FlashPcs
      <4>3. txn' \in [Span(call) \cup D -> Data]
        BY <3>1, <4>1, <4>2
      <4> QED BY <4>1, <4>2, <4>3 DEF Partial
    <3>7. \A w \in Units : Sound(nvm'[Next1].data[w], WrittenSoFar(w)')
      BY <2>2, <2>5, <2>9, <3>1, <3>3 DEF WrittenSoFar
    <3>8. TxnSlot'
      BY <1>1, <1>3, <2>6, <3>1, <3>2, <3>3, <3>5, <3>6, <3>7 DEF TxnSlot
    <3>9. RoomForVersion(vc)' /\ ScanProgress(vc)' /\ RepairProgress(vc)'
          /\ UpdateProgress(vc)' /\ TxnProgress'
      BY <1>9, <3>1, <3>2 DEF RoomForVersion, ScanProgress, RepairProgress,
         UpdateProgress, TxnProgress, UpdateOps, TransactionOps, Searches, Resolves
    <3> QED BY <1>9, <2>7, <3>8, <3>9 DEF Safe, FlashSafe
  <2> QED BY <2>8, <2>9
<1>11. CASE call.op \in {"basic_write", "commit"}
  <2>1. /\ call.op = "commit" => Open /\ todo \cap DOMAIN txn = {}
        /\ \A w \in Units :
             Sound(nvm[Next1].data[w], IF w \in todo THEN Blank ELSE Goal[w])
        /\ Sound(nvm[Next1].version, ErasedVersion)
        /\ Sound(nvm[Next1].sum, Blank) /\ Sound(nvm[Next1].sum2, Blank)
    BY <1>1, <1>2, <1>11 DEF Safe, UpdateProgress, UpdateOps, FlashPcs, MetaPcs
  <2>2. x = Goal[u]
    <3>1. CASE call.op = "basic_write"
      BY <1>5, <1>7, <3>1 DEF Goal, Request, Overlay
    <3>2. CASE call.op = "commit"
      <4>1. u \notin DOMAIN txn /\ txn # None
        BY <2>1, <3>2, NoneAssumption DEF Safe, TxnSlot
      <4> QED BY <1>5, <1>7, <3>2, <4>1 DEF Goal, Request, Overlay
    <3> QED BY <1>11, <3>1, <3>2
  <2>3. Sound(nvm'[Next1].data[u], Goal[u])
    BY <1>5, <1>8, <2>1, <2>2
  <2>4. pc' \in {"program", "seal"} /\ UNCHANGED <<call, meta, scan, txn>>
    BY <1>1, <1>11 DEF ProgramUnit
  <2>5. Goal' = Goal
    BY <1>1, <2>4 DEF Goal, Request, Span
  <2>6. \A w \in Units :
          Sound(nvm'[Next1].data[w], IF w \in todo' THEN Blank ELSE Goal'[w])
    BY <1>4, <1>6, <2>1, <2>3, <2>5
  <2>7. FlashSafe(vc)'
    BY <1>1, <1>6, <2>1, NextSlotBlank DEF Safe, FlashSafe, CurrentSound, Sound
  <2>8. Open' = Open
    BY <1>1, <1>11, <2>4 DEF Open, app
  <2>9. UpdateProgress(vc)'
    BY <1>3, <1>4, <1>6, <2>1, <2>4, <2>6, <2>8 DEF UpdateProgress, MetaPcs
  <2>10. TxnProgress'
    BY <1>1, <2>4, <2>8 DEF Safe, TxnProgress, app, FlashPcs
  <2>11. TxnSlot'
    BY <1>1, <1>11, <2>4, <2>8 DEF Safe, TxnSlot, Searches, Resolves, TxnProgress, FlashPcs
  <2>12. RoomForVersion(vc)' /\ ScanProgress(vc)' /\ RepairProgress(vc)'
    BY <1>1, <1>9, <2>4 DEF Safe, RoomForVersion, ScanProgress, RepairProgress
  <2> QED BY <1>9, <2>7, <2>9, <2>10, <2>11, <2>12 DEF Safe, FlashSafe
<1> QED BY <1>2, <1>10, <1>11

(* What is known while the metadata is written.                            *)
LEMMA MetaFrame ==
  ASSUME SoundFlash, TypeOK, Control, NEW vc \in VersionWords, Safe(vc),
         pc \in {"seal"} \cup MetaPcs, pc' \in MetaPcs,
         UNCHANGED <<cur, value, pending, data, tracker, call, todo, scan, app, txn>>,
         call.op # "format"
  PROVE  /\ TxnSlot' /\ TxnProgress' /\ DataSettled' /\ ScanProgress(vc)'
         /\ Repairing' = Repairing /\ Next1' = Next1 /\ Open' = Open /\ Goal' = Goal
<1>1. call.op # "transaction_write" /\ todo = {}
  BY DEF Control, Repairing, Searches, UpdateOps, MetaPcs, SoundFlash
<1>2. Open' = Open
  BY <1>1 DEF Open, app, MetaPcs
<1>3. TxnSlot'
  BY <1>1, <1>2 DEF Safe, TxnSlot
<1>4. TxnProgress'
  BY <1>1, <1>2 DEF Safe, TxnProgress, app, FlashPcs
<1>5. Repairing' = Repairing
  BY DEF Repairing, MetaPcs
<1>6. DataSettled' /\ ScanProgress(vc)'
  BY <1>5 DEF Safe, DataSettled, ScanProgress, MetaPcs
<1> QED BY <1>2, <1>3, <1>4, <1>5, <1>6 DEF Next1, Goal, Request, Span

(* What an update that writes its metadata has already put in the next     *)
(* slot.                                                                   *)
LEMMA UpdateFacts ==
  ASSUME TypeOK, Control, NEW vc \in VersionWords, Safe(vc),
         pc \in {"seal"} \cup MetaPcs, ~Repairing, call.op # "format"
  PROVE  /\ call.op \in UpdateOps /\ todo = {} /\ data = cur /\ Dst = Next1
         /\ Next1 \in Slots
         /\ vc \in Nat /\ vc >= 1 /\ vc < MaxVersion /\ vc + 1 \in VersionWords
         /\ Goal \in Content /\ Goal \in [Units -> Clean]
         /\ call.op = "commit" => Open /\ todo \cap DOMAIN txn = {}
         /\ \A u \in Units : Sound(nvm[Next1].data[u], Goal[u])
         /\ Sound(nvm[Next1].version,
                  IF pc \in {"sum", "sum2"} THEN vc + 1 ELSE ErasedVersion)
         /\ Sound(nvm[Next1].sum, IF pc = "sum2" THEN <<Goal, vc + 1>> ELSE Blank)
         /\ Sound(nvm[Next1].sum2, Blank)
         /\ pc \in MetaPcs => meta = [version |-> vc + 1, sum |-> <<Goal, vc + 1>>]
<1>1. call.op \in UpdateOps /\ todo = {}
  BY DEF Control, MetaPcs
<1>2. data = cur /\ Dst = Next1 /\ Next1 \in Slots
  BY WritesNext, CurFacts DEF FlashPcs
<1>3. vc \in Nat /\ vc >= 1 /\ vc < MaxVersion /\ vc + 1 \in VersionWords
  BY <1>1, VersionAssumption DEF Safe, CurrentSound, RoomForVersion
<1>4. call \in Calls
  BY FlashTyped DEF FlashPcs
<1>5. /\ call.op = "commit" => Open /\ todo \cap DOMAIN txn = {}
      /\ \A u \in Units :
           Sound(nvm[Next1].data[u], IF u \in todo THEN Blank ELSE Goal[u])
      /\ Sound(nvm[Next1].version,
               IF pc \in {"sum", "sum2"} THEN vc + 1 ELSE ErasedVersion)
      /\ Sound(nvm[Next1].sum, IF pc = "sum2" THEN <<Goal, vc + 1>> ELSE Blank)
      /\ Sound(nvm[Next1].sum2, Blank)
      /\ pc \in MetaPcs => meta = [version |-> vc + 1, sum |-> <<Goal, vc + 1>>]
  BY <1>1 DEF Safe, UpdateProgress, FlashPcs, MetaPcs
<1>6. \A u \in Units : Goal[u] \in Clean
  <2> SUFFICES ASSUME NEW u \in Units PROVE Goal[u] \in Clean
    OBVIOUS
  <2>1. value[u] \in Clean
    BY DEF Safe, CurrentSound
  <2>2. u \in DOMAIN Request => Request[u] \in Clean
    <3>1. CASE call.op = "basic_write"
      BY <1>4, <3>1 DEF Request, Calls, Clean
    <3>2. CASE call.op = "erase_all"
      BY <3>2 DEF Request, BlankContent, Clean
    <3>3. CASE call.op = "commit"
      BY <1>5, <3>3 DEF Request, Safe, TxnSlot, Clean
    <3> QED BY <1>1, <3>1, <3>2, <3>3 DEF UpdateOps
  <2> QED BY <2>1, <2>2 DEF Goal, Overlay
<1>7. Goal \in Content
  BY <1>4, GoalTyped
<1>8. Goal \in [Units -> Clean]
  <2> HIDE DEF Units
  <2>1. Goal = [u \in Units |-> Goal[u]]
    BY <1>7 DEF Content
  <2>2. [u \in Units |-> Goal[u]] \in [Units -> Clean]
    BY <1>6
  <2> QED BY <2>1, <2>2
<1> QED BY <1>1, <1>2, <1>3, <1>5, <1>7, <1>8

(* The version computed is the next one and the checksum that of the goal. *)
LEMMA SealSafe ==
  ASSUME SoundFlash, TypeOK, Control, NEW vc \in VersionWords, Safe(vc), Seal,
         call.op # "format"
  PROVE  Safe(vc)'
<1>1. /\ pc = "seal" /\ pc' = "version" /\ ~Repairing
      /\ UNCHANGED <<nvm, data, tracker, call, todo, scan, app, history>>
  BY DEF Seal, Control, MetaPcs
<1>2. FlashSafe(vc)'
  BY <1>1, FlashFrame DEF Safe, FlashSafe, history
<1>3. /\ TxnSlot' /\ TxnProgress' /\ DataSettled' /\ ScanProgress(vc)'
      /\ ~Repairing' /\ Next1' = Next1 /\ Open' = Open /\ Goal' = Goal
  BY <1>1, MetaFrame DEF MetaPcs, history
<1>4. RoomForVersion(vc)' /\ RepairProgress(vc)'
  BY <1>1, <1>3 DEF Safe, RoomForVersion, RepairProgress
<1>5. meta' = [version |-> vc + 1, sum |-> <<Goal, vc + 1>>]
  <2>1. PICK v \in nvm[data].version, d \in DataReadings(nvm[Dst]) :
          meta' = [version |-> Succ(v), sum |-> <<d, Succ(v)>>]
    BY DEF Seal
  <2>2. v = vc
    BY <1>1, <2>1, UpdateFacts DEF Safe, CurrentSound, Holds, Sound
  <2>3. Succ(v) = vc + 1
    BY <1>1, <2>2, UpdateFacts DEF Succ
  <2>4. d = Goal
    <3>1. \A u \in Units : d[u] = Goal[u]
      BY <1>1, UpdateFacts DEF DataReadings, Sound
    <3>2. d \in Content
      BY DEF DataReadings
    <3> QED BY <1>1, <3>1, <3>2, UpdateFacts, SameContent
  <2> QED BY <2>1, <2>3, <2>4
<1>6. UpdateProgress(vc)'
  BY <1>1, <1>3, <1>5, UpdateFacts DEF UpdateProgress
<1> QED BY <1>2, <1>3, <1>4, <1>6 DEF Safe, FlashSafe

(* What is known while a repair writes the metadata of a slot again.       *)
LEMMA RepairFacts ==
  ASSUME SoundFlash, TypeOK, Control, NEW vc \in VersionWords, Safe(vc), Repairing
  PROVE  /\ pc \in MetaPcs /\ Dst = data /\ data \in Slots
         /\ call.op \in Searches /\ ~Open /\ call.op # "format"
         /\ vc \in Nat /\ vc >= 1 /\ vc <= MaxVersion /\ InDoubt = {pending}
         /\ \/ /\ data = cur
               /\ meta = [version |-> vc, sum |-> <<value, vc>>]
               /\ nvm[data].version = {vc}
               /\ nvm[data].sum = {<<value, vc>>}
            \/ /\ data = Next1 /\ data # cur
               /\ HoldsPending(data, vc)
               /\ call.op \in UpdateOps => vc + 1 < MaxVersion
               /\ meta = [version |-> vc + 1, sum |-> <<pending, vc + 1>>]
               /\ pc = "sum2" => nvm[data].sum = {<<pending, vc + 1>>}
<1>1. pc \in MetaPcs /\ Dst = data /\ data \in Slots /\ call.op \in Searches
  BY DEF Control, Dst, Repairing, TypeOK, SoundFlash
<1>2. ~Open /\ call.op # "format"
  BY <1>1 DEF Safe, TxnProgress, FlashPcs, Searches, Resolves
<1>3. vc \in Nat /\ vc >= 1 /\ vc <= MaxVersion /\ InDoubt = {pending}
  BY OnlyPending DEF Safe, CurrentSound
<1>4. CASE data = cur /\ meta = [version |-> vc, sum |-> <<value, vc>>]
  BY <1>1, <1>2, <1>3, <1>4 DEF Safe, CurrentSound, Holds, Sound
<1>5. CASE ~(data = cur /\ meta = [version |-> vc, sum |-> <<value, vc>>])
  <2>1. /\ data = Next1 /\ pending # None /\ vc < MaxVersion
        /\ call.op \in UpdateOps => vc + 1 < MaxVersion
        /\ meta = [version |-> vc + 1, sum |-> <<pending, vc + 1>>]
        /\ Sound(nvm[Next1].version, vc + 1)
        /\ <<pending, vc + 1>> \in nvm[Next1].sum
        /\ pc = "sum2" => Sound(nvm[Next1].sum, <<pending, vc + 1>>)
        /\ \A u \in Units : Sound(nvm[Next1].data[u], pending[u])
    BY <1>5 DEF Safe, RepairProgress
  <2>2. pending \in Content /\ pending \in [Units -> Clean]
    BY <2>1 DEF TypeOK, Safe, CurrentSound
  <2>3. HoldsPending(data, vc)
    BY <2>1, <2>2 DEF HoldsPending
  <2> QED BY <1>1, <1>2, <1>3, <2>1, <2>3, CurFacts DEF Sound
<1> QED BY <1>4, <1>5

(* A program pulse on a slot holding the update in doubt, or a cut one,    *)
(* leaves it in doubt.                                                     *)
LEMMA DoubtFrame ==
  ASSUME TypeOK, NEW vc \in VersionWords, FlashSafe(vc), NEW d \in Content,
         d \in InDoubt', vc < MaxVersion, vc \in Nat,
         UNCHANGED <<cur, value>>, pending' # None => pending' \in [Units -> Clean],
         \A s \in Slots \ {Next1} : nvm'[s] = nvm[s],
         Tuples(Next1)' \subseteq {<<d, vc + 1>>} \cup {x \in Tuples(Next1) : x[2] < vc},
         Sound(nvm'[Next1].version, vc + 1),
         <<d, vc + 1>> \in nvm'[Next1].sum2 => Sound(nvm'[Next1].sum, <<d, vc + 1>>),
         \A u \in Units : Sound(nvm'[Next1].data[u], d[u])
  PROVE  FlashSafe(vc)'
<1>1. Next1' = Next1 /\ Next1 \in Slots
  BY CurFacts DEF Next1
<1>2. \A s \in Slots \ {Next1} : Tuples(s)' = Tuples(s)
  BY <1>1 DEF Tuples
<1>3. nvm'[cur] = nvm[cur]
  BY CurFacts
<1>4. CurrentSound(vc)'
  BY <1>3 DEF FlashSafe, CurrentSound, Holds
<1>5. OthersOlder(vc)'
  <2> SUFFICES ASSUME NEW s \in Slots \ {cur}, NEW x \in Tuples(s)'
               PROVE  \/ x[2] < vc
                      \/ s = Next1 /\ x[2] = vc + 1 /\ vc < MaxVersion /\ x[1] \in InDoubt'
    BY <1>1 DEF OthersOlder
  <2>1. CASE s = Next1
    BY <1>1, <2>1
  <2>2. CASE s # Next1
    BY <1>1, <1>2, <2>2 DEF FlashSafe, OthersOlder
  <2> QED BY <2>1, <2>2
<1>6. DoubtSound(vc)'
  <2> SUFFICES ASSUME NEW x \in Tuples(Next1)', x[2] = vc + 1
               PROVE  /\ Sound(nvm'[Next1].version, vc + 1)
                      /\ x \in nvm'[Next1].sum2 => Sound(nvm'[Next1].sum, x)
                      /\ \A u \in Units : Sound(nvm'[Next1].data[u], x[1][u])
    BY <1>1 DEF DoubtSound
  <2>1. x = <<d, vc + 1>>
    OBVIOUS
  <2> QED BY <2>1
<1> QED BY <1>4, <1>5, <1>6 DEF FlashSafe

(* A version word alone elects nothing.                                    *)
LEMMA WriteVersionSafe ==
  ASSUME SoundFlash, TypeOK, Control, NEW vc \in VersionWords, Safe(vc), WriteVersion,
         call.op # "format"
  PROVE  Safe(vc)'
<1>1. /\ pc = "version" /\ pc' = "sum"
      /\ nvm' = [nvm EXCEPT ![Dst].version =
                   Programmed(nvm[Dst].version, ErasedVersion, meta.version,
                              TornProgramVersion(meta.version))]
      /\ UNCHANGED <<data, tracker, call, todo, meta, scan, app, history>>
  BY DEF WriteVersion
<1>2. /\ TxnSlot' /\ TxnProgress' /\ DataSettled' /\ ScanProgress(vc)'
      /\ Repairing' = Repairing /\ Next1' = Next1 /\ Open' = Open /\ Goal' = Goal
  BY <1>1, MetaFrame DEF MetaPcs, history
<1>3. CASE Repairing
  <2>1. nvm' = nvm
    <3>1. Dst \in Slots /\ meta.version \in nvm[Dst].version
          /\ nvm[Dst].version = {meta.version}
      <4>1. CASE data = cur /\ meta = [version |-> vc, sum |-> <<value, vc>>]
        BY <1>3, <4>1, RepairFacts DEF Safe, CurrentSound, Holds, Sound
      <4>2. CASE HoldsPending(data, vc)
                 /\ meta = [version |-> vc + 1, sum |-> <<pending, vc + 1>>]
        BY <1>3, <4>2, RepairFacts DEF HoldsPending, Sound
      <4> QED BY <1>3, <4>1, <4>2, RepairFacts
    <3>2. Programmed(nvm[Dst].version, ErasedVersion, meta.version,
                     TornProgramVersion(meta.version)) = nvm[Dst].version
      BY <3>1 DEF Programmed
    <3> QED BY <1>1, <3>1, <3>2, SameWrite
  <2>2. FlashSafe(vc)'
    BY <1>1, <1>3, <2>1, FlashFrame DEF Safe, FlashSafe, history
  <2>3. RoomForVersion(vc)'
    BY <1>1, <1>2, <1>3, <2>1 DEF Safe, RoomForVersion, Tuples
  <2>4. RepairProgress(vc)'
    BY <1>1, <1>2, <1>3, <2>1 DEF Safe, RepairProgress, history
  <2>5. UpdateProgress(vc)'
    BY <1>2, <1>3 DEF UpdateProgress
  <2> QED BY <1>2, <2>2, <2>3, <2>4, <2>5 DEF Safe, FlashSafe
<1>4. CASE ~Repairing
  <2>1. /\ \A t \in Slots \ {Next1} : nvm'[t] = nvm[t]
        /\ nvm'[Next1].data = nvm[Next1].data
        /\ nvm'[Next1].version = Programmed(nvm[Next1].version, ErasedVersion,
             meta.version, TornProgramVersion(meta.version))
        /\ nvm'[Next1].sum = nvm[Next1].sum /\ nvm'[Next1].sum2 = nvm[Next1].sum2
    BY <1>1, <1>4, UpdateFacts, MetaWrite DEF MetaPcs
  <2>2. Sound(nvm'[Next1].version, vc + 1)
    BY <1>1, <1>4, <2>1, UpdateFacts DEF MetaPcs, Programmed, Sound
  <2>3. nvm'[Next1].sum = {Blank} /\ nvm'[Next1].sum2 = {Blank}
    BY <1>1, <1>4, <2>1, UpdateFacts DEF MetaPcs, Sound
  <2>4. FlashSafe(vc)'
    BY <1>1, <2>1, <2>3, NextSlotBlank DEF Safe, FlashSafe, CurrentSound, history
  <2>5. RoomForVersion(vc)' /\ RepairProgress(vc)'
    BY <1>1, <1>2, <1>4 DEF Safe, RoomForVersion, RepairProgress
  <2>6. UpdateProgress(vc)'
    BY <1>1, <1>2, <1>4, <2>1, <2>2, <2>3, UpdateFacts DEF UpdateProgress, MetaPcs, Sound
  <2> QED BY <1>2, <2>4, <2>5, <2>6 DEF Safe, FlashSafe
<1> QED BY <1>3, <1>4

(* From here on the update may take effect: a reset leaves it in doubt.    *)
LEMMA WriteSumSafe ==
  ASSUME SoundFlash, TypeOK, Control, NEW vc \in VersionWords, Safe(vc), WriteSum,
         call.op # "format"
  PROVE  Safe(vc)'
<1>1. /\ pc = "sum" /\ pc' = "sum2"
      /\ nvm' = [nvm EXCEPT ![Dst].sum =
                   Programmed(nvm[Dst].sum, Blank, meta.sum, {Garbage})]
      /\ UNCHANGED <<data, tracker, call, todo, meta, scan, app, history>>
  BY DEF WriteSum
<1>2. /\ TxnSlot' /\ TxnProgress' /\ DataSettled' /\ ScanProgress(vc)'
      /\ Repairing' = Repairing /\ Next1' = Next1 /\ Open' = Open /\ Goal' = Goal
  BY <1>1, MetaFrame DEF MetaPcs, history
<1>3. FlashSafe(vc) /\ (pending' # None => pending' \in [Units -> Clean])
  BY <1>1 DEF Safe, FlashSafe, CurrentSound, history
<1>4. CASE Repairing /\ nvm[Dst].sum = {meta.sum}
  <2>1. nvm' = nvm
    <3>1. Dst \in Slots
      BY <1>4, RepairFacts
    <3>2. Programmed(nvm[Dst].sum, Blank, meta.sum, {Garbage}) = nvm[Dst].sum
      BY <1>4 DEF Programmed
    <3> QED BY <1>1, <3>1, <3>2, SameWrite
  <2>2. FlashSafe(vc)'
    BY <1>1, <1>3, <1>4, <2>1, FlashFrame DEF history
  <2>3. RoomForVersion(vc)'
    BY <1>1, <1>2, <1>4, <2>1 DEF Safe, RoomForVersion, Tuples
  <2>4. RepairProgress(vc)'
    <3>1. CASE data = cur /\ meta = [version |-> vc, sum |-> <<value, vc>>]
      BY <1>1, <3>1 DEF RepairProgress, history
    <3>2. CASE ~(data = cur /\ meta = [version |-> vc, sum |-> <<value, vc>>])
      <4>1. nvm[Next1].sum = {<<pending, vc + 1>>}
        BY <1>4, <3>2, RepairFacts DEF HoldsPending
      <4> QED BY <1>1, <1>2, <1>4, <2>1, <3>2, <4>1 DEF Safe, RepairProgress, history, Sound
    <3> QED BY <3>1, <3>2
  <2>5. UpdateProgress(vc)'
    BY <1>2, <1>4 DEF UpdateProgress
  <2> QED BY <1>2, <2>2, <2>3, <2>4, <2>5 DEF Safe, FlashSafe
<1>5. CASE Repairing /\ nvm[Dst].sum # {meta.sum}
  <2>1. /\ data = Next1 /\ data # cur /\ data \in Slots /\ Dst = data
        /\ HoldsPending(Next1, vc)
        /\ call.op \in UpdateOps => vc + 1 < MaxVersion
        /\ meta = [version |-> vc + 1, sum |-> <<pending, vc + 1>>]
        /\ vc \in Nat
    BY <1>5, RepairFacts
  <2>2. nvm'[Next1].sum = {<<pending, vc + 1>>}
    BY <1>1, <2>1, MetaWrite DEF Programmed, HoldsPending
  <2>3. /\ \A t \in Slots \ {Next1} : nvm'[t] = nvm[t]
        /\ nvm'[Next1].data = nvm[Next1].data
        /\ nvm'[Next1].version = nvm[Next1].version
    BY <1>1, <2>1, MetaWrite
  <2>4. Tuples(Next1)' = {<<pending, vc + 1>>} /\ Next1 \in Slots
    BY <1>2, <2>1, <2>2, VersionAssumption DEF Tuples, HoldsPending, Sums
  <2>5. FlashSafe(vc)'
    <3>1. PICK d \in Content : d = pending
      BY <2>1 DEF HoldsPending
    <3>2. d \in InDoubt'
      BY <1>1, <3>1 DEF InDoubt, history
    <3>3. Sound(nvm'[Next1].sum, <<d, vc + 1>>) /\ vc < MaxVersion
          /\ Sound(nvm'[Next1].version, vc + 1)
          /\ \A u \in Units : Sound(nvm'[Next1].data[u], d[u])
      BY <2>1, <2>2, <2>3, <3>1 DEF Sound, HoldsPending
    <3>4. Tuples(Next1)' \subseteq {<<d, vc + 1>>}
      BY <2>4, <3>1
    <3>5. UNCHANGED <<cur, value>>
      BY <1>1 DEF history
    <3> QED BY <1>3, <2>1, <2>3, <3>2, <3>3, <3>4, <3>5, DoubtFrame
  <2>6. RoomForVersion(vc)'
    <3>1. \A s \in Slots : \A x \in Tuples(s)' :
            x \in Tuples(s) \/ (s = Next1 /\ x = <<pending, vc + 1>>)
      <4>1. \A s \in Slots \ {Next1} : Tuples(s)' = Tuples(s)
        BY <2>3 DEF Tuples
      <4>2. \A s \in Slots : s = Next1 => Tuples(s)' = {<<pending, vc + 1>>}
        BY <1>2, <2>4 DEF Tuples
      <4> QED BY <4>1, <4>2
    <3> QED BY <1>1, <1>2, <1>5, <2>1, <3>1 DEF Safe, RoomForVersion
  <2>7. RepairProgress(vc)'
    BY <1>1, <1>2, <2>1, <2>2, <2>3 DEF RepairProgress, HoldsPending, Sound, history
  <2>8. UpdateProgress(vc)'
    BY <1>2, <1>5 DEF UpdateProgress
  <2> QED BY <1>2, <2>5, <2>6, <2>7, <2>8 DEF Safe, FlashSafe
<1>6. CASE ~Repairing
  <2>1. /\ call.op \in UpdateOps /\ Dst = Next1 /\ Next1 \in Slots
        /\ Goal \in Content /\ vc \in Nat /\ vc < MaxVersion /\ vc + 1 \in VersionWords
        /\ \A u \in Units : Sound(nvm[Next1].data[u], Goal[u])
        /\ Sound(nvm[Next1].version, vc + 1)
        /\ Sound(nvm[Next1].sum, Blank) /\ Sound(nvm[Next1].sum2, Blank)
        /\ meta = [version |-> vc + 1, sum |-> <<Goal, vc + 1>>]
    BY <1>1, <1>6, UpdateFacts DEF MetaPcs
  <2>2. /\ \A t \in Slots \ {Next1} : nvm'[t] = nvm[t]
        /\ nvm'[Next1].data = nvm[Next1].data
        /\ nvm'[Next1].version = nvm[Next1].version
        /\ nvm'[Next1].sum2 = nvm[Next1].sum2
        /\ nvm'[Next1].sum = {<<Goal, vc + 1>>}
    BY <1>1, <2>1, MetaWrite DEF Programmed, Sound
  <2>3. FlashSafe(vc)'
    <3>1. PICK d \in Content : d = Goal
      BY <2>1
    <3>2. d \in InDoubt'
      BY <1>1, <1>2, <1>6, <2>1, <3>1 DEF InDoubt
    <3>3. Sound(nvm'[Next1].sum, <<d, vc + 1>>)
          /\ Sound(nvm'[Next1].version, vc + 1)
          /\ \A u \in Units : Sound(nvm'[Next1].data[u], d[u])
      BY <2>1, <2>2, <3>1 DEF Sound
    <3>4. Tuples(Next1)' \subseteq {<<d, vc + 1>>}
      BY <1>2, <3>3 DEF Tuples, Sound
    <3>5. UNCHANGED <<cur, value>>
      BY <1>1 DEF history
    <3> QED BY <1>3, <2>1, <2>2, <3>2, <3>3, <3>4, <3>5, DoubtFrame
  <2>4. RoomForVersion(vc)' /\ RepairProgress(vc)'
    BY <1>1, <1>2, <1>6 DEF Safe, RoomForVersion, RepairProgress
  <2>5. UpdateProgress(vc)'
    <3>1. /\ todo = {} /\ todo' = todo
          /\ call.op = "commit" => Open /\ todo \cap DOMAIN txn = {}
          /\ txn' = txn /\ meta' = meta /\ call' = call
      BY <1>1, <1>6, UpdateFacts DEF MetaPcs, history
    <3>2. \A u \in Units : Sound(nvm'[Next1].data[u], Goal[u])
      BY <2>1, <2>2
    <3> QED BY <1>1, <1>2, <2>1, <2>2, <3>1, <3>2 DEF UpdateProgress, Sound
  <2> QED BY <1>2, <2>3, <2>4, <2>5 DEF Safe, FlashSafe
<1> QED BY <1>4, <1>5, <1>6

(* The update takes effect: its version is the current one.                *)
LEMMA UpdateDoneSafe ==
  ASSUME TypeOK, Control, NEW vc \in VersionWords, Safe(vc), UpdateDone
  PROVE  \E wc \in VersionWords : Safe(wc)'
<1>1. /\ pc = "sum2" /\ ~Repairing /\ call.op \in UpdateOps /\ Quit
      /\ nvm' = [nvm EXCEPT ![Dst].sum2 =
                   Programmed(nvm[Dst].sum2, Blank, meta.sum, {Garbage})]
      /\ data' = Dst /\ cur' = Dst /\ value' = Goal /\ pending' = None
      /\ UNCHANGED app
      /\ IF call.op = "commit" THEN tracker' = None ELSE tracker' = tracker
  BY DEF UpdateDone, ProgramSum2
<1>2. /\ Dst = Next1 /\ Next1 \in Slots /\ Goal \in Content
      /\ Goal \in [Units -> Clean]
      /\ vc \in Nat /\ vc < MaxVersion /\ vc + 1 \in VersionWords
      /\ \A u \in Units : Sound(nvm[Next1].data[u], Goal[u])
      /\ Sound(nvm[Next1].version, vc + 1)
      /\ Sound(nvm[Next1].sum, <<Goal, vc + 1>>)
  BY <1>1, UpdateFacts DEF MetaPcs, UpdateOps
<1>3. /\ \A t \in Slots : nvm'[t].sum = nvm[t].sum
      /\ nvm'[Next1].data = nvm[Next1].data
      /\ nvm'[Next1].version = nvm[Next1].version
  BY <1>1, <1>2, MetaWrite
<1>4. FlashSafe(vc + 1)'
  <2>1. PICK d \in Content, n \in Slots : d = Goal /\ n = Next1
    BY <1>2
  <2>2. Holds(n, d, vc + 1)'
    BY <1>2, <1>3, <2>1 DEF Holds, Sound
  <2>3. FlashSafe(vc)
    BY DEF Safe, FlashSafe
  <2>4. d \in [Units -> Clean] /\ cur' = n /\ value' = d
    BY <1>1, <1>2, <2>1
  <2> QED BY <1>1, <1>2, <1>3, <2>1, <2>2, <2>3, <2>4, Advance
<1>5. ~Open'
  <2>1. CASE call.op = "commit"
    BY <1>1, <2>1 DEF Open
  <2>2. CASE call.op # "commit"
    <3>1. ~Open
      BY <1>1, <2>2 DEF Safe, TxnProgress, Searches, Resolves, UpdateOps, FlashPcs, MetaPcs
    <3> QED BY <1>1, <2>2, <3>1 DEF Open, app, UpdateOps
  <2> QED BY <2>1, <2>2
<1>6. \A wc : /\ RoomForVersion(wc)' /\ ScanProgress(wc)' /\ RepairProgress(wc)'
              /\ UpdateProgress(wc)'
  BY <1>1, QuitTyped
     DEF RoomForVersion, ScanProgress, RepairProgress, UpdateProgress, UpdateOps
<1>7. TxnProgress' /\ TxnSlot' /\ DataSettled'
  BY <1>1, <1>5, QuitTyped DEF TxnProgress, TxnSlot, DataSettled, TransactionOps, Searches, Resolves
<1> QED BY <1>2, <1>4, <1>6, <1>7 DEF Safe, FlashSafe

(* The repaired slot is the current one.                                   *)
LEMMA RepairDoneSafe ==
  ASSUME SoundFlash, TypeOK, Control, NEW vc \in VersionWords, Safe(vc), RepairDone
  PROVE  \E wc \in VersionWords : Safe(wc)'
<1>1. /\ Repairing /\ pc = "sum2" /\ pc' = "enter" /\ scan' = None
      /\ nvm' = [nvm EXCEPT ![Dst].sum2 =
                   Programmed(nvm[Dst].sum2, Blank, meta.sum, {Garbage})]
      /\ Settle(data)
      /\ UNCHANGED <<data, tracker, call, todo, app>>
  BY DEF RepairDone, ProgramSum2
<1>2. /\ Dst = data /\ data \in Slots /\ call.op \in Searches /\ ~Open
      /\ vc \in Nat /\ vc <= MaxVersion
      /\ \/ data = cur
         \/ /\ data # cur
            /\ HoldsPending(data, vc)
            /\ call.op \in UpdateOps => vc + 1 < MaxVersion
            /\ nvm[data].sum = {<<pending, vc + 1>>}
  BY <1>1, RepairFacts
<1>3. /\ \A t \in Slots : nvm'[t].sum = nvm[t].sum
      /\ \A t \in Slots \ {data} : nvm'[t] = nvm[t]
      /\ nvm'[data].data = nvm[data].data
      /\ nvm'[data].version = nvm[data].version
  BY <1>1, <1>2, MetaWrite
<1>4. ~Repairing' /\ ~Open' /\ cur' = data /\ DataSettled'
  BY <1>1, <1>2 DEF Repairing, Open, app, Settle, DataSettled, Searches, Resolves
<1>5. TxnProgress' /\ TxnSlot'
  BY <1>1, <1>2, <1>4 DEF TxnProgress, TxnSlot, TransactionOps, Searches, Resolves
<1>6. \A wc : ScanProgress(wc)' /\ RepairProgress(wc)' /\ UpdateProgress(wc)'
  BY <1>1, <1>4 DEF ScanProgress, RepairProgress, UpdateProgress, FlashPcs, MetaPcs
<1>7. call.op \in UpdateOps =>
        vc < MaxVersion /\ \A t \in Slots : \A x \in Tuples(t)' : x[2] < MaxVersion
  BY <1>1, <1>3 DEF Safe, RoomForVersion, Tuples
<1>8. FlashSafe(vc)
  BY DEF Safe, FlashSafe
<1>9. CASE data = cur
  <2>1. UNCHANGED <<cur, value, pending>>
    BY <1>1, <1>9 DEF Settle
  <2>2. Next1' = Next1 /\ nvm'[Next1] = nvm[Next1]
    BY <1>3, <1>9, <2>1, CurFacts DEF Next1
  <2>3. CurrentSound(vc)'
    BY <1>2, <1>3, <1>8, <1>9, <2>1 DEF FlashSafe, CurrentSound, Holds
  <2>4. OthersOlder(vc)'
    <3>1. \A s \in Slots : Tuples(s)' = Tuples(s)
      BY <1>3 DEF Tuples
    <3>2. InDoubt = {pending} /\ pending' \in InDoubt'
      BY <1>1, OnlyPending DEF InDoubt
    <3> QED BY <1>8, <2>1, <2>2, <3>1, <3>2 DEF FlashSafe, OthersOlder
  <2>5. DoubtSound(vc)'
    BY <1>8, <2>2 DEF FlashSafe, DoubtSound, Tuples
  <2>6. RoomForVersion(vc)'
    BY <1>1, <1>7 DEF RoomForVersion
  <2> QED BY <1>4, <1>5, <1>6, <2>3, <2>4, <2>5, <2>6 DEF Safe
<1>10. CASE data # cur
  <2>1. HoldsPending(data, vc) /\ nvm[data].sum = {<<pending, vc + 1>>}
        /\ (call.op \in UpdateOps => vc + 1 < MaxVersion)
    BY <1>2, <1>10
  <2>2. value' = pending /\ pending' = None
    BY <1>1, <1>10, <2>1 DEF Settle, HoldsPending
  <2>3. FlashSafe(vc + 1)'
    <3>1. PICK d \in Content, n \in Slots : d = pending /\ n = data
      BY <1>2, <2>1 DEF HoldsPending
    <3>2. Holds(n, d, vc + 1)'
      BY <1>2, <1>3, <2>1, <3>1 DEF Holds, Sound, HoldsPending
    <3>3. d \in [Units -> Clean] /\ n = Next1 /\ cur' = n /\ value' = d /\ vc < MaxVersion
      BY <1>4, <2>1, <2>2, <3>1 DEF HoldsPending
    <3> QED BY <1>3, <1>8, <2>2, <3>2, <3>3, Advance
  <2>4. RoomForVersion(vc + 1)'
    BY <1>1, <1>7, <2>1 DEF RoomForVersion
  <2>5. vc + 1 \in VersionWords
    BY <1>2, <2>1, VersionAssumption DEF HoldsPending
  <2> QED BY <1>4, <1>5, <1>6, <2>3, <2>4, <2>5 DEF Safe, FlashSafe
<1> QED BY <1>9, <1>10

(* What a cut erasure leaves of a slot: the word of its checksum is half   *)
(* erased when the last page was reached.                                  *)
LEMMA HalfErasedSum ==
  ASSUME NEW s, NEW first
  PROVE  HalfErasedSlot(s, first, NUnits).sum = HalfErased(s.sum, Blank, {Garbage})
BY DEF HalfErasedSlot

(* Otherwise its metadata is intact; in both cases each unit is erased, as *)
(* it was, or half erased.                                                 *)
LEMMA HalfErasedFields ==
  ASSUME NEW s, NEW first, NEW last
  PROVE  /\ last # NUnits =>
              /\ HalfErasedSlot(s, first, last).version = s.version
              /\ HalfErasedSlot(s, first, last).sum = s.sum
              /\ HalfErasedSlot(s, first, last).sum2 = s.sum2
         /\ \A u \in Units :
              HalfErasedSlot(s, first, last).data[u] \in
                {{Blank}, s.data[u], HalfErased(s.data[u], Blank, {Garbage})}
BY DEF HalfErasedSlot

(* An erasure of the next slot that is cut: the update in doubt there, if  *)
(* any, is either untouched or can no longer be elected.                   *)
LEMMA EraseCut ==
  ASSUME SoundFlash, TypeOK, Control, NEW vc \in VersionWords, Safe(vc),
         pc = "erase", call.op # "format", pending' = pending,
         UNCHANGED <<cur, value>>,
         \E last \in 0..NUnits : \E first \in 0..last :
           nvm' = [nvm EXCEPT ![Dst] = HalfErasedSlot(nvm[Dst], first, last)]
  PROVE  FlashSafe(vc)'
<1>1. ~Repairing
  BY DEF Control, MetaPcs
<1>2. Dst = Next1 /\ Next1 \in Slots /\ Next1' = Next1
  BY <1>1, WritesNext, CurFacts DEF FlashPcs, Next1
<1>3. PICK last \in 0..NUnits : \E first \in 0..last :
        nvm' = [nvm EXCEPT ![Next1] = HalfErasedSlot(nvm[Next1], first, last)]
  BY <1>2
<1>4. PICK first \in 0..last :
        nvm' = [nvm EXCEPT ![Next1] = HalfErasedSlot(nvm[Next1], first, last)]
  BY <1>3
<1>5. /\ \A s \in Slots \ {Next1} : nvm'[s] = nvm[s]
      /\ nvm'[Next1] = HalfErasedSlot(nvm[Next1], first, last)
  BY <1>2, <1>4 DEF TypeOK
<1>9. PICK n : n = HalfErasedSlot(nvm[Next1], first, last)
  OBVIOUS
<1>10. /\ last = NUnits => n.sum = HalfErased(nvm[Next1].sum, Blank, {Garbage})
       /\ last # NUnits => /\ n.version = nvm[Next1].version
                           /\ n.sum = nvm[Next1].sum
                           /\ n.sum2 = nvm[Next1].sum2
       /\ \A u \in Units :
            n.data[u] \in {{Blank}, nvm[Next1].data[u],
                          HalfErased(nvm[Next1].data[u], Blank, {Garbage})}
  <2>1. PICK s : s = nvm[Next1]
    OBVIOUS
  <2>2. n = HalfErasedSlot(s, first, last)
    BY <1>9, <2>1
  <2>3. ASSUME last = NUnits
        PROVE  n.sum = HalfErased(s.sum, Blank, {Garbage})
    <3>1. n = HalfErasedSlot(s, first, NUnits)
      BY <2>2, <2>3
    <3> QED BY <3>1, HalfErasedSum
  <2>4. last # NUnits => n.version = s.version /\ n.sum = s.sum /\ n.sum2 = s.sum2
    BY <2>2, HalfErasedFields
  <2>5. \A u \in Units :
          n.data[u] \in {{Blank}, s.data[u], HalfErased(s.data[u], Blank, {Garbage})}
    BY <2>2, HalfErasedFields
  <2> QED BY <2>1, <2>3, <2>4, <2>5
<1>11. nvm'[Next1] = n
  BY <1>5, <1>9
<1>6. /\ FlashSafe(vc) /\ InDoubt = {pending} /\ pending' \in InDoubt'
      /\ pending # None => pending \in [Units -> Clean]
  BY <1>1, OnlyPending DEF Safe, FlashSafe, CurrentSound, InDoubt
<1>7. CASE last = NUnits
  <2>1. nvm'[Next1].sum = HalfErased(nvm[Next1].sum, Blank, {Garbage})
    BY <1>7, <1>10, <1>11
  <2>2. nvm'[Next1].sum \subseteq {Blank, Garbage}
    BY <2>1 DEF HalfErased, SoundFlash
  <2> QED BY <1>5, <1>6, <2>2, NextSlotBlank
<1>8. CASE last # NUnits
  <2>1. /\ nvm'[Next1].version = nvm[Next1].version
        /\ nvm'[Next1].sum = nvm[Next1].sum /\ nvm'[Next1].sum2 = nvm[Next1].sum2
    BY <1>8, <1>10, <1>11
  <2>2. \A u \in Units :
          nvm'[Next1].data[u] \in {{Blank}, nvm[Next1].data[u],
                                   HalfErased(nvm[Next1].data[u], Blank, {Garbage})}
    BY <1>10, <1>11
  <2>3. \A s \in Slots : Tuples(s)' = Tuples(s)
    BY <1>5, <2>1 DEF Tuples
  <2>4. CurrentSound(vc)'
    BY <1>5, <1>6, CurFacts DEF FlashSafe, CurrentSound, Holds
  <2>5. OthersOlder(vc)'
    BY <1>2, <1>6, <2>3 DEF FlashSafe, OthersOlder
  <2>6. DoubtSound(vc)'
    <3> SUFFICES ASSUME NEW x \in Tuples(Next1), x[2] = vc + 1
                 PROVE  /\ Sound(nvm'[Next1].version, vc + 1)
                        /\ x \in nvm'[Next1].sum2 => Sound(nvm'[Next1].sum, x)
                        /\ \A u \in Units :
                             \/ Sound(nvm'[Next1].data[u], x[1][u])
                             \/ /\ x[1][u] # Blank
                                /\ nvm'[Next1].data[u] \subseteq {Blank, Garbage}
      BY <1>2, <2>3 DEF DoubtSound, Tuples
    <3>1. /\ Sound(nvm[Next1].version, vc + 1)
          /\ x \in nvm[Next1].sum2 => Sound(nvm[Next1].sum, x)
          /\ \A u \in Units :
               \/ Sound(nvm[Next1].data[u], x[1][u])
               \/ x[1][u] # Blank /\ nvm[Next1].data[u] \subseteq {Blank, Garbage}
      BY <1>6 DEF FlashSafe, DoubtSound
    <3>2. \A u \in Units :
            \/ Sound(nvm'[Next1].data[u], x[1][u])
            \/ x[1][u] # Blank /\ nvm'[Next1].data[u] \subseteq {Blank, Garbage}
      BY <2>2, <3>1 DEF Sound, HalfErased, SoundFlash
    <3> QED BY <2>1, <3>1, <3>2
  <2> QED BY <2>4, <2>5, <2>6 DEF FlashSafe
<1> QED BY <1>7, <1>8

(* Writing checksum2 of the current slot decides nothing.                  *)
LEMMA CurSum2Frame ==
  ASSUME TypeOK, NEW vc, FlashSafe(vc), UNCHANGED <<cur, value, pending>>,
         InDoubt = {pending},
         \A s \in Slots \ {cur} : nvm'[s] = nvm[s],
         nvm'[cur].data = nvm[cur].data, nvm'[cur].version = nvm[cur].version,
         nvm'[cur].sum = nvm[cur].sum
  PROVE  FlashSafe(vc)'
<1>1. Next1' = Next1 /\ nvm'[Next1] = nvm[Next1]
  BY CurFacts DEF Next1
<1>2. CurrentSound(vc)'
  BY DEF FlashSafe, CurrentSound, Holds
<1>3. \A s \in Slots : Tuples(s)' = Tuples(s)
  BY DEF Tuples
<1>4. OthersOlder(vc)'
  BY <1>1, <1>3 DEF FlashSafe, OthersOlder, InDoubt
<1>5. DoubtSound(vc)'
  BY <1>1 DEF FlashSafe, DoubtSound, Tuples
<1> QED BY <1>2, <1>4, <1>5 DEF FlashSafe

(* The writing of a word is cut during an update.                          *)
LEMMA UpdateCut ==
  ASSUME SoundFlash, TypeOK, Control, NEW vc \in VersionWords, Safe(vc),
         Interrupted, pc \in MetaPcs, ~Repairing, call.op # "format",
         UNCHANGED <<cur, value>>, nvm' # nvm \/ pc = "sum2"
  PROVE  FlashSafe(vc)'
<1>1. /\ call.op \in UpdateOps /\ Dst = Next1 /\ Next1 \in Slots
      /\ Goal \in Content /\ Goal \in [Units -> Clean]
      /\ vc \in Nat /\ vc < MaxVersion /\ vc + 1 \in VersionWords
      /\ \A u \in Units : Sound(nvm[Next1].data[u], Goal[u])
      /\ Sound(nvm[Next1].version,
               IF pc \in {"sum", "sum2"} THEN vc + 1 ELSE ErasedVersion)
      /\ Sound(nvm[Next1].sum, IF pc = "sum2" THEN <<Goal, vc + 1>> ELSE Blank)
      /\ Sound(nvm[Next1].sum2, Blank)
      /\ meta = [version |-> vc + 1, sum |-> <<Goal, vc + 1>>]
  BY UpdateFacts
<1>2. /\ FlashSafe(vc)
      /\ pending # None => pending \in [Units -> Clean]
  BY DEF Safe, FlashSafe, CurrentSound
<1>3. Next1' = Next1
  BY DEF Next1
<1>4. CASE pc = "version"
  <2>1. /\ nvm' = [nvm EXCEPT ![Dst].version =
                     HalfProgrammed(nvm[Dst].version, meta.version,
                                    TornProgramVersion(meta.version))]
        /\ pending' = pending
    BY <1>4 DEF Interrupted, CutShort
  <2>2. /\ \A s \in Slots \ {Next1} : nvm'[s] = nvm[s]
        /\ nvm'[Next1].sum = nvm[Next1].sum
    BY <1>1, <2>1, MetaWrite
  <2>3. nvm'[Next1].sum \subseteq {Blank, Garbage}
    BY <1>1, <1>4, <2>2 DEF Sound
  <2> QED BY <1>2, <2>1, <2>2, <2>3, NextSlotBlank
<1>5. CASE pc \in {"sum", "sum2"}
  <2>1. pending' = Goal
    BY <1>1, <1>5 DEF Interrupted
  <2>2. \/ nvm' = nvm
        \/ /\ pc = "sum"
           /\ nvm' = [nvm EXCEPT ![Dst].sum =
                        HalfProgrammed(nvm[Dst].sum, meta.sum, {Garbage})]
        \/ /\ pc = "sum2"
           /\ nvm' = [nvm EXCEPT ![Dst].sum2 =
                        HalfProgrammed(nvm[Dst].sum2, meta.sum, {Garbage})]
    BY <1>5 DEF Interrupted, CutShort
  <2>3. /\ \A s \in Slots \ {Next1} : nvm'[s] = nvm[s]
        /\ nvm'[Next1].data = nvm[Next1].data
        /\ nvm'[Next1].version = nvm[Next1].version
        /\ pc = "sum" => /\ nvm'[Next1].sum2 = nvm[Next1].sum2
                         /\ nvm'[Next1].sum \subseteq {Blank, <<Goal, vc + 1>>, Garbage}
        /\ pc = "sum2" => nvm'[Next1].sum = nvm[Next1].sum
    <3>1. CASE nvm' = nvm
      BY <1>1, <1>5, <3>1 DEF Sound
    <3>2. CASE /\ pc = "sum"
               /\ nvm' = [nvm EXCEPT ![Dst].sum =
                        HalfProgrammed(nvm[Dst].sum, meta.sum, {Garbage})]
      <4>0. PICK c : /\ c = HalfProgrammed(nvm[Next1].sum, meta.sum, {Garbage})
                     /\ nvm' = [nvm EXCEPT ![Next1].sum = c]
        BY <1>1, <3>2
      <4>1. /\ \A s \in Slots \ {Next1} : nvm'[s] = nvm[s]
            /\ nvm'[Next1].data = nvm[Next1].data
            /\ nvm'[Next1].version = nvm[Next1].version
            /\ nvm'[Next1].sum2 = nvm[Next1].sum2
            /\ nvm'[Next1].sum = HalfProgrammed(nvm[Next1].sum, meta.sum, {Garbage})
        <5>1. nvm' = [nvm EXCEPT ![Next1].sum = c] /\ Next1 \in Slots
          BY <1>1, <4>0
        <5>2. /\ \A s \in Slots \ {Next1} : nvm'[s] = nvm[s]
              /\ nvm'[Next1].data = nvm[Next1].data
              /\ nvm'[Next1].version = nvm[Next1].version
              /\ nvm'[Next1].sum2 = nvm[Next1].sum2
              /\ nvm'[Next1].sum = c
          BY <5>1, MetaWrite
        <5> QED BY <4>0, <5>2
      <4> QED BY <1>1, <3>2, <4>1 DEF HalfProgrammed, Sound
    <3>3. CASE /\ pc = "sum2"
               /\ nvm' = [nvm EXCEPT ![Dst].sum2 =
                        HalfProgrammed(nvm[Dst].sum2, meta.sum, {Garbage})]
      BY <1>1, <3>3, MetaWrite
    <3> QED BY <2>2, <3>1, <3>2, <3>3
  <2>4. PICK d \in Content : d = Goal
    BY <1>1
  <2>5. d \in InDoubt' /\ (pending' # None => pending' \in [Units -> Clean])
    BY <1>1, <2>1, <2>4 DEF InDoubt
  <2>6. /\ Sound(nvm'[Next1].version, vc + 1)
        /\ \A u \in Units : Sound(nvm'[Next1].data[u], d[u])
    BY <1>1, <1>5, <2>3, <2>4
  <2>7. Tuples(Next1)' \subseteq {<<d, vc + 1>>}
    BY <1>1, <1>3, <1>5, <2>3, <2>4, ValueAssumption DEF Tuples, Sound
  <2>8. <<d, vc + 1>> \in nvm'[Next1].sum2 => Sound(nvm'[Next1].sum, <<d, vc + 1>>)
    <3>1. CASE pc = "sum2"
      BY <1>1, <2>3, <2>4, <3>1
    <3>2. CASE pc = "sum"
      <4>1. <<d, vc + 1>> # Blank
        BY <1>1, <2>4, CurFacts, SumsAre
      <4> QED BY <1>1, <2>3, <3>2, <4>1 DEF Sound
    <3> QED BY <1>5, <3>1, <3>2
  <2> QED BY <1>1, <1>2, <2>3, <2>5, <2>6, <2>7, <2>8, DoubtFrame
<1> QED BY <1>4, <1>5 DEF MetaPcs

(* Cut while find_current_slot repairs: the elected slot stays electable   *)
(* and nothing else becomes so.                                            *)
LEMMA RepairCut ==
  ASSUME SoundFlash, TypeOK, Control, NEW vc \in VersionWords, Safe(vc),
         Interrupted, Repairing, UNCHANGED <<cur, value>>
  PROVE  FlashSafe(vc)'
<1>1. /\ pc \in MetaPcs /\ Dst = data /\ data \in Slots
      /\ vc \in Nat /\ InDoubt = {pending}
  BY RepairFacts
<1>2. pending' = pending /\ FlashSafe(vc)
      /\ (pending # None => pending \in [Units -> Clean])
  BY DEF Interrupted, Safe, FlashSafe, CurrentSound
<1>3. CASE nvm' = nvm
  BY <1>2, <1>3, FlashFrame
<1>4. CASE pc = "version" /\ nvm' # nvm
  <2>1. nvm[data].version = {meta.version}
    <3>1. CASE data = cur /\ meta = [version |-> vc, sum |-> <<value, vc>>]
      BY <3>1 DEF Safe, CurrentSound, Holds, Sound
    <3>2. CASE HoldsPending(data, vc)
               /\ meta = [version |-> vc + 1, sum |-> <<pending, vc + 1>>]
      BY <3>2 DEF HoldsPending, Sound
    <3> QED BY <3>1, <3>2, RepairFacts
  <2>2. HalfProgrammed(nvm[data].version, meta.version,
                       TornProgramVersion(meta.version)) = nvm[data].version
    BY <2>1 DEF HalfProgrammed, SoundFlash
  <2>3. nvm' = [nvm EXCEPT ![data].version = nvm[data].version]
    BY <1>1, <1>4, <2>2 DEF Interrupted, CutShort
  <2> QED BY <1>1, <1>4, <2>3, SameWrite
<1>5. CASE pc \in {"sum", "sum2"} /\ nvm' # nvm
  <2>1. PICK c : /\ pc = "sum" => /\ c = HalfProgrammed(nvm[data].sum, meta.sum, {Garbage})
                                  /\ nvm' = [nvm EXCEPT ![data].sum = c]
                 /\ pc = "sum2" => nvm' = [nvm EXCEPT ![data].sum2 = c]
    <3>1. CASE pc = "sum"
      BY <1>1, <1>5, <3>1 DEF Interrupted, CutShort
    <3>2. CASE pc = "sum2"
      BY <1>1, <1>5, <3>2 DEF Interrupted, CutShort
    <3> QED BY <1>5, <3>1, <3>2
  <2>2. pc = "sum" => nvm[data].sum # {meta.sum}
    <3> SUFFICES ASSUME pc = "sum", nvm[data].sum = {meta.sum} PROVE FALSE
      OBVIOUS
    <3>1. c = nvm[data].sum
      BY <2>1 DEF HalfProgrammed, SoundFlash
    <3> QED BY <1>1, <1>5, <2>1, <3>1, SameWrite
  <2>3. /\ \A t \in Slots \ {data} : nvm'[t] = nvm[t]
        /\ nvm'[data].data = nvm[data].data
        /\ nvm'[data].version = nvm[data].version
        /\ pc = "sum" => nvm'[data].sum = c /\ nvm'[data].sum2 = nvm[data].sum2
        /\ pc = "sum2" => nvm'[data].sum = nvm[data].sum
    BY <1>1, <1>5, <2>1, MetaWrite
  <2>4. CASE data = cur /\ nvm[data].sum = {meta.sum}
    <3>1. pc = "sum2"
      BY <1>5, <2>2, <2>4
    <3> QED BY <1>1, <1>2, <2>3, <2>4, <3>1, CurSum2Frame
  <2>5. CASE /\ data = Next1 /\ HoldsPending(data, vc)
             /\ meta = [version |-> vc + 1, sum |-> <<pending, vc + 1>>]
             /\ pc = "sum2" => nvm[data].sum = {<<pending, vc + 1>>}
    <3>1. PICK d \in Content : d = pending /\ d \in InDoubt'
      BY <1>2, <2>5 DEF HoldsPending, InDoubt
    <3>2. nvm'[Next1].sum \subseteq nvm[Next1].sum \cup {<<d, vc + 1>>, Garbage}
      BY <1>5, <2>1, <2>3, <2>5, <3>1 DEF HalfProgrammed
    <3>3. Next1' = Next1 /\ Next1 \in Slots /\ vc < MaxVersion
      BY <1>1, <2>5 DEF Next1, HoldsPending
    <3>4. Tuples(Next1)' \subseteq {<<d, vc + 1>>} \cup {x \in Tuples(Next1) : x[2] < vc}
      <4>1. \A x \in Tuples(Next1) : x[2] < vc \/ x = <<d, vc + 1>>
        <5>1. \A x \in Tuples(Next1) : x[2] < vc \/ (x[2] = vc + 1 /\ x[1] = d)
          BY <1>1, <1>2, <3>1, <3>3, CurFacts DEF FlashSafe, OthersOlder
        <5> QED BY <5>1 DEF Tuples, Sums
      <4>2. Tuples(Next1)' \subseteq Tuples(Next1) \cup {<<d, vc + 1>>}
        BY <3>2, <3>3, ValueAssumption DEF Tuples
      <4> QED BY <4>1, <4>2
    <3>5. <<d, vc + 1>> \in nvm'[Next1].sum2 => Sound(nvm'[Next1].sum, <<d, vc + 1>>)
      <4>1. CASE pc = "sum2"
        BY <2>3, <2>5, <3>1, <4>1 DEF Sound
      <4>2. CASE pc = "sum"
        <5>1. <<d, vc + 1>> \in Tuples(Next1)
          BY <2>5, <3>1, <3>3, SumsAre, VersionAssumption DEF HoldsPending
        <5>2. <<d, vc + 1>> \notin nvm[Next1].sum2
          <6>1. ~Sound(nvm[Next1].sum, <<d, vc + 1>>)
            BY <2>2, <2>5, <3>1, <4>2 DEF Sound
          <6>2. (<<d, vc + 1>>)[2] = vc + 1
            OBVIOUS
          <6> QED BY <1>2, <5>1, <6>1, <6>2 DEF FlashSafe, DoubtSound
        <5> QED BY <2>3, <2>5, <4>2, <5>2
      <4> QED BY <1>5, <4>1, <4>2
    <3>6. /\ Sound(nvm'[Next1].version, vc + 1)
          /\ \A u \in Units : Sound(nvm'[Next1].data[u], d[u])
      BY <2>3, <2>5, <3>1 DEF HoldsPending
    <3> QED BY <1>1, <1>2, <2>3, <2>5, <3>1, <3>3, <3>4, <3>5, <3>6, DoubtFrame
  <2> QED BY <2>4, <2>5, RepairFacts
<1> QED BY <1>1, <1>3, <1>4, <1>5 DEF MetaPcs

(* Cut while a unit is programmed: the next slot still has no checksum.    *)
LEMMA ProgramCut ==
  ASSUME TypeOK, Control, NEW vc \in VersionWords, Safe(vc),
         Interrupted, pc = "program", nvm' # nvm, UNCHANGED <<cur, value>>
  PROVE  FlashSafe(vc)'
<1>1. /\ call.op \in {"basic_write", "transaction_write", "commit"} /\ ~Repairing
      /\ call.op # "format"
  BY DEF Control, MetaPcs
<1>2. Dst = Next1 /\ Next1 \in Slots
  BY <1>1, WritesNext, CurFacts DEF FlashPcs
<1>3. pending' = pending /\ FlashSafe(vc) /\ (pending # None => pending \in [Units -> Clean])
  BY DEF Interrupted, Safe, FlashSafe, CurrentSound
<1>4. nvm[Next1].sum = {Blank} \/ spoiled \/ tracker = None
  <2>1. CASE call.op \in UpdateOps
    BY <1>1, <2>1 DEF Safe, UpdateProgress, FlashPcs, MetaPcs, Sound
  <2>2. CASE call.op = "transaction_write"
    BY <2>2 DEF Safe, TxnSlot, Open, MetaErased, Sound
  <2> QED BY <1>1, <2>1, <2>2 DEF UpdateOps
<1>5. nvm[Next1].sum = {Blank}
  BY <1>1, <1>4 DEF Safe, TxnProgress, TransactionOps, UpdateProgress,
     UpdateOps, FlashPcs, MetaPcs, Sound
<1>6. PICK u \in todo : \E x \in Source(u) :
        nvm' = [nvm EXCEPT ![Next1].data[u] =
                  HalfProgrammed(nvm[Next1].data[u], x, {Garbage})]
  BY <1>2 DEF Interrupted, CutShort
<1>7. PICK c : nvm' = [nvm EXCEPT ![Next1].data[u] = c]
  BY <1>6
<1>8. u \in Units
  BY DEF TypeOK
<1>9. /\ \A t \in Slots \ {Next1} : nvm'[t] = nvm[t]
      /\ nvm'[Next1].sum = nvm[Next1].sum
  BY <1>2, <1>7, <1>8, DataWrite
<1> QED BY <1>3, <1>5, <1>9, NextSlotBlank

(* Wherever a call is cut, what a search may elect stays the committed     *)
(* data or the update in doubt.                                            *)
LEMMA FlashCut ==
  ASSUME SoundFlash, TypeOK, Control, NEW vc \in VersionWords, Safe(vc),
         formatted = "done", Interrupted, UNCHANGED <<cur, value>>
  PROVE  FlashSafe(vc)'
<1>1. call.op = "format" => pc = "enter"
  BY DEF Control
<1>2. CASE Repairing
  BY <1>2, RepairCut
<1>3. CASE ~Repairing /\ pc \in MetaPcs /\ (nvm' # nvm \/ pc = "sum2")
  BY <1>1, <1>3, UpdateCut DEF MetaPcs
<1>4. CASE pc \in {"erase", "program"} /\ nvm' # nvm
  <2>1. CASE pc = "program"
    BY <1>4, <2>1, ProgramCut
  <2>2. CASE pc = "erase"
    BY <1>1, <1>4, <2>2, EraseCut DEF Interrupted, CutShort
  <2> QED BY <1>4, <2>1, <2>2
<1>5. CASE nvm' = nvm /\ pc # "sum2"
  <2>1. pending' = pending
    BY <1>5 DEF Interrupted
  <2> QED BY <1>5, <2>1, FlashFrame DEF Safe, FlashSafe
<1>6. nvm' # nvm => pc \in {"erase", "program"} \cup MetaPcs
  BY DEF Interrupted, CutShort, MetaPcs
<1> QED BY <1>2, <1>3, <1>4, <1>5, <1>6 DEF MetaPcs

(* The driver the library needs reports no error during the end of a       *)
(* search.                                                                 *)
LEMMA SoundError ==
  ASSUME SoundFlash, NvmError
  PROVE  /\ ~Repairing /\ Interrupted /\ Raise("LOW_LEVEL")
         /\ UNCHANGED <<data, tracker, formatted, cur, value, txn, out>>
BY DEF SoundFlash, NvmError

(* A reset loses RAM; a driver error keeps it, and spoils the transaction  *)
(* the failed call belongs to.                                             *)
LEMMA InterruptionSafe ==
  ASSUME SoundFlash, TypeOK, Control, NEW vc \in VersionWords, Safe(vc),
         formatted = "done", Reset \/ NvmError
  PROVE  Safe(vc)'
<1>1. Interrupted /\ Quit /\ UNCHANGED <<cur, value, formatted>>
  BY SoundError DEF Reset, Raise
<1>2. FlashSafe(vc)'
  BY <1>1, FlashCut
<1>3. pc' = "idle" /\ call'.op = "none" /\ scan' = None /\ ~Repairing'
  BY <1>1, QuitTyped DEF Quit, NoCall, Repairing
<1>4. RoomForVersion(vc)' /\ ScanProgress(vc)' /\ RepairProgress(vc)'
      /\ UpdateProgress(vc)' /\ TxnProgress'
  BY <1>3 DEF RoomForVersion, ScanProgress, RepairProgress, UpdateProgress,
     TxnProgress, UpdateOps, TransactionOps, Searches, Resolves
<1>5. CASE Reset
  <2>1. data' = None /\ ~Open'
    BY <1>5 DEF Reset, Open
  <2>2. DataSettled' /\ TxnSlot'
    BY <2>1 DEF DataSettled, TxnSlot
  <2> QED BY <1>2, <1>4, <2>2 DEF Safe, FlashSafe
<1>6. CASE NvmError
  <2>1. /\ ~Repairing
        /\ UNCHANGED <<data, tracker, txn>>
        /\ spoiled' = (spoiled \/ call.op \in TransactionOps)
    BY <1>6, SoundError DEF Raise, Harmless
  <2>2. DataSettled'
    BY <1>1, <2>1 DEF Safe, DataSettled
  <2>3. TxnSlot'
    <3> SUFFICES ASSUME Open' PROVE TxnSlot'
      BY DEF TxnSlot
    <3>1. Open /\ call.op \notin TransactionOps
      BY <2>1 DEF Open, TransactionOps
    <3>2. pc \in {"idle", "enter", "scan"}
      <4>1. pc \in FlashPcs => call.op \in Searches
        BY <2>1, <3>1 DEF Control, FlashPcs, MetaPcs, Searches, TransactionOps, UpdateOps
      <4>2. pc \notin FlashPcs
        BY <3>1, <4>1 DEF Safe, TxnProgress
      <4> QED BY <4>2 DEF TypeOK, Pcs, FlashPcs, MetaPcs
    <3>3. nvm' = nvm
      BY <1>1, <3>2 DEF Interrupted, CutShort
    <3> QED BY <1>1, <1>3, <2>1, <3>1, <3>2, <3>3, TxnSlotFrame DEF Safe
  <2> QED BY <1>2, <1>4, <2>2, <2>3 DEF Safe, FlashSafe
<1> QED BY <1>5, <1>6

=============================================================================
