-------------------------- MODULE LftlAreaTheorems --------------------------
(***************************************************************************)
(* The theorems about the data of an area.  LftlAreaProofs shows           *)
(* that every step keeps a formatted area safe; this module adds the steps *)
(* of a format, which make an area safe, and concludes that IInv is        *)
(* inductive and that AntiTearing holds.  From IInv follows that an area   *)
(* implements the abstract store, and how it uses its flash: it programs   *)
(* no cell twice, its slots are erased in turn, and a search finds its     *)
(* data.  Last, every call ends.                                           *)
(***************************************************************************)
EXTENDS LftlAreaProofs, LftlAreaStore, FiniteSetTheorems

USE DEF Slots, Units, VersionWords, InvalidVersion

(* A transaction that is open when a format begins stays as it is until    *)
(* the format is done.                                                     *)
LEMMA FormattingStep ==
  ASSUME IInv, Next, formatted' = "formatting", tracker' # None, ~spoiled'
  PROVE  txn' \in Partial /\ tracker' = DOMAIN txn'
<1>1. TypeOK /\ Control /\ NotFormatted
  BY DEF IInv
<1>2. CASE Format
  <2>1. /\ pc = "enter" /\ call.op = "format"
        /\ UNCHANGED <<tracker, txn, spoiled>>
    BY <1>2 DEF Format, Enter, history
  <2>2. CASE formatted = "done"
    <3>1. PICK vc \in VersionWords : Safe(vc)
      BY <2>2 DEF IInv
    <3> QED BY <2>1, <3>1 DEF Safe, TxnSlot, Open
  <2>3. CASE formatted # "done"
    BY <1>1, <2>1, <2>3 DEF NotFormatted, TypeOK
  <2> QED BY <2>2, <2>3
<1>3. CASE ~Format
  <2>1. formatted = "formatting" \/ Reset
    BY <1>3 DEF Next, Calling, CallPlain, CallRead, CallTransactionRead, CallBasicWrite,
       CallTransactionWrite, Call, Abort, Step, Refuse, Read, TransactionRead,
       BeginUpdate, EraseAll, Start, TransactionWrite, Commit, BeginSearch, ScanSlot,
       ScanCollides, NoValidVersion, Resolve, EraseSlot, EraseArea, ProgramUnit,
       Seal, WriteVersion, WriteSum, RepairDone, UpdateDone, FormatDone, NvmError,
       Raise, app
  <2>2. ~Reset
    BY DEF Reset
  <2>3. call.op \in {"none", "format"} /\ (pc # "idle" => call.op = "format")
        /\ scan = None /\ ~Repairing
    BY <1>1, <2>1, <2>2 DEF Control, Searches, Resolves, Repairing
  <2>4. UNCHANGED <<tracker, txn>> /\ ~spoiled
    <3>1. CASE Calling
      <4>1. PICK c \in Calls : Call(c)
        BY <2>1, <2>2, <3>1, CallingIsCall DEF Abort
      <4>2. UNCHANGED <<tracker, txn, spoiled>>
        BY <4>1 DEF Call
      <4> QED BY <4>2
    <3>2. CASE NvmError
      BY <1>1, <3>2 DEF NvmError, Raise, TypeOK
    <3>3. ~Refuse
      BY <2>3, NoneAssumption
         DEF Refuse, Check, CheckResolved, Addressed, TransactionOps
    <3>4. CASE EraseArea \/ Seal \/ WriteVersion \/ WriteSum
      BY <3>4 DEF EraseArea, Seal, WriteVersion, WriteSum, history, app
    <3>5. ~(Read \/ TransactionRead \/ BeginUpdate \/ Start \/ TransactionWrite \/ Commit)
      BY <2>3 DEF Read, TransactionRead, BeginUpdate, EraseAll, Start, TransactionWrite,
         Commit, Enter
    <3>6. ~(BeginSearch \/ EraseSlot \/ ProgramUnit)
      BY <1>1, <2>3 DEF BeginSearch, EraseSlot, ProgramUnit, Control, Searches, Resolves
    <3>7. ~(ScanSlot \/ ScanCollides \/ NoValidVersion \/ Resolve)
      BY <1>1, <2>3 DEF ScanSlot, ScanCollides, NoValidVersion, Resolve, Control
    <3>8. ~(RepairDone \/ UpdateDone \/ FormatDone)
      BY <2>3 DEF RepairDone, UpdateDone, FormatDone, UpdateOps
    <3> QED BY <1>3, <2>2, <3>1, <3>2, <3>3, <3>4, <3>5, <3>6, <3>7, <3>8 DEF Next, Step
  <2> QED BY <1>1, <2>1, <2>2, <2>4 DEF NotFormatted
<1> QED BY <1>2, <1>3

(* An area that was never written is erased, and has no transaction.       *)
LEMMA NeverWrittenStep ==
  ASSUME SoundFlash, IInv, Next
  PROVE  NotFormatted'
<1> TypeOK /\ Control /\ NotFormatted
  BY DEF IInv
<1>1. formatted' = "never" => tracker' = None \/ spoiled'
  <2> SUFFICES ASSUME formatted' = "never" PROVE tracker' = None \/ spoiled'
    OBVIOUS
  <2>1. CASE Calling
    BY <2>1, CallingIsCall DEF NotFormatted, Call, Abort
  <2>2. CASE Refuse
    <3>1. (spoiled => spoiled') /\ formatted' = formatted
      BY <2>2, RaiseTyped, NoneAssumption DEF Refuse, Check, CheckResolved, Errors, Raise, TypeOK
    <3> QED BY <2>2, <3>1, MarkTyped DEF Refuse, NotFormatted
  <2>3. CASE Start
    <3>1. call.op = "start" /\ formatted' = formatted
          /\ (data = None => spoiled' = TRUE)
      BY <2>3, SoundStart DEF Enter, Raise, Harmless, TransactionOps
    <3> QED BY <2>3, <3>1 DEF NotFormatted, Control, TypeOK
  <2>4. CASE TransactionWrite
    BY <2>4, MarkTyped DEF TransactionWrite, NotFormatted, app
  <2>5. CASE Format
    BY <2>5 DEF Format
  <2>6. CASE FormatDone
    BY <2>6 DEF FormatDone
  <2>7. CASE Reset
    BY <2>7 DEF Reset
  <2>8. CASE NvmError \/ ScanCollides \/ NoValidVersion
    BY <2>8 DEF NvmError, ScanCollides, NoValidVersion, Raise, NotFormatted, TypeOK
  <2>9. CASE Read \/ TransactionRead \/ BeginUpdate \/ Commit \/ BeginSearch
             \/ ScanSlot \/ Resolve \/ EraseSlot \/ EraseArea \/ ProgramUnit
             \/ Seal \/ WriteVersion \/ WriteSum \/ RepairDone \/ UpdateDone
    <3>1. (tracker' = tracker \/ tracker' = None) /\ UNCHANGED app
      BY <2>9 DEF Read, TransactionRead, BeginUpdate, EraseAll, Commit, BeginSearch,
         ScanSlot, Resolve, EraseSlot, EraseArea, ProgramUnit,
         Seal, WriteVersion, WriteSum, RepairDone, UpdateDone
    <3> QED BY <3>1 DEF NotFormatted, app
  <2> QED BY <2>1, <2>2, <2>3, <2>4, <2>5, <2>6, <2>7, <2>8, <2>9 DEF Next, Step
<1>2. formatted' = "never" => /\ nvm' = NeverWritten
                              /\ data' = None
                              /\ scan' # None => scan'.best = None
  <2> SUFFICES ASSUME formatted' = "never"
               PROVE  nvm' = NeverWritten /\ data' = None /\ (scan' # None => scan'.best = None)
    OBVIOUS
  <2>1. formatted = "never"
    BY DEF Next, Calling, CallPlain, CallRead, CallTransactionRead, CallBasicWrite,
       CallTransactionWrite, Call, Abort, Step, Refuse, Read, TransactionRead,
       BeginUpdate, EraseAll, Start, TransactionWrite, Commit, Format, BeginSearch, ScanSlot,
       ScanCollides, NoValidVersion, Resolve, EraseSlot, EraseArea, ProgramUnit,
       Seal, WriteVersion, WriteSum, RepairDone, UpdateDone, FormatDone, NvmError,
       Reset, Raise, app
  <2>2. nvm = NeverWritten /\ data = None /\ (scan # None => scan.best = None)
    BY <2>1 DEF NotFormatted
  <2>3. pc \in {"idle", "enter", "scan"} /\ ~Repairing
    BY <2>1, <2>2 DEF TypeOK, Control, Pcs, FlashPcs, MetaPcs
  <2>4. CASE Calling
    BY <2>2, <2>4, CallingIsCall DEF Call, Abort, run
  <2>5. CASE Reset \/ NvmError
    BY <2>2, <2>3, <2>5, QuitTyped, SoundError
       DEF Reset, Interrupted, CutShort, Raise
  <2>6. CASE Refuse \/ Read \/ TransactionRead \/ ScanCollides \/ NoValidVersion
    BY <2>2, <2>6, QuitTyped DEF Refuse, Read, TransactionRead, ScanCollides,
       NoValidVersion, Raise
  <2>7. CASE BeginUpdate \/ Start \/ TransactionWrite \/ Commit \/ Format
    BY <2>2, <2>7, QuitTyped DEF BeginUpdate, EraseAll, Start, TransactionWrite, Commit,
       Format, Raise
  <2>8. CASE BeginSearch
    BY <2>2, <2>8 DEF BeginSearch
  <2>9. CASE ScanSlot
    <3>0. pc = "scan" /\ scan.i < NSlots /\ scan # None
      BY <2>9 DEF ScanSlot, Control
    <3>1. scan.i \in Slots /\ scan \in Scans /\ scan # None
      BY <3>0, ScanningTyped, SlotsAssumption
    <3>2. nvm[scan.i] = ErasedSlot /\ nvm[scan.i] \in SlotCells
      BY <2>2, <3>1 DEF NeverWritten, TypeOK
    <3>3. \A r \in Readings(nvm[scan.i]) : ~IntegrityOk(r)
      <4> SUFFICES ASSUME NEW r \in Readings(nvm[scan.i]) PROVE ~IntegrityOk(r)
        OBVIOUS
      <4>1. r.sum = Blank
        BY <3>2 DEF Readings, ErasedSlot
      <4>2. r.data \in Content /\ r.version \in VersionWords
        BY <3>2, ReadingsTyped DEF SlotReading
      <4>3. <<r.data, r.version>> \in Sums
        BY <4>2 DEF Sums
      <4> QED BY <4>1, <4>3, ValueAssumption DEF IntegrityOk
    <3>4. scan'.best = scan.best
      BY <2>9, <3>3 DEF ScanSlot, Rereadings, SoundFlash
    <3> QED BY <2>2, <2>9, <3>1, <3>4 DEF ScanSlot
  <2>10. CASE Resolve
    BY <2>2, <2>10 DEF Resolve, Control
  <2>11. CASE EraseSlot \/ EraseArea \/ ProgramUnit \/ Seal \/ WriteVersion
              \/ WriteSum \/ RepairDone \/ UpdateDone \/ FormatDone
    BY <2>3, <2>11 DEF EraseSlot, EraseArea, ProgramUnit, Seal, WriteVersion,
       WriteSum, RepairDone, UpdateDone, FormatDone, ProgramSum2
  <2> QED BY <2>4, <2>5, <2>6, <2>7, <2>8, <2>9, <2>10, <2>11 DEF Next, Step
<1> QED BY <1>1, <1>2, FormattingStep DEF NotFormatted

(* A format writes version 1 of blank data in slot 0.                      *)
LEMMA FormatStep ==
  ASSUME TypeOK, Control, FormatProgress, Next
  PROVE  FormatProgress'
<1> SUFFICES ASSUME call'.op = "format", pc' \in {"seal"} \cup MetaPcs
             PROVE  FormatProgress'
  BY DEF FormatProgress
<1>1. EraseArea \/ Seal \/ WriteVersion \/ WriteSum
  <2>1. CASE Calling
    BY <2>1, CallingIsCall DEF Call, Abort, run, MetaPcs
  <2>2. CASE Refuse \/ Read \/ TransactionRead \/ ScanCollides \/ NoValidVersion
             \/ UpdateDone \/ FormatDone \/ Reset \/ NvmError
    BY <2>2, QuitTyped DEF Refuse, Read, TransactionRead, ScanCollides,
       NoValidVersion, UpdateDone, FormatDone, Reset, NvmError, Raise, MetaPcs
  <2>3. CASE BeginUpdate \/ Start \/ TransactionWrite \/ Format \/ BeginSearch
             \/ ScanSlot \/ RepairDone
    BY <2>3, QuitTyped DEF BeginUpdate, EraseAll, Start, TransactionWrite, Format,
       BeginSearch, ScanSlot, RepairDone, Raise, MetaPcs
  <2>4. CASE Commit \/ Resolve \/ EraseSlot \/ ProgramUnit
    BY <2>4, QuitTyped DEF Commit, Enter, Resolve, EraseSlot, ProgramUnit, Control,
       MetaPcs, Searches, Resolves
  <2> QED BY <2>1, <2>2, <2>3, <2>4 DEF Next, Step
<1>2. call' = call /\ data' \in {data, 0} /\ (~EraseArea => data' = data)
  BY <1>1 DEF EraseArea, Seal, WriteVersion, WriteSum
<1>3. ~Repairing /\ Dst = 0 /\ 0 \in Slots
  BY <1>2, SlotsAssumption DEF Control, Dst, Searches, Resolves, Repairing
<1>4. PICK z \in Slots : z = 0 /\ z = Dst
  BY <1>3
<1>5. CASE EraseArea
  <2>1. pc' = "seal" /\ data' = 0 /\ \A s \in Slots : nvm'[s] = ErasedSlot
    BY <1>5 DEF EraseArea
  <2>2. /\ \A s \in Slots : nvm'[s].sum = {Blank} /\ nvm'[s].version = {ErasedVersion}
        /\ nvm'[0].data = [u \in Units |-> {Blank}]
        /\ nvm'[0].version = {ErasedVersion} /\ nvm'[0].sum2 = {Blank}
    <3>1. /\ ErasedSlot.sum = {Blank} /\ ErasedSlot.sum2 = {Blank}
          /\ ErasedSlot.data = [u \in Units |-> {Blank}]
          /\ ErasedSlot.version = {ErasedVersion}
      BY DEF ErasedSlot
    <3> QED BY <1>3, <2>1, <3>1
  <2>3. \A u \in Units : nvm'[0].data[u] = {Blank}
    BY <2>2
  <2>4. \A s \in Slots \ {0} : nvm'[s] = ErasedSlot'
    BY <2>1 DEF ErasedSlot
  <2> QED BY <1>3, <2>1, <2>2, <2>3, <2>4 DEF FormatProgress, Sound, MetaPcs
<1>6. CASE Seal
  <2>1. /\ pc = "seal" /\ pc' = "version" /\ nvm' = nvm
    BY <1>6 DEF Seal
  <2>2. /\ \A s \in Slots \ {0} : nvm[s] = ErasedSlot
        /\ \A u \in Units : Sound(nvm[z].data[u], Blank)
        /\ Sound(nvm[z].version, ErasedVersion) /\ Sound(nvm[z].sum, Blank)
        /\ Sound(nvm[z].sum2, Blank) /\ data = 0
    BY <1>2, <1>4, <2>1 DEF FormatProgress
  <2>3. DataReadings(nvm[z]) \subseteq {BlankContent}
    <3> SUFFICES ASSUME NEW d \in DataReadings(nvm[z]) PROVE d = BlankContent
      OBVIOUS
    <3>1. d \in Content /\ \A u \in Units : d[u] = BlankContent[u]
      BY <2>2 DEF DataReadings, Sound, BlankContent
    <3> QED BY <3>1, BlankTypes, SameContent
  <2>4. meta' = [version |-> 1, sum |-> <<BlankContent, 1>>]
    <3>1. Succ(0) = 1
      BY VersionAssumption DEF Succ
    <3> QED BY <1>2, <1>4, <1>6, <2>3, <3>1 DEF Seal
  <2> QED BY <1>2, <1>4, <2>1, <2>2, <2>4 DEF FormatProgress
<1>7. CASE WriteVersion \/ WriteSum
  <2>1. /\ pc \in {"version", "sum"} /\ data' = data /\ meta' = meta
        /\ pc' = IF pc = "version" THEN "sum" ELSE "sum2"
    BY <1>7 DEF WriteVersion, WriteSum
  <2>2. /\ \A s \in Slots \ {z} : nvm[s] = ErasedSlot
        /\ \A u \in Units : Sound(nvm[z].data[u], Blank)
        /\ Sound(nvm[z].version, IF pc = "sum" THEN 1 ELSE ErasedVersion)
        /\ Sound(nvm[z].sum, Blank) /\ Sound(nvm[z].sum2, Blank)
        /\ meta = [version |-> 1, sum |-> <<BlankContent, 1>>] /\ data = 0
    BY <1>2, <1>4, <2>1 DEF FormatProgress, MetaPcs
  <2>3. PICK c : /\ pc = "version" => c = {1} /\ nvm' = [nvm EXCEPT ![z].version = c]
                 /\ pc = "sum" => c = {<<BlankContent, 1>>} /\ nvm' = [nvm EXCEPT ![z].sum = c]
    <3>1. CASE WriteVersion
      <4>1. nvm' = [nvm EXCEPT ![z].version =
                      Programmed(nvm[z].version, ErasedVersion, meta.version,
                                 TornProgramVersion(meta.version))]
        BY <1>4, <3>1 DEF WriteVersion
      <4>2. pc = "version" /\ Programmed(nvm[z].version, ErasedVersion, meta.version,
                       TornProgramVersion(meta.version)) = {1}
        BY <2>2, <3>1 DEF WriteVersion, Programmed, Sound
      <4> QED BY <4>1, <4>2
    <3>2. CASE WriteSum
      <4>1. nvm' = [nvm EXCEPT ![z].sum =
                      Programmed(nvm[z].sum, Blank, meta.sum, {Garbage})]
        BY <1>4, <3>2 DEF WriteSum
      <4>2. pc = "sum" /\ Programmed(nvm[z].sum, Blank, meta.sum, {Garbage})
              = {<<BlankContent, 1>>}
        BY <2>2, <3>2 DEF WriteSum, Programmed, Sound
      <4> QED BY <4>1, <4>2
    <3> QED BY <1>7, <3>1, <3>2
  <2>4. /\ \A s \in Slots \ {z} : nvm'[s] = nvm[s]
        /\ nvm'[z].data = nvm[z].data
        /\ nvm'[z].sum2 = nvm[z].sum2
        /\ pc = "version" => nvm'[z].version = c /\ nvm'[z].sum = nvm[z].sum
        /\ pc = "sum" => nvm'[z].sum = c /\ nvm'[z].version = nvm[z].version
    BY <2>1, <2>3, MetaWrite
  <2>5. /\ \A s \in Slots \ {z} : nvm'[s] = ErasedSlot
        /\ \A u \in Units : Sound(nvm'[z].data[u], Blank)
        /\ Sound(nvm'[z].version, 1)
        /\ Sound(nvm'[z].sum, IF pc = "sum" THEN <<BlankContent, 1>> ELSE Blank)
        /\ Sound(nvm'[z].sum2, Blank)
    BY <2>1, <2>2, <2>3, <2>4 DEF Sound
  <2> QED BY <1>2, <1>4, <2>1, <2>2, <2>5 DEF FormatProgress
<1> QED BY <1>1, <1>5, <1>6, <1>7

(* A format that returns leaves a safe area.                               *)
LEMMA FormatDoneSafe ==
  ASSUME TypeOK, Control, NotFormatted, FormatProgress, FormatDone
  PROVE  Safe(1)'
<1>1. /\ call.op = "format" /\ pc = "sum2" /\ Quit
      /\ cur' = 0 /\ value' = BlankContent /\ pending' = None
      /\ txn' = IF txn = None THEN None ELSE [u \in DOMAIN txn |-> Blank]
      /\ UNCHANGED <<data, tracker, spoiled>>
      /\ nvm' = [nvm EXCEPT ![Dst].sum2 =
                   Programmed(nvm[Dst].sum2, Blank, meta.sum, {Garbage})]
  BY DEF FormatDone, ProgramSum2
<1>2. ~Repairing /\ Dst = 0 /\ 0 \in Slots
  BY <1>1, SlotsAssumption DEF Control, Dst, Searches, Resolves, Repairing
<1>3. PICK z \in Slots : z = 0 /\ z = Dst
  BY <1>2
<1>4. /\ \A s \in Slots \ {z} : nvm[s] = ErasedSlot /\ Sound(nvm[s].sum, Blank)
      /\ \A u \in Units : Sound(nvm[z].data[u], Blank)
      /\ Sound(nvm[z].version, 1)
      /\ Sound(nvm[z].sum, <<BlankContent, 1>>)
      /\ data = 0
  <2>1. ErasedSlot.sum = {Blank}
    BY DEF ErasedSlot
  <2> QED BY <1>1, <1>3, <2>1 DEF FormatProgress, MetaPcs, Sound
<1>5. PICK c : nvm' = [nvm EXCEPT ![z].sum2 = c]
  BY <1>1, <1>3
<1>6. /\ \A s \in Slots \ {z} : nvm'[s] = nvm[s]
      /\ nvm'[z].data = nvm[z].data
      /\ nvm'[z].version = nvm[z].version /\ nvm'[z].sum = nvm[z].sum
  BY <1>5, MetaWrite
<1>7. CurrentSound(1)'
  <2>1. \A u \in Units : Sound(nvm'[z].data[u], BlankContent[u])
    BY <1>4, <1>6 DEF BlankContent
  <2>2. BlankContent \in [Units -> Clean]
    BY DEF BlankContent, Clean
  <2> QED BY <1>1, <1>3, <1>4, <1>6, <2>1, <2>2, VersionAssumption
       DEF CurrentSound, Holds
<1>8. \A s \in Slots \ {z} : Tuples(s)' = {}
  BY <1>4, <1>6, ValueAssumption DEF Tuples, Sound
<1>9. Next1' \in Slots \ {z}
  BY <1>1, <1>3, NextSlotType DEF Next1
<1>10. OthersOlder(1)' /\ DoubtSound(1)'
  <2>1. OthersOlder(1)'
    BY <1>1, <1>3, <1>8 DEF OthersOlder
  <2>2. Tuples(Next1)' = {}
    BY <1>8, <1>9 DEF Tuples
  <2> QED BY <2>1, <2>2 DEF DoubtSound
<1>11. pc' = "idle" /\ call'.op = "none" /\ scan' = None /\ ~Repairing'
  BY <1>1, QuitTyped
<1>12. RoomForVersion(1)' /\ ScanProgress(1)' /\ RepairProgress(1)'
       /\ UpdateProgress(1)' /\ TxnProgress' /\ DataSettled'
  BY <1>1, <1>4, <1>11 DEF RoomForVersion, ScanProgress, RepairProgress,
     UpdateProgress, TxnProgress, DataSettled, UpdateOps, TransactionOps, Searches, Resolves
<1>13. TxnSlot'
  <2> SUFFICES ASSUME Open' PROVE TxnSlot'
    BY DEF TxnSlot
  <2>1. tracker # None /\ ~spoiled /\ formatted = "formatting"
    BY <1>1 DEF Open, Control
  <2>2. txn \in Partial /\ tracker = DOMAIN txn
    BY <2>1 DEF NotFormatted
  <2>3. txn' = [u \in DOMAIN txn |-> Blank] /\ DOMAIN txn' = DOMAIN txn
    BY <1>1, <2>2, NoneAssumption
  <2>4. txn' \in Partial
    <3>1. PICK D \in SUBSET Units : txn \in [D -> Data]
      BY <2>2 DEF Partial
    <3>2. txn' \in [D -> Data]
      BY <2>3, <3>1, BlankTypes
    <3> QED BY <3>2 DEF Partial
  <2>5. nvm'[Next1'] = ErasedSlot
    BY <1>4, <1>6, <1>9
  <2>6. \A u \in Units : WrittenSoFar(u)' = Blank
    BY <1>11, <2>3 DEF WrittenSoFar
  <2>7. MetaErased(Next1)' /\ \A u \in Units : Sound(nvm[Next1].data[u], WrittenSoFar(u))'
    BY <2>5, <2>6 DEF MetaErased, ErasedSlot, Sound
  <2>8. \A u \in DOMAIN txn' : txn'[u] \in Clean
    BY <2>3 DEF Clean
  <2> QED BY <1>1, <1>11, <2>2, <2>3, <2>4, <2>7, <2>8 DEF TxnSlot
<1> QED BY <1>7, <1>10, <1>12, <1>13 DEF Safe

(* A formatted area stays safe, for the same version or the next one.      *)
LEMMA SafeStep ==
  ASSUME SoundFlash, TypeOK, Control, NEW vc \in VersionWords, Safe(vc),
         formatted = "done", formatted' = "done", Next
  PROVE  \E wc \in VersionWords : Safe(wc)'
<1>1. call.op = "format" => pc = "enter"
  BY DEF Control
<1>2. CASE Calling
  BY <1>2, CallingSafe
<1>3. CASE Refuse \/ Read \/ TransactionRead \/ ScanCollides \/ NoValidVersion
  BY <1>3, QuitSafe
<1>4. CASE BeginUpdate \/ Start \/ TransactionWrite \/ Commit
  BY <1>4, BeginUpdateSafe, StartSafe, TransactionWriteSafe, CommitSafe
<1>5. CASE BeginSearch \/ ScanSlot \/ Resolve
  BY <1>5, BeginSearchSafe, ScanSlotSafe, ResolveSafe
<1>6. CASE EraseSlot \/ ProgramUnit
  BY <1>6, EraseSlotSafe, ProgramUnitSafe
<1>7. CASE Seal \/ WriteVersion \/ WriteSum
  <2>1. call.op # "format"
    BY <1>1, <1>7 DEF Seal, WriteVersion, WriteSum
  <2> QED BY <1>7, <2>1, SealSafe, WriteVersionSafe, WriteSumSafe
<1>8. CASE RepairDone \/ UpdateDone
  BY <1>8, RepairDoneSafe, UpdateDoneSafe
<1>9. CASE NvmError \/ Reset
  BY <1>9, InterruptionSafe
<1>10. ~Format /\ ~EraseArea /\ ~FormatDone
  BY <1>1 DEF Format, EraseArea, FormatDone, ProgramSum2
<1> QED BY <1>2, <1>3, <1>4, <1>5, <1>6, <1>7, <1>8, <1>9, <1>10 DEF Next, Step

(* An area becomes formatted when a format returns.                        *)
LEMMA BecomesFormatted ==
  ASSUME formatted # "done", formatted' = "done", Next
  PROVE  FormatDone
BY DEF Next, Calling, CallPlain, CallRead, CallTransactionRead, CallBasicWrite,
   CallTransactionWrite, Call, Abort, Step, Refuse, Read, TransactionRead,
   BeginUpdate, EraseAll, Start, TransactionWrite, Commit, Format, BeginSearch, ScanSlot,
   ScanCollides, NoValidVersion, Resolve, EraseSlot, EraseArea, ProgramUnit,
   Seal, WriteVersion, WriteSum, RepairDone, UpdateDone, NvmError,
   Reset, Raise, app

(* An area that was never written satisfies the invariant.                 *)
LEMMA InitIInv == Init => IInv
<1> SUFFICES ASSUME Init PROVE IInv
  OBVIOUS
<1>1. TypeOK /\ Control
  BY InitTyped
<1>2. NotFormatted /\ FormatProgress /\ formatted # "done"
  BY DEF Init, NotFormatted, FormatProgress, NoCall
<1> QED BY <1>1, <1>2 DEF IInv

(* The invariant depends on the variables only.                            *)
LEMMA StutterIInv ==
  ASSUME IInv, UNCHANGED vars
  PROVE  IInv'
<1> USE DEF vars, run, app, history
<1>1. TypeOK' /\ Control'
  BY NextTyped DEF IInv
<1>2. NotFormatted' /\ FormatProgress'
  BY DEF IInv, NotFormatted, FormatProgress
<1>3. ASSUME NEW vc \in VersionWords, Safe(vc)
      PROVE  Safe(vc)'
  <2>1. Next1' = Next1 /\ Goal' = Goal /\ Repairing' = Repairing /\ Open' = Open
        /\ InDoubt' = InDoubt
    BY DEF Next1, Goal, Request, Span, Repairing, Open, InDoubt
  <2>2. \A s \in Slots : Tuples(s)' = Tuples(s)
    BY DEF Tuples
  <2>3. CurrentSound(vc)'
    BY <1>3 DEF Safe, CurrentSound, Holds
  <2>4. OthersOlder(vc)'
    BY <1>3, <2>1, <2>2 DEF Safe, OthersOlder
  <2>5. DoubtSound(vc)'
    BY <1>3, <2>1 DEF Safe, DoubtSound, Tuples
  <2>6. RoomForVersion(vc)'
    BY <1>3, <2>1 DEF Safe, RoomForVersion, Tuples
  <2>7. ScanProgress(vc)'
    BY <1>3 DEF Safe, ScanProgress
  <2>8. RepairProgress(vc)'
    BY <1>3, <2>1 DEF Safe, RepairProgress
  <2>9. DataSettled' /\ TxnProgress'
    BY <1>3, <2>1 DEF Safe, DataSettled, TxnProgress
  <2>10. TxnSlot'
    <3>1. \A u \in Units : WrittenSoFar(u)' = WrittenSoFar(u)
      BY DEF WrittenSoFar, Span
    <3>2. Span(call)' = Span(call)
      BY DEF Span
    <3>3. MetaErased(Next1)' = MetaErased(Next1)
      BY <2>1 DEF MetaErased
    <3> QED BY <1>3, <2>1, <3>1, <3>2, <3>3 DEF Safe, TxnSlot
  <2>11. UpdateProgress(vc)'
    BY <1>3, <2>1 DEF Safe, UpdateProgress
  <2> QED BY <2>3, <2>4, <2>5, <2>6, <2>7, <2>8, <2>9, <2>10, <2>11 DEF Safe
<1> QED BY <1>1, <1>2, <1>3 DEF IInv

(* The invariant is inductive on sound flash.                              *)
LEMMA NextIInv ==
  ASSUME SoundFlash, IInv, [Next]_vars
  PROVE  IInv'
<1>1. CASE Next
  <2>1. TypeOK /\ Control /\ NotFormatted /\ FormatProgress
    BY DEF IInv
  <2>2. TypeOK' /\ Control' /\ NotFormatted' /\ FormatProgress'
    BY <1>1, <2>1, NextTyped, NeverWrittenStep, FormatStep
  <2>3. ASSUME formatted' = "done" PROVE \E vc \in VersionWords : Safe(vc)'
    <3>1. CASE formatted = "done"
      BY <1>1, <2>1, <2>3, <3>1, SafeStep DEF IInv
    <3>2. CASE formatted # "done"
      BY <1>1, <2>1, <2>3, <3>2, BecomesFormatted, FormatDoneSafe, VersionAssumption
    <3> QED BY <3>1, <3>2
  <2> QED BY <2>2, <2>3 DEF IInv
<1>2. CASE UNCHANGED vars
  BY <1>2, StutterIInv
<1> QED BY <1>1, <1>2

(* IInv says all that AntiTearing does.                                    *)
LEMMA IInvAntiTearing ==
  ASSUME IInv
  PROVE  AntiTearing
<1> SUFFICES ASSUME formatted = "done" PROVE AntiTearing
  BY DEF AntiTearing
<1>1. PICK vc \in VersionWords : Safe(vc)
  BY DEF IInv
<1>2. TypeOK /\ Holds(cur, value, vc) /\ OthersOlder(vc)
  BY <1>1 DEF IInv, Safe, CurrentSound
<1>3. vc \in nvm[cur].version
  BY <1>2 DEF Holds, Sound
<1>4. \A s \in Slots \ {cur} : \A x \in nvm[s].sum \ {Blank, Garbage} :
        \/ x[2] < vc
        \/ s = NextSlot(cur) /\ x[2] = vc + 1 /\ x[1] \in InDoubt
  BY <1>2, SumsAre DEF OthersOlder, Next1
<1> QED BY <1>2, <1>3, <1>4 DEF AntiTearing

(* The invariant holds in every reachable state on sound flash.            *)
THEOREM Inductive == ASSUME SoundFlash PROVE Spec => []IInv
<1>1. Init => IInv
  BY InitIInv
<1>2. IInv /\ [Next]_vars => IInv'
  BY NextIInv
<1> QED BY <1>1, <1>2, PTL DEF Spec

(* Anti-tearing (development.rst, "Main assumption"; the guarantee of      *)
(* lftl_basic_write and lftl_transaction_commit): on sound flash, whatever *)
(* the size of the ring and of the data, after any number of resets and    *)
(* driver errors a search can only elect the committed data or the whole   *)
(* update left in doubt.                                                   *)
THEOREM AntiTearingHolds == ASSUME SoundFlash PROVE Spec => []AntiTearing
<1>1. Spec => []IInv
  BY Inductive
<1>2. IInv => AntiTearing
  BY IInvAntiTearing
<1> QED BY <1>1, <1>2, PTL

-----------------------------------------------------------------------------
(* The area implements the all-or-nothing store.                           *)

(* The calls of an application, which makes one at a time: no update runs  *)
(* beside a transaction, whose writes are known while it is open, and no   *)
(* transaction read leaves the data.                                       *)
Sequential ==
  /\ tracker = None => txn = None
  /\ call.op = "start" /\ pc = "erase" => txn = None
  /\ call.op \in {"basic_write", "erase_all"} /\ pc \in FlashPcs /\ ~Repairing =>
       tracker = None
  /\ call.op = "transaction_read" => Span(call) \subseteq Units

(* Before the first call.                                                  *)
LEMMA InitSequential == Init => Sequential
BY DEF Init, Sequential, NoCall

(* What a call that ends leaves.                                           *)
LEMMA QuitSequential ==
  ASSUME Quit, tracker' = None => txn' = None
  PROVE  Sequential'
BY QuitTyped DEF Sequential

(* A call begins: a transaction ends, or an operation starts.              *)
LEMMA CallSequential ==
  ASSUME TypeOK, Control, Sequential, Calling
  PROVE  Sequential'
<1>1. CASE Abort
  BY <1>1 DEF Abort, run, Sequential, Control, FlashPcs, MetaPcs
<1>2. ASSUME NEW c, Call(c),
             c.op = "transaction_read" => Span(c) \subseteq Units
      PROVE  Sequential'
  BY <1>2 DEF Call, Sequential, FlashPcs, MetaPcs
<1>3. CASE CallTransactionRead
  <2>1. PICK lo \in Units, n \in 1..NUnits :
          lo + n <= NUnits /\ Call(Args("transaction_read", lo, n, Blank, TRUE))
    BY <1>3 DEF CallTransactionRead
  <2>2. Span(Args("transaction_read", lo, n, Blank, TRUE)) \subseteq Units
    BY <2>1, UnitsAssumption DEF Span, Args
  <2> QED BY <1>2, <2>1, <2>2
<1>4. CASE CallPlain \/ CallRead \/ CallBasicWrite \/ CallTransactionWrite
  <2>1. ASSUME NEW op \in Ops, op # "transaction_read", NEW lo, NEW n, NEW v,
               NEW a, Call(Args(op, lo, n, v, a))
        PROVE  Sequential'
    <3>1. Args(op, lo, n, v, a).op = op
      BY DEF Args
    <3> QED BY <1>2, <2>1, <3>1
  <2> QED BY <1>4, <2>1 DEF CallPlain, Plain, CallRead, CallBasicWrite,
          CallTransactionWrite, Ops, UpdateOps, TransactionOps
<1> QED BY <1>1, <1>3, <1>4 DEF Calling

(* Every step keeps the calls in sequence.                                 *)
LEMMA NextSequential ==
  ASSUME SoundFlash, TypeOK, Control, Sequential, [Next]_vars
  PROVE  Sequential'
<1> USE DEF FlashPcs, MetaPcs
<1>1. CASE Calling
  BY <1>1, CallSequential
<1>2. CASE Refuse
  <2>1. Quit /\ txn' = txn
    BY <1>2 DEF Refuse, Raise, history
  <2>2. tracker' = None <=> tracker = None
    BY <1>2, MarkTyped DEF Refuse
  <2> QED BY <2>1, <2>2, QuitSequential DEF Sequential
<1>3. CASE Read \/ TransactionRead \/ ScanCollides \/ NoValidVersion \/ NvmError
           \/ FormatDone
  BY <1>3, QuitSequential DEF Read, TransactionRead, ScanCollides,
     NoValidVersion, NvmError, FormatDone, Raise, history, Sequential
<1>4. CASE UpdateDone
  <2>1. Quit /\ (tracker' = None => txn' = None)
    BY <1>4 DEF UpdateDone, Sequential
  <2> QED BY <2>1, QuitSequential
<1>5. CASE Reset
  BY <1>5, QuitSequential DEF Reset
<1>6. CASE BeginUpdate
  <2>1. tracker = None /\ ~Repairing /\ pc' = "erase"
        /\ call.op \in {"basic_write", "erase_all"}
    BY <1>6, EnterTyped DEF BeginUpdate, EraseAll, Ops, UpdateOps
  <2> QED BY <1>6, <2>1 DEF BeginUpdate, EraseAll, Sequential, history
<1>7. CASE Start
  <2>1. call.op = "start" /\ tracker = None
    BY <1>7, EnterTyped DEF Start, Ops, TransactionOps
  <2>2. tracker' # None /\ txn' = txn /\ txn = None
    BY <1>7, <2>1, SoundStart, NoneAssumption DEF Sequential, history, Trackers
  <2>3. CASE data # None
    BY <1>7, <2>1, <2>2, <2>3, SoundStart DEF Sequential
  <2>4. CASE data = None
    BY <1>7, <2>2, <2>4, QuitSequential, SoundStart DEF Raise
  <2> QED BY <2>3, <2>4
<1>8. CASE TransactionWrite \/ Commit \/ Format \/ BeginSearch \/ ScanSlot
  <2>1. /\ UNCHANGED <<call, txn>>
        /\ tracker' = None <=> tracker = None
        /\ call.op \in {"basic_write", "erase_all"} => pc' = "scan"
    BY <1>8, MarkTyped DEF TransactionWrite, Commit, Format, BeginSearch, ScanSlot,
       Enter, history
  <2>2. pc' # "erase" \/ call.op = "format"
    BY <1>8 DEF TransactionWrite, Commit, Format, BeginSearch, ScanSlot, Enter
  <2> QED BY <2>1, <2>2 DEF Sequential
<1>9. CASE Resolve
  <2>1. /\ UNCHANGED <<call, tracker, txn>>
        /\ pc' = "enter" \/ (pc' = "version" /\ Repairing')
    BY <1>9 DEF Resolve, Settle, history, Repairing, Control
  <2> QED BY <2>1 DEF Sequential
<1>10. CASE EraseSlot
  <2>1. call.op = "start" => tracker # None
    BY <1>10, NoneAssumption DEF EraseSlot, Control, Trackers
  <2>2. CASE call.op = "start"
    BY <1>10, <2>1, <2>2, QuitSequential DEF EraseSlot
  <2>3. CASE call.op # "start"
    BY <1>10, <2>3 DEF EraseSlot, Sequential, Repairing
  <2> QED BY <2>2, <2>3
<1>11. CASE EraseArea
  BY <1>11 DEF EraseArea, Sequential, history
<1>12. CASE ProgramUnit
  <2>1. tracker' = tracker /\ (txn = None => txn' = None)
    BY <1>12 DEF ProgramUnit
  <2>2. call' = NoCall \/ (call' = call /\ scan' = scan)
    BY <1>12 DEF ProgramUnit
  <2>3. pc' \in {"idle", "seal", "program"} /\ pc = "program"
    BY <1>12 DEF ProgramUnit
  <2> QED BY <2>1, <2>2, <2>3 DEF Sequential, NoCall, Repairing
<1>13. CASE Seal \/ WriteVersion \/ WriteSum
  <2>1. /\ UNCHANGED <<call, tracker, txn, scan>> /\ pc' # "erase"
        /\ pc \in FlashPcs /\ (Repairing => Repairing')
    BY <1>13 DEF Seal, WriteVersion, WriteSum, history, Repairing
  <2> QED BY <2>1 DEF Sequential
<1>14. CASE RepairDone
  BY <1>14 DEF RepairDone, Settle, Sequential
<1>15. CASE UNCHANGED vars
  BY <1>15 DEF vars, run, app, history, Sequential, Repairing, Span
<1> QED BY <1>1, <1>2, <1>3, <1>4, <1>5, <1>6, <1>7, <1>8, <1>9, <1>10, <1>11,
           <1>12, <1>13, <1>14, <1>15 DEF Next, Step

-----------------------------------------------------------------------------
(* Every step is one of the store, or invisible.                           *)

StoreStep == [Store!Next]_(Store!vars)

(* What a call asks for depends on its arguments and the transaction.      *)
LEMMA AskedSame ==
  ASSUME UNCHANGED <<call, txn>>
  PROVE  Asked' = Asked
BY DEF Asked, Request, Span

(* A call that is over, and an application that makes none, ask nothing.   *)
LEMMA AskedNothing ==
  /\ call.op \notin UpdateOps \cup {"read", "transaction_read"} => Asked = None
  /\ Quit => Asked' = None
<1>1. call.op \notin UpdateOps \cup {"read", "transaction_read"} => Asked = None
  BY DEF Asked
<1>2. Quit => Asked' = None
  BY QuitTyped DEF Asked, UpdateOps
<1> QED BY <1>1, <1>2

(* An update asks for the change its call describes.                       *)
LEMMA AskedUpdate ==
  ASSUME TypeOK, call.op \in UpdateOps
  PROVE  /\ Asked = [kind |-> "update", writes |-> Request]
         /\ Asked # None
         /\ Request \in Partial
         /\ Store!Asked("update") /\ Store!Goal = Goal
<1>1. Request \in Partial
  BY RequestTyped, SpanTyped DEF Ops
<1>2. Asked = [kind |-> "update", writes |-> Request]
  BY DEF Asked
<1>3. Asked # None
  BY <1>1, <1>2, RequestsAssumption
<1> QED BY <1>1, <1>2, <1>3
        DEF Store!Asked, Store!Goal, Goal, Store!Overlay, Overlay

(* The store sees nothing of a step that keeps the call and the history.   *)
LEMMA HiddenStep ==
  ASSUME UNCHANGED <<call, history>>
  PROVE  StoreStep
<1>1. Asked' = Asked
  BY AskedSame DEF history
<1> QED BY <1>1 DEF StoreStep, Store!vars, history

(* A call that ends without a result.                                      *)
LEMMA FailedStep ==
  ASSUME TypeOK, Quit, UNCHANGED <<value, txn, out>>,
         pending' = pending \/ (call.op \in UpdateOps /\ pending' = Goal)
  PROVE  StoreStep
<1>1. Asked' = None
  BY AskedNothing
<1>2. Store!InDoubt
  BY AskedUpdate DEF Store!InDoubt
<1>3. CASE Asked = None
  <2>1. pending' = pending
    BY <1>3, AskedUpdate
  <2> QED BY <1>1, <1>3, <2>1 DEF StoreStep, Store!vars
<1>4. CASE Asked # None
  BY <1>1, <1>2, <1>4 DEF StoreStep, Store!Next, Store!Fail
<1> QED BY <1>3, <1>4

(* The next request is well formed too.                                    *)
LEMMA RequestNext == (TypeOK /\ call \in Calls => Request \in Partial)'
<1>1. TypeOK /\ call \in Calls => Request \in Partial
  BY RequestTyped
<1> QED BY <1>1, PTL

(* A new call.                                                             *)
LEMMA CallingStep ==
  ASSUME TypeOK, Control, Calling, TypeOK'
  PROVE  StoreStep
<1>1. pc = "idle" /\ call.op = "none"
  <2>1. pc = "idle"
    BY CallingIsCall DEF Call, Abort
  <2> QED BY <2>1 DEF Control
<1>2. Asked = None
  BY <1>1, AskedNothing DEF UpdateOps
<1>3. CASE Abort
  <2>1. UNCHANGED <<call, value, pending, out>> /\ txn' = None
    BY <1>3 DEF Abort, run
  <2>2. Asked' = None
    BY <1>1, <2>1 DEF Asked, UpdateOps
  <2> QED BY <1>2, <2>1, <2>2 DEF StoreStep, Store!Next, Store!Abort
<1>4. ASSUME NEW c \in Calls, Call(c)
      PROVE  StoreStep
  <2>1. out' = None /\ UNCHANGED <<value, pending, txn>> /\ call' = c
    BY <1>4 DEF Call
  <2>2. CASE Asked' = None
    BY <1>2, <2>1, <2>2 DEF StoreStep, Store!Next, Store!Forget
  <2>3. CASE Asked' # None
    <3>1. Store!IsRequest(Asked')
      <4>1. CASE call'.op \in UpdateOps
        <5>1. Asked' = [kind |-> "update", writes |-> Request']
          BY <4>1 DEF Asked
        <5>2. Request' \in Partial
          BY <4>1, <2>1, <1>4, RequestNext
        <5>3. Store!IsUpdate(Request')
          BY <5>2, NoneAssumption DEF Store!IsUpdate, Partial
        <5> QED BY <2>3, <5>1, <5>3 DEF Store!IsRequest
      <4>2. CASE call'.op \notin UpdateOps
        BY <2>3, <4>2 DEF Asked, Store!IsRequest
      <4> QED BY <4>1, <4>2
    <3> QED BY <1>2, <2>1, <3>1 DEF StoreStep, Store!Next, Store!Request
  <2> QED BY <2>2, <2>3
<1> QED BY <1>3, <1>4, CallingIsCall

(* The steps that need the invariant.                                      *)
LEMMA FormattedIn ==
  ASSUME IInv, call.op \notin {"none", "format"}, data # None
  PROVE  formatted = "done" /\ \E vc \in VersionWords : Safe(vc)
<1>1. formatted = "done"
  BY DEF IInv, Control, NotFormatted, TypeOK
<1> QED BY <1>1 DEF IInv

(* A read returns the committed data.                                      *)
LEMMA CurrentRead ==
  ASSUME IInv, NEW vc \in VersionWords, Safe(vc), pc = "enter", data # None,
         NEW d \in DataReadings(nvm[data])
  PROVE  d = value
<1>1. TypeOK /\ ~Repairing
  BY DEF IInv, Control, MetaPcs
<1>2. data = cur
  BY <1>1 DEF Safe, DataSettled
<1>3. \A u \in Units : d[u] = value[u]
  BY <1>2 DEF Safe, CurrentSound, Holds, Sound, DataReadings
<1>4. d \in Content /\ value \in Content
  BY <1>1 DEF TypeOK, DataReadings
<1> QED BY <1>3, <1>4, SameContent

(* lftl_read returns what the store holds.                                 *)
LEMMA ReadStep ==
  ASSUME IInv, Read
  PROVE  StoreStep
<1>1. TypeOK /\ Control
  BY DEF IInv
<1>2. /\ pc = "enter" /\ call.op = "read" /\ data # None
      /\ Span(call) \subseteq Units
  BY <1>1, EnterTyped DEF Read, Ops, Searches, Resolves, Addressed
<1>3. PICK vc \in VersionWords : Safe(vc)
  BY <1>2, FormattedIn
<1>4. /\ out' = [u \in Span(call) |-> value[u]]
      /\ Quit /\ UNCHANGED <<value, pending, txn>>
  BY <1>2, <1>3, CurrentRead DEF Read
<1>5. Asked = [kind |-> "read", units |-> Span(call)]
  BY <1>2 DEF Asked, UpdateOps
<1>6. Asked # None
  BY <1>2, <1>5, RequestsAssumption
<1>7. Asked' = None
  BY <1>4, AskedNothing
<1> QED BY <1>4, <1>5, <1>6, <1>7
        DEF StoreStep, Store!Next, Store!Read, Store!Asked

(* So does a read in a transaction, but for what the transaction wrote.    *)
LEMMA TransactionReadStep ==
  ASSUME SoundFlash, IInv, Sequential, TransactionRead
  PROVE  StoreStep
<1>1. TypeOK /\ Control
  BY DEF IInv
<1>2. /\ pc = "enter" /\ call.op = "transaction_read"
      /\ tracker # None /\ data # None
  BY <1>1, EnterTyped DEF TransactionRead, Ops, TransactionOps, SoundFlash
<1>3. PICK vc \in VersionWords : Safe(vc)
  BY <1>2, FormattedIn
<1>4. data = cur
  BY <1>1, <1>2, <1>3 DEF Safe, DataSettled, Control, MetaPcs
<1>5. /\ txn \in Partial /\ tracker = DOMAIN txn
      /\ \A u \in Units : Sound(nvm[Next1].data[u], WrittenSoFar(u))
  <2>1. Open
    BY <1>2, <1>3 DEF Open, Safe, TxnProgress, TransactionOps
  <2> QED BY <1>2, <1>3, <2>1 DEF Safe, TxnSlot, MetaPcs
<1>6. PICK d \in DataReadings(nvm[data]), e \in DataReadings(nvm[Next1]) :
        out' = [u \in Span(call) |-> IF u \in tracker THEN e[u] ELSE d[u]]
  BY <1>2, <1>4 DEF TransactionRead, Next1
<1>7. d = value /\ Span(call) \subseteq Units
  BY <1>2, <1>3, CurrentRead DEF Sequential
<1>8. \A u \in Units : u \in tracker => e[u] = txn[u]
  BY <1>5 DEF DataReadings, Sound, WrittenSoFar
<1>9. out' = [u \in Span(call) |-> Overlay(value, txn)[u]]
  <2>1. \A u \in Span(call) :
          Overlay(value, txn)[u] = IF u \in tracker THEN e[u] ELSE d[u]
    BY <1>5, <1>7, <1>8 DEF Overlay
  <2> QED BY <1>6, <2>1
<1>10. Quit /\ UNCHANGED <<value, pending, txn>>
  BY DEF TransactionRead
<1>11. Asked = [kind |-> "read_newer", units |-> Span(call)]
  BY <1>2, <1>7 DEF Asked, UpdateOps
<1>12. Asked # None /\ txn # None
  BY <1>5, <1>7, <1>11, RequestsAssumption, NoneAssumption
<1>13. Asked' = None
  BY <1>10, AskedNothing
<1>14. Store!Overlay(value, txn) = Overlay(value, txn)
  BY DEF Store!Overlay, Overlay
<1> QED BY <1>9, <1>10, <1>11, <1>12, <1>13, <1>14
        DEF StoreStep, Store!Next, Store!ReadNewer, Store!Asked

(* A transaction write that returns has added its units to the transaction. *)
LEMMA ProgramUnitStep ==
  ASSUME IInv, ProgramUnit, TypeOK'
  PROVE  StoreStep
<1>1. TypeOK /\ Control /\ pc = "program" /\ UNCHANGED <<value, pending, out>>
  BY DEF IInv, ProgramUnit
<1>2. CASE UNCHANGED <<call, txn>>
  BY <1>1, <1>2, AskedSame DEF StoreStep, Store!vars
<1>3. CASE ~UNCHANGED <<call, txn>>
  <2>1. /\ call.op = "transaction_write" /\ call' = NoCall
        /\ txn' = IF txn = None THEN None
                  ELSE [u \in Span(call) \cup DOMAIN txn |->
                          IF u \in Span(call) THEN call.val ELSE txn[u]]
    BY <1>3 DEF ProgramUnit
  <2>2. data # None
    BY <1>1, <2>1 DEF Control, FlashPcs
  <2>3. PICK vc \in VersionWords : Safe(vc)
    BY <2>1, <2>2, FormattedIn
  <2>4. Open
    BY <1>1, <2>1, <2>3 DEF Open, Safe, TxnProgress, TransactionOps, FlashPcs
  <2>5. txn \in Partial /\ Span(call) \cap DOMAIN txn = {}
    BY <1>1, <2>1, <2>3, <2>4 DEF Safe, TxnSlot
  <2>6. txn # None
    BY <2>5, NoneAssumption
  <2>7. txn' = [u \in Span(call) \cup DOMAIN txn |->
                  IF u \in Span(call) THEN call.val ELSE txn[u]]
    BY <2>1, <2>6
  <2>8. DOMAIN txn \subseteq DOMAIN txn' /\ \A u \in DOMAIN txn : txn'[u] = txn[u]
    BY <2>5, <2>7
  <2>9. Store!IsUpdate(txn')
    <3>1. /\ Span(call) \subseteq Units /\ DOMAIN txn \subseteq Units
          /\ call.val \in Data /\ \A u \in DOMAIN txn : txn[u] \in Data
      BY <1>1, <2>1, <2>5, SpanTyped DEF Control, Partial, Ops, TransactionOps, Calls, Data
    <3>2. txn' \in [Span(call) \cup DOMAIN txn -> Data]
      BY <2>7, <3>1
    <3>3. txn' \in Partial
      BY <3>1, <3>2 DEF Partial
    <3> QED BY <3>3, NoneAssumption DEF Store!IsUpdate, Partial
  <2>10. Asked = None /\ Asked' = None
    BY <2>1 DEF Asked, UpdateOps, NoCall
  <2> QED BY <1>1, <2>6, <2>8, <2>9, <2>10 DEF StoreStep, Store!Next, Store!Write
<1> QED BY <1>2, <1>3

(* A search that settles resolves what was in doubt, or changes nothing.   *)
LEMMA SettleStep ==
  ASSUME NEW s, Settle(s), call' = call
  PROVE  StoreStep
<1>1. UNCHANGED <<txn, out>> /\ Asked' = Asked
  BY AskedSame DEF Settle
<1>2. CASE s # cur /\ pending # None
  BY <1>1, <1>2 DEF Settle, StoreStep, Store!Next, Store!Resolve
<1>3. CASE ~(s # cur /\ pending # None)
  BY <1>1, <1>3 DEF Settle, StoreStep, Store!vars
<1> QED BY <1>2, <1>3

(* Erasing the next slot discards the update in doubt.                     *)
LEMMA EraseSlotStep ==
  ASSUME TypeOK, Control, Sequential, EraseSlot
  PROVE  StoreStep
<1>1. pending' = None /\ UNCHANGED <<value, out>> /\ pc = "erase"
  BY DEF EraseSlot
<1>2. CASE call.op = "start"
  <2>1. Quit /\ txn' = [u \in {} |-> Blank] /\ txn = None
    BY <1>1, <1>2 DEF EraseSlot, Sequential
  <2>2. Asked = None /\ Asked' = None
    BY <1>2, <2>1, AskedNothing DEF UpdateOps
  <2> QED BY <1>1, <2>1, <2>2 DEF StoreStep, Store!Next, Store!Start
<1>3. CASE call.op # "start"
  <2>1. UNCHANGED <<call, txn>>
    BY <1>3 DEF EraseSlot
  <2> QED BY <1>1, <2>1, AskedSame DEF StoreStep, Store!Next, Store!Discard
<1> QED BY <1>2, <1>3

(* An update that returns has taken effect, as a whole.                    *)
LEMMA UpdateDoneStep ==
  ASSUME TypeOK, Control, Sequential, UpdateDone
  PROVE  StoreStep
<1>1. /\ call.op \in UpdateOps /\ pc = "sum2" /\ ~Repairing
      /\ Quit /\ value' = Goal /\ pending' = None /\ out' = out
      /\ txn' = IF call.op = "commit" THEN None ELSE txn
  BY DEF UpdateDone, ProgramSum2
<1>2. txn' = None
  BY <1>1 DEF Sequential, UpdateOps, FlashPcs, MetaPcs
<1>3. Asked' = None
  BY <1>1, AskedNothing
<1> QED BY <1>1, <1>2, <1>3, AskedUpdate DEF StoreStep, Store!Next, Store!Apply

(* A format that returns leaves blank data.                                *)
LEMMA FormatDoneStep ==
  ASSUME FormatDone
  PROVE  StoreStep
<1>1. /\ call.op = "format" /\ Quit
      /\ value' = BlankContent /\ pending' = None /\ UNCHANGED out
      /\ txn' = IF txn = None THEN None ELSE [u \in DOMAIN txn |-> Blank]
  BY DEF FormatDone
<1>2. Asked = None /\ Asked' = None
  BY <1>1, AskedNothing DEF UpdateOps
<1> QED BY <1>1, <1>2 DEF StoreStep, Store!Next, Store!Format, BlankContent

(* A reset, or an error of the driver, leaves the update in doubt.         *)
LEMMA InterruptionStep ==
  ASSUME TypeOK, Reset \/ NvmError
  PROVE  StoreStep
<1>1. /\ Quit /\ value' = value
      /\ pending' = pending \/ (call.op \in UpdateOps /\ pending' = Goal)
  BY DEF Reset, NvmError, Raise, Interrupted
<1>2. CASE Reset
  <2>1. txn' = None /\ out' = None /\ Asked' = None
    BY <1>1, <1>2, AskedNothing DEF Reset
  <2>2. Store!InDoubt
    BY <1>1, AskedUpdate DEF Store!InDoubt
  <2> QED BY <1>1, <2>1, <2>2 DEF StoreStep, Store!Next, Store!Crash
<1>3. CASE NvmError
  <2>1. UNCHANGED <<txn, out>>
    BY <1>3 DEF NvmError
  <2> QED BY <1>1, <2>1, FailedStep
<1> QED BY <1>2, <1>3

(* Every step of the area.                                                 *)
LEMMA StepIsStoreStep ==
  ASSUME SoundFlash, IInv, Sequential, [Next]_vars, TypeOK'
  PROVE  StoreStep
<1>1. TypeOK /\ Control
  BY DEF IInv
<1>2. CASE Calling
  BY <1>1, <1>2, CallingStep
<1>3. CASE Refuse \/ ScanCollides \/ NoValidVersion
  <2>1. Quit /\ UNCHANGED <<value, pending, txn, out>>
    BY <1>3 DEF Refuse, ScanCollides, NoValidVersion, Raise, history
  <2> QED BY <1>1, <2>1, FailedStep
<1>4. CASE Start
  <2>1. CASE data # None
    BY <1>4, <2>1, HiddenStep, SoundStart DEF history
  <2>2. CASE data = None
    <3>1. Quit /\ UNCHANGED <<value, pending, txn, out>>
      BY <1>4, <2>2, SoundStart DEF Raise, history
    <3> QED BY <1>1, <3>1, FailedStep
  <2> QED BY <2>1, <2>2
<1>5. CASE BeginUpdate \/ TransactionWrite \/ Commit \/ Format \/ BeginSearch
           \/ ScanSlot \/ EraseArea \/ Seal \/ WriteVersion \/ WriteSum
  BY <1>5, HiddenStep DEF BeginUpdate, EraseAll, TransactionWrite, Commit, Format,
     BeginSearch, ScanSlot, EraseArea, Seal, WriteVersion, WriteSum
<1>6. CASE Read
  BY <1>6, ReadStep
<1>7. CASE TransactionRead
  BY <1>7, TransactionReadStep
<1>8. CASE Resolve
  <2>1. call' = call /\ (UNCHANGED history \/ Settle(scan.best.slot))
    BY <1>8 DEF Resolve
  <2> QED BY <2>1, HiddenStep, SettleStep
<1>9. CASE RepairDone
  BY <1>9, SettleStep DEF RepairDone
<1>10. CASE EraseSlot
  BY <1>1, <1>10, EraseSlotStep
<1>11. CASE ProgramUnit
  BY <1>11, ProgramUnitStep
<1>12. CASE UpdateDone
  BY <1>1, <1>12, UpdateDoneStep
<1>13. CASE FormatDone
  BY <1>13, FormatDoneStep
<1>14. CASE Reset \/ NvmError
  BY <1>1, <1>14, InterruptionStep
<1>15. CASE UNCHANGED vars
  BY <1>15, HiddenStep DEF vars, run
<1> QED BY <1>2, <1>3, <1>4, <1>5, <1>6, <1>7, <1>8, <1>9, <1>10, <1>11, <1>12,
           <1>13, <1>14, <1>15 DEF Next, Step

(* lean-ftl keeps its promise, "anti tearing" (README.md:6): on sound flash *)
(* whatever the size of the ring and of the data, after any resets and     *)
(* driver errors, an area behaves as one piece of data that changes only   *)
(* as a whole: reads return what was committed, or in a transaction its    *)
(* own writes, and what was read is never rolled back.                     *)
THEOREM AreaImplementsStore == ASSUME SoundFlash PROVE Spec => StoreSpec
<1>1. Init => Store!Init
  BY AskedNothing DEF Init, Store!Init, NoCall, BlankContent, UpdateOps
<1>2. Init => Sequential
  BY InitSequential
<1>3. IInv /\ Sequential /\ [Next]_vars => Sequential'
  BY NextSequential DEF IInv
<1>4. IInv /\ IInv' /\ Sequential /\ [Next]_vars => [Store!Next]_(Store!vars)
  BY StepIsStoreStep DEF IInv, StoreStep
<1>5. Spec => []IInv
  BY Inductive
<1> QED BY <1>1, <1>2, <1>3, <1>4, <1>5, PTL DEF Spec, StoreSpec, Store!Spec

-----------------------------------------------------------------------------
(* No cell is programmed twice.                                            *)

(* A slot with nothing programmed twice, whose checksum2 is erased unless  *)
(* it may be read as the checksum: then a repair can program it again.     *)
Proper(r) ==
  /\ \A u \in Units : r.data[u] # {Garbage}
  /\ r.sum # {Garbage} /\ r.sum2 # {Garbage}
  /\ r.sum2 = {Blank} \/ r.sum \cap Sums \subseteq r.sum2

AllProper == \A s \in Slots : Proper(nvm[s])

(* Erased slots are proper.                                                *)
LEMMA ErasedProper == Proper(ErasedSlot)
<1>1. /\ \A u \in Units : ErasedSlot.data[u] = {Blank}
      /\ ErasedSlot.sum = {Blank} /\ ErasedSlot.sum2 = {Blank}
  BY DEF ErasedSlot
<1> QED BY <1>1, ValueAssumption DEF Proper

(* So are cut erasures of proper slots.                                    *)
LEMMA HalfErasedProper ==
  ASSUME ~WeakErase, NEW r, Proper(r), NEW first, NEW last
  PROVE  Proper(HalfErasedSlot(r, first, last))
<1> DEFINE h == HalfErasedSlot(r, first, last)
<1>1. \A u \in Units : h.data[u] \in {{Blank}, r.data[u], {Blank, Garbage}}
  BY HalfErasedFields DEF HalfErased
<1>2. CASE last # NUnits
  <2>1. h.sum = r.sum /\ h.sum2 = r.sum2
    BY <1>2, HalfErasedFields
  <2> QED BY <1>1, <2>1, ValueAssumption DEF Proper
<1>3. CASE last = NUnits
  <2>1. /\ h.sum \in {{Blank}, {Blank, Garbage}}
        /\ h.sum2 \in {{Blank}, {Blank, Garbage}}
    BY <1>3 DEF HalfErasedSlot, HalfErased
  <2>2. h.sum \cap Sums = {}
    BY <2>1, ValueAssumption
  <2> QED BY <1>1, <2>1, <2>2, ValueAssumption DEF Proper
<1> QED BY <1>2, <1>3

(* What one cell may become.                                               *)
LEMMA CellProper ==
  ASSUME TypeOK, AllProper, NEW s \in Slots, NEW c, c # {Garbage},
         \/ \E u \in Units : nvm' = [nvm EXCEPT ![s].data[u] = c]
         \/ /\ nvm' = [nvm EXCEPT ![s].sum = c]
            /\ nvm[s].sum2 = {Blank} \/ c \cap Sums \subseteq nvm[s].sum2
         \/ /\ nvm' = [nvm EXCEPT ![s].sum2 = c]
            /\ nvm[s].sum \cap Sums \subseteq c
  PROVE  AllProper'
<1> HIDE DEF Slots, Units
<1>1. CASE \E u \in Units : nvm' = [nvm EXCEPT ![s].data[u] = c]
  <2>1. PICK u \in Units : nvm' = [nvm EXCEPT ![s].data[u] = c]
    BY <1>1
  <2> QED BY <2>1, DataWrite DEF AllProper, Proper
<1>2. CASE /\ nvm' = [nvm EXCEPT ![s].sum = c]
           /\ nvm[s].sum2 = {Blank} \/ c \cap Sums \subseteq nvm[s].sum2
  BY <1>2, MetaWrite DEF AllProper, Proper
<1>3. CASE /\ nvm' = [nvm EXCEPT ![s].sum2 = c]
           /\ nvm[s].sum \cap Sums \subseteq c
  BY <1>3, MetaWrite DEF AllProper, Proper
<1> QED BY <1>1, <1>2, <1>3

(* Nothing is said of versions.                                            *)
LEMMA VersionProper ==
  ASSUME TypeOK, AllProper, NEW s \in Slots, NEW c,
         nvm' = [nvm EXCEPT ![s].version = c]
  PROVE  AllProper'
BY MetaWrite DEF AllProper, Proper

(* Flash operations outside a format take place in a formatted area.       *)
LEMMA OperatedSafe ==
  ASSUME IInv, pc \in FlashPcs, call.op # "format"
  PROVE  \E vc \in VersionWords : Safe(vc)
<1>1. formatted = "done"
  BY DEF IInv, Control, NotFormatted, TypeOK, FlashPcs, MetaPcs
<1> QED BY <1>1 DEF IInv

(* The unit to be programmed is erased.                                    *)
LEMMA UnitFacts ==
  ASSUME IInv, pc = "program", NEW u \in todo, NEW x \in Source(u)
  PROVE  /\ Dst \in Slots /\ u \in Units /\ x # Garbage
         /\ nvm[Dst].data[u] = {Blank}
<1>1. TypeOK /\ Control /\ pc \in FlashPcs /\ u \in Units
  BY DEF IInv, TypeOK, FlashPcs
<1>2. /\ call.op \in {"basic_write", "transaction_write", "commit"}
      /\ ~Repairing /\ call.op # "format"
  BY <1>1 DEF Control, MetaPcs
<1>3. PICK vc \in VersionWords : Safe(vc)
  BY <1>1, <1>2, OperatedSafe
<1>4. data = cur /\ Dst = Next1 /\ Next1 \in Slots
  BY <1>1, <1>2, <1>3, WritesNext, CurFacts
<1>5. Sound(nvm[Next1].data[u], Blank)
  <2>1. CASE call.op = "transaction_write"
    <3>1. tracker # None /\ ~spoiled
      BY <1>1, <1>3, <2>1 DEF Safe, TxnProgress, TransactionOps
    <3>2. Open
      BY <3>1, <2>1 DEF Open
    <3>3. /\ Span(call) \cap DOMAIN txn = {} /\ todo \subseteq Span(call)
          /\ Sound(nvm[Next1].data[u], WrittenSoFar(u))
      BY <1>1, <1>3, <2>1, <3>2 DEF Safe, TxnSlot
    <3> QED BY <3>3 DEF WrittenSoFar
  <2>2. CASE call.op \in UpdateOps
    BY <1>1, <1>2, <1>3, <2>2 DEF Safe, UpdateProgress
  <2> QED BY <1>2, <2>1, <2>2 DEF UpdateOps
<1>6. x # Garbage
  <2>1. CASE x = call.val
    <3>1. call.val \in Val \cup {Blank}
      BY <1>1 DEF TypeOK, Calls, NoCall
    <3> QED BY <2>1, <3>1, ValueAssumption
  <2>2. CASE x \in nvm[cur].data[u]
    <3>1. x = value[u] /\ value[u] \in Clean
      BY <1>1, <1>3, <2>2 DEF Safe, CurrentSound, Holds, Sound
    <3> QED BY <3>1, ValueAssumption DEF Clean
  <2> QED BY <1>4, <2>1, <2>2 DEF Source
<1> QED BY <1>1, <1>4, <1>5, <1>6 DEF Sound

(* A checksum that is written is already there, or its cell is erased.     *)
LEMMA SumFacts ==
  ASSUME SoundFlash, IInv, pc \in MetaPcs
  PROVE  /\ Dst \in Slots /\ meta.sum \in Sums
         /\ meta.sum # Blank /\ meta.sum # Garbage
         /\ pc = "sum" => \/ nvm[Dst].sum = {Blank} /\ nvm[Dst].sum2 = {Blank}
                          \/ meta.sum \in nvm[Dst].sum
         /\ pc = "sum2" => nvm[Dst].sum = {meta.sum}
<1>1. TypeOK /\ Control /\ FormatProgress /\ pc \in FlashPcs /\ pc # "seal"
  BY DEF IInv, FlashPcs, MetaPcs
<1> SUFFICES /\ Dst \in Slots /\ meta.sum \in Sums
             /\ pc = "sum" => \/ nvm[Dst].sum = {Blank} /\ nvm[Dst].sum2 = {Blank}
                              \/ meta.sum \in nvm[Dst].sum
             /\ pc = "sum2" => nvm[Dst].sum = {meta.sum}
  BY ValueAssumption
<1>2. CASE call.op = "format"
  <2>1. ~Repairing /\ Dst = 0 /\ 0 \in Slots
    BY <1>1, <1>2, SlotsAssumption DEF Control, Dst, Searches, Resolves, Repairing
  <2>2. PICK z \in Slots : z = 0
    BY <2>1
  <2>3. /\ meta = [version |-> 1, sum |-> <<BlankContent, 1>>]
        /\ Sound(nvm[z].sum, IF pc = "sum2" THEN <<BlankContent, 1>> ELSE Blank)
        /\ Sound(nvm[z].sum2, Blank)
    BY <1>1, <1>2, <2>2 DEF FormatProgress
  <2>4. <<BlankContent, 1>> \in Sums
    BY <1>1, <2>2, BlankTypes, VersionAssumption DEF Sums
  <2> QED BY <2>1, <2>2, <2>3, <2>4 DEF Sound
<1>3. CASE call.op # "format"
  <2>1. PICK vc \in VersionWords : Safe(vc)
    BY <1>1, <1>3, OperatedSafe
  <2>2. CASE ~Repairing
    <3>1. /\ Goal \in Content /\ vc + 1 \in VersionWords
          /\ Dst = Next1 /\ Next1 \in Slots
          /\ Sound(nvm[Next1].sum, IF pc = "sum2" THEN <<Goal, vc + 1>> ELSE Blank)
          /\ Sound(nvm[Next1].sum2, Blank)
          /\ meta = [version |-> vc + 1, sum |-> <<Goal, vc + 1>>]
      <4>1. pc # "erase" /\ call.op \in UpdateOps
        BY <1>1, <1>3, <2>1, <2>2, UpdateFacts DEF MetaPcs
      <4>2. meta = [version |-> vc + 1, sum |-> <<Goal, vc + 1>>]
        BY <1>1, <2>1, <2>2, <4>1 DEF Safe, UpdateProgress
      <4> QED BY <1>1, <1>3, <2>1, <2>2, <4>2, UpdateFacts
    <3>2. <<Goal, vc + 1>> \in Sums
      BY <3>1 DEF Sums
    <3> QED BY <3>1, <3>2 DEF Sound
  <2>3. CASE Repairing
    <3>1. Dst = data /\ data \in Slots
      BY <1>1, <2>1, <2>3, RepairFacts
    <3>2. CASE /\ meta = [version |-> vc, sum |-> <<value, vc>>]
               /\ nvm[data].sum = {<<value, vc>>}
      <4>1. <<value, vc>> \in Sums
        BY <1>1 DEF Sums, TypeOK
      <4> QED BY <3>1, <3>2, <4>1
    <3>3. CASE /\ HoldsPending(data, vc)
               /\ meta = [version |-> vc + 1, sum |-> <<pending, vc + 1>>]
               /\ pc = "sum2" => nvm[data].sum = {<<pending, vc + 1>>}
      <4>1. /\ pending \in Content /\ vc + 1 \in VersionWords
            /\ <<pending, vc + 1>> \in nvm[data].sum
        BY <1>1, <3>1, <3>3, VersionAssumption DEF HoldsPending, TypeOK
      <4>2. <<pending, vc + 1>> \in Sums
        BY <4>1 DEF Sums
      <4> QED BY <3>1, <3>3, <4>1, <4>2
    <3> QED BY <1>1, <2>1, <2>3, <3>2, <3>3, RepairFacts
  <2> QED BY <2>2, <2>3
<1> QED BY <1>2, <1>3

(* A flash operation that succeeds.                                        *)
LEMMA OperationProper ==
  ASSUME SoundFlash, IInv, AllProper,
         EraseSlot \/ EraseArea \/ ProgramUnit \/ WriteVersion \/ WriteSum
           \/ ProgramSum2
  PROVE  AllProper'
<1>1. TypeOK /\ Control
  BY DEF IInv
<1>2. CASE EraseSlot \/ EraseArea
  <2>1. \A s \in Slots : nvm'[s] \in {nvm[s], ErasedSlot}
    BY <1>1, <1>2 DEF EraseSlot, EraseArea, TypeOK
  <2> QED BY <2>1, ErasedProper DEF AllProper
<1>3. CASE ProgramUnit
  <2>1. PICK u \in todo : \E x \in Source(u) :
          nvm' = [nvm EXCEPT ![Dst].data[u] =
                    Programmed(nvm[Dst].data[u], Blank, x, {Garbage})]
    BY <1>3 DEF ProgramUnit
  <2>2. PICK x \in Source(u) :
          nvm' = [nvm EXCEPT ![Dst].data[u] =
                    Programmed(nvm[Dst].data[u], Blank, x, {Garbage})]
    BY <2>1
  <2>3. pc = "program"
    BY <1>3 DEF ProgramUnit
  <2>4. /\ Dst \in Slots /\ u \in Units
        /\ Programmed(nvm[Dst].data[u], Blank, x, {Garbage}) # {Garbage}
    BY <2>3, UnitFacts DEF Programmed
  <2> QED BY <1>1, <2>2, <2>4, CellProper
<1>4. CASE WriteVersion
  <2>1. pc = "version"
    BY <1>4 DEF WriteVersion
  <2>2. Dst \in Slots
    BY <2>1, SumFacts DEF MetaPcs
  <2>3. PICK c : nvm' = [nvm EXCEPT ![Dst].version = c]
    BY <1>4 DEF WriteVersion
  <2> QED BY <1>1, <2>2, <2>3, VersionProper
<1>5. CASE WriteSum
  <2>1. /\ pc = "sum"
        /\ nvm' = [nvm EXCEPT ![Dst].sum =
                     Programmed(nvm[Dst].sum, Blank, meta.sum, {Garbage})]
    BY <1>5 DEF WriteSum
  <2>2. /\ Dst \in Slots /\ meta.sum \in Sums /\ meta.sum # Garbage
        /\ \/ nvm[Dst].sum = {Blank} /\ nvm[Dst].sum2 = {Blank}
           \/ meta.sum \in nvm[Dst].sum
    BY <2>1, SumFacts DEF MetaPcs
  <2>3. Programmed(nvm[Dst].sum, Blank, meta.sum, {Garbage}) = {meta.sum}
    BY <2>2 DEF Programmed
  <2>4. nvm[Dst].sum2 = {Blank} \/ {meta.sum} \cap Sums \subseteq nvm[Dst].sum2
    BY <2>2 DEF AllProper, Proper
  <2> QED BY <1>1, <2>1, <2>2, <2>3, <2>4, CellProper
<1>6. CASE ProgramSum2
  <2>1. /\ pc = "sum2"
        /\ nvm' = [nvm EXCEPT ![Dst].sum2 =
                     Programmed(nvm[Dst].sum2, Blank, meta.sum, {Garbage})]
    BY <1>6 DEF ProgramSum2
  <2>2. /\ Dst \in Slots /\ meta.sum \in Sums /\ meta.sum # Garbage
        /\ nvm[Dst].sum = {meta.sum}
    BY <2>1, SumFacts DEF MetaPcs
  <2>3. nvm[Dst].sum2 = {Blank} \/ meta.sum \in nvm[Dst].sum2
    BY <2>2 DEF AllProper, Proper
  <2>4. Programmed(nvm[Dst].sum2, Blank, meta.sum, {Garbage}) = {meta.sum}
    BY <2>3 DEF Programmed
  <2> QED BY <1>1, <2>1, <2>2, <2>4, CellProper
<1> QED BY <1>2, <1>3, <1>4, <1>5, <1>6

(* One that is cut.                                                        *)
LEMMA CutProper ==
  ASSUME SoundFlash, IInv, AllProper, CutShort
  PROVE  AllProper'
<1>1. TypeOK /\ Control /\ ~WeakErase
  BY DEF IInv, SoundFlash
<1>2. CASE pc = "erase"
  <2>1. \A s \in Slots : \/ nvm'[s] = nvm[s]
                         \/ \E first, last : nvm'[s] = HalfErasedSlot(nvm[s], first, last)
    BY <1>1, <1>2 DEF CutShort, TypeOK
  <2> QED BY <1>1, <2>1, HalfErasedProper DEF AllProper
<1>3. CASE pc = "program"
  <2>1. PICK u \in todo : \E x \in Source(u) :
          nvm' = [nvm EXCEPT ![Dst].data[u] =
                    HalfProgrammed(nvm[Dst].data[u], x, {Garbage})]
    BY <1>3 DEF CutShort
  <2>2. PICK x \in Source(u) :
          nvm' = [nvm EXCEPT ![Dst].data[u] =
                    HalfProgrammed(nvm[Dst].data[u], x, {Garbage})]
    BY <2>1
  <2>3. /\ Dst \in Slots /\ u \in Units
        /\ HalfProgrammed(nvm[Dst].data[u], x, {Garbage}) # {Garbage}
    BY <1>3, UnitFacts DEF HalfProgrammed
  <2> QED BY <1>1, <2>2, <2>3, CellProper
<1>4. CASE pc \in MetaPcs
  <2>1. /\ Dst \in Slots /\ meta.sum \in Sums
        /\ meta.sum # Blank /\ meta.sum # Garbage
    BY <1>4, SumFacts
  <2>2. CASE pc = "version"
    <3>1. PICK c : nvm' = [nvm EXCEPT ![Dst].version = c]
      BY <2>2 DEF CutShort
    <3> QED BY <1>1, <2>1, <3>1, VersionProper
  <2> DEFINE half(cell) == HalfProgrammed(cell, meta.sum, {Garbage})
  <2>3. /\ meta.sum \in half(nvm[Dst].sum) /\ meta.sum \in half(nvm[Dst].sum2)
        /\ half(nvm[Dst].sum) \subseteq nvm[Dst].sum \cup {meta.sum, Garbage}
        /\ nvm[Dst].sum2 \subseteq half(nvm[Dst].sum2)
    BY DEF HalfProgrammed
  <2>4. CASE pc = "sum"
    <3>1. \/ nvm[Dst].sum = {Blank} /\ nvm[Dst].sum2 = {Blank}
          \/ meta.sum \in nvm[Dst].sum
      BY <1>4, <2>4, SumFacts
    <3>2. nvm[Dst].sum2 = {Blank} \/ half(nvm[Dst].sum) \cap Sums \subseteq nvm[Dst].sum2
      BY <2>1, <2>3, <3>1, ValueAssumption DEF AllProper, Proper
    <3>3. nvm' = [nvm EXCEPT ![Dst].sum = half(nvm[Dst].sum)]
      BY <2>4 DEF CutShort
    <3>4. half(nvm[Dst].sum) # {Garbage}
      BY <2>1, <2>3
    <3> HIDE DEF half
    <3> QED BY <1>1, <2>1, <3>2, <3>3, <3>4, CellProper
  <2>5. CASE pc = "sum2"
    <3>1. nvm[Dst].sum = {meta.sum}
      BY <1>4, <2>5, SumFacts
    <3>2. nvm' = [nvm EXCEPT ![Dst].sum2 = half(nvm[Dst].sum2)]
      BY <2>5 DEF CutShort
    <3>3. half(nvm[Dst].sum2) # {Garbage} /\ nvm[Dst].sum \cap Sums \subseteq half(nvm[Dst].sum2)
      BY <2>1, <2>3, <3>1
    <3> HIDE DEF half
    <3> QED BY <1>1, <2>1, <3>2, <3>3, CellProper
  <2> QED BY <1>4, <2>2, <2>4, <2>5 DEF MetaPcs
<1> QED BY <1>2, <1>3, <1>4 DEF CutShort, MetaPcs

(* Every step.                                                             *)
LEMMA NextProper ==
  ASSUME SoundFlash, IInv, AllProper, [Next]_vars
  PROVE  AllProper'
<1>1. CASE nvm' = nvm
  BY <1>1 DEF AllProper
<1>2. CASE EraseSlot \/ EraseArea \/ ProgramUnit \/ WriteVersion \/ WriteSum
           \/ RepairDone \/ UpdateDone \/ FormatDone
  BY <1>2, OperationProper DEF RepairDone, UpdateDone, FormatDone
<1>3. CASE NvmError \/ Reset
  BY <1>1, <1>3, CutProper DEF NvmError, Reset, Interrupted
<1>4. CASE Calling
  BY <1>1, <1>4, CallingIsCall DEF Call, Abort
<1>5. CASE Refuse \/ Read \/ TransactionRead \/ BeginUpdate \/ Start
           \/ TransactionWrite \/ Commit \/ Format \/ BeginSearch \/ ScanSlot
           \/ ScanCollides \/ NoValidVersion \/ Resolve \/ Seal
  BY <1>1, <1>5 DEF Refuse, Read, TransactionRead, BeginUpdate, EraseAll, Start,
     TransactionWrite, Commit, Format, BeginSearch, ScanSlot, ScanCollides,
     NoValidVersion, Resolve, Seal, Raise
<1>6. CASE UNCHANGED vars
  BY <1>1, <1>6 DEF vars
<1> QED BY <1>2, <1>3, <1>4, <1>5, <1>6 DEF Next, Step

(* On sound flash no cell is programmed that was not erased first, unless  *)
(* with what it may hold: whatever was cut before, every program pulse     *)
(* yields what it was asked for, for any size of the ring and of the data. *)
THEOREM ProgrammedOnErased == ASSUME SoundFlash PROVE Spec => []NothingOverprogrammed
<1>1. Init => AllProper
  BY ErasedProper DEF Init, NeverWritten, AllProper
<1>2. IInv /\ AllProper /\ [Next]_vars => AllProper'
  BY NextProper
<1>3. AllProper => NothingOverprogrammed
  BY DEF AllProper, Proper, NothingOverprogrammed, Sound
<1>4. Spec => []IInv
  BY Inductive
<1> QED BY <1>1, <1>2, <1>3, <1>4, PTL DEF Spec

-----------------------------------------------------------------------------
(* The slots are used in turn.                                             *)

(* What a version word that was cut reads as when every search succeeds:   *)
(* not less than the version that was programmed, and no number in use     *)
(* after an erasure.                                                       *)
SoundWords ==
  /\ ErasedVersion = InvalidVersion
  /\ \A v \in VersionWords : /\ \A w \in TornProgramVersion(v) : w >= v
                             /\ \A w \in TornEraseVersion(v) : w > MaxVersion

(* How many updates ago slot s was the current one.                        *)
Behind(s) == IF s <= cur THEN cur - s ELSE cur - s + NSlots

(* The next slot holds nothing but the next version.                       *)
Fresh(vc) ==
  /\ \A x \in Tuples(Next1) : x[2] = vc + 1
  /\ SoundWords => \A w \in nvm[Next1].version : w > vc

(* Each slot holds the version that was current when it was, unless it has *)
(* not been used since the format, or is being used next.                  *)
Ages(vc) ==
  /\ nvm[cur].version = {vc}
  /\ \A s \in Slots \ {cur} :
       \/ vc - Behind(s) >= 1 /\ nvm[s].version = {vc - Behind(s)}
       \/ s # Next1 /\ nvm[s].version = {ErasedVersion} /\ Tuples(s) = {}
       \/ s = Next1 /\ Fresh(vc)

(* So it is in every formatted area.                                       *)
Aged == formatted = "done" => \E vc \in VersionWords : Ages(vc)

(* The next slot is the one that is furthest behind.                       *)
LEMMA BehindFacts ==
  ASSUME TypeOK
  PROVE  /\ \A s \in Slots \ {cur} : Behind(s) \in 1..(NSlots - 1)
         /\ Behind(Next1) = NSlots - 1
         /\ \A s, t \in Slots : Behind(s) = Behind(t) => s = t
BY SlotsAssumption DEF Behind, Next1, NextSlot, TypeOK

(* The current version is the one that the invariant speaks of.            *)
LEMMA CurrentVersion ==
  ASSUME NEW vc, Safe(vc), NEW wc, Ages(wc)
  PROVE  wc = vc
BY DEF Ages, Safe, CurrentSound, Holds, Sound

(* Slots age with every update.                                            *)
LEMMA AgesAdvance ==
  ASSUME TypeOK, NEW vc \in VersionWords, Ages(vc), vc >= 1, vc < MaxVersion,
         nvm[Next1].version = {vc + 1}, cur' = Next1,
         \A s \in Slots : nvm'[s].version = nvm[s].version /\ nvm'[s].sum = nvm[s].sum
  PROVE  Ages(vc + 1)'
<1>1. /\ cur \in Slots /\ Next1 \in Slots /\ Next1 # cur
      /\ \A s \in Slots : Tuples(s)' = Tuples(s)
      /\ vc \in Nat /\ NSlots \in Nat /\ MaxVersion \in Nat
  BY CurFacts, SlotsAssumption, VersionAssumption DEF Tuples
<1>2. /\ \A s \in Slots : s # cur /\ s # Next1 => Behind(s)' = Behind(s) + 1
      /\ \A s \in Slots : s = cur => Behind(s)' = 1
      /\ \A s \in Slots : Behind(s) \in Int
  <2>1. CASE cur + 2 > NSlots
    <3>1. cur = NSlots - 1 /\ cur' = 0 /\ Next1 = 0
      BY <1>1, <2>1 DEF Next1, NextSlot
    <3> QED BY <1>1, <3>1, SlotsAssumption DEF Behind
  <2>2. CASE ~(cur + 2 > NSlots)
    <3>1. cur' = cur + 1 /\ Next1 = cur + 1
      BY <1>1, <2>2 DEF Next1, NextSlot
    <3> QED BY <1>1, <3>1, SlotsAssumption DEF Behind
  <2> QED BY <2>1, <2>2
<1> HIDE DEF Slots
<1>0. PICK wc \in Int : wc = vc + 1
  BY <1>1
<1>3. ASSUME NEW s \in Slots, s # Next1
      PROVE  \/ wc - Behind(s)' >= 1 /\ nvm'[s].version = {wc - Behind(s)'}
             \/ s # Next1' /\ nvm'[s].version = {ErasedVersion} /\ Tuples(s)' = {}
             \/ s = Next1' /\ Fresh(wc)'
  <2>1. nvm'[s].version = nvm[s].version
    BY <1>3
  <2>2. CASE s = cur
    <3>1. wc - Behind(s)' = vc
      BY <1>0, <1>1, <1>2, <2>2
    <3> QED BY <1>0, <1>1, <2>1, <2>2, <3>1 DEF Ages
  <2>3. CASE s # cur /\ vc - Behind(s) >= 1 /\ nvm[s].version = {vc - Behind(s)}
    <3>1. wc - Behind(s)' = vc - Behind(s)
      BY <1>0, <1>1, <1>2, <1>3, <2>3
    <3> QED BY <2>1, <2>3, <3>1
  <2>4. CASE s # cur /\ nvm[s].version = {ErasedVersion} /\ Tuples(s) = {}
    <3>1. SoundWords => ErasedVersion > wc
      BY <1>0, <1>1 DEF SoundWords
    <3>2. s = Next1' => Fresh(wc)'
      BY <1>1, <1>3, <2>1, <2>4, <3>1 DEF Fresh
    <3> QED BY <1>1, <1>3, <2>1, <2>4, <3>2
  <2> QED BY <1>3, <2>2, <2>3, <2>4 DEF Ages
<1>4. nvm'[cur'].version = {wc}
  BY <1>0, <1>1
<1>5. Ages(wc)'
  BY <1>3, <1>4 DEF Ages
<1> QED BY <1>0, <1>5

(* They stay as they are while the current slot is the same and the next   *)
(* one is not used for anything but the next version.                      *)
LEMMA AgesStay ==
  ASSUME TypeOK, NEW vc \in VersionWords, Ages(vc), cur' = cur,
         \A s \in Slots \ {Next1} :
           nvm'[s].version = nvm[s].version /\ nvm'[s].sum = nvm[s].sum,
         \/ Fresh(vc)'
         \/ /\ nvm'[Next1].version = nvm[Next1].version
            /\ nvm'[Next1].sum = nvm[Next1].sum
  PROVE  Ages(vc)'
<1>1. /\ Next1' = Next1 /\ Next1 \in Slots /\ \A s \in Slots : Behind(s)' = Behind(s)
      /\ \A s \in Slots \ {Next1} : Tuples(s)' = Tuples(s)
  BY CurFacts DEF Tuples, Behind, Next1
<1>0. cur # Next1 /\ nvm'[cur].version = {vc}
  BY CurFacts DEF Ages
<1>2. CASE Fresh(vc)'
  BY <1>0, <1>1, <1>2 DEF Ages
<1>3. CASE /\ nvm'[Next1].version = nvm[Next1].version
           /\ nvm'[Next1].sum = nvm[Next1].sum
  <2>1. Tuples(Next1)' = Tuples(Next1) /\ (Fresh(vc) => Fresh(vc)')
    BY <1>1, <1>3 DEF Tuples, Fresh
  <2> QED BY <1>0, <1>1, <1>3, <2>1 DEF Ages
<1> QED BY <1>2, <1>3

(* No version and no checksum changes, and so no age does.                 *)
Kept == \A s \in Slots : nvm'[s].version = nvm[s].version /\ nvm'[s].sum = nvm[s].sum

(* A step that changes no metadata.                                        *)
LEMMA KeptAges ==
  ASSUME TypeOK, NEW vc \in VersionWords, Ages(vc), cur' = cur, Kept
  PROVE  Ages(vc)'
BY AgesStay, CurFacts DEF Kept

(* Data and checksum2 say nothing of the age of a slot.                    *)
LEMMA OtherCells ==
  ASSUME TypeOK, Control,
         ProgramUnit \/ ProgramSum2 \/ (pc \in {"program", "sum2"} /\ CutShort)
  PROVE  Kept
<1>1. pc \in {"program", "sum2"} /\ Dst \in Slots
  BY FlashTyped DEF ProgramUnit, ProgramSum2, FlashPcs, MetaPcs
<1>2. \/ \E u \in Units : \E c : nvm' = [nvm EXCEPT ![Dst].data[u] = c]
      \/ \E c : nvm' = [nvm EXCEPT ![Dst].sum2 = c]
  <2>1. CASE ProgramUnit \/ (pc = "program" /\ CutShort)
    <3>1. todo \subseteq Units
      BY DEF TypeOK
    <3> QED BY <2>1, <3>1 DEF ProgramUnit, CutShort
  <2>2. CASE ProgramSum2 \/ (pc = "sum2" /\ CutShort)
    BY <2>2 DEF ProgramSum2, CutShort
  <2> QED BY <2>1, <2>2
<1>3. CASE \E u \in Units : \E c : nvm' = [nvm EXCEPT ![Dst].data[u] = c]
  BY <1>1, <1>3, DataWrite DEF Kept
<1>4. CASE \E c : nvm' = [nvm EXCEPT ![Dst].sum2 = c]
  BY <1>1, <1>4, MetaWrite DEF Kept
<1> QED BY <1>2, <1>3, <1>4

(* An erasure, whole or cut, makes the next slot fresh or leaves its       *)
(* metadata.                                                               *)
LEMMA EraseAges ==
  ASSUME SoundFlash, TypeOK, Control, NEW vc \in VersionWords, Safe(vc), Ages(vc),
         cur' = cur, pc = "erase", call.op # "format", EraseSlot \/ CutShort
  PROVE  Ages(vc)'
<1>1. Dst = Next1 /\ Next1 \in Slots /\ Next1' = Next1 /\ nvm[Next1] \in SlotCells
  <2>1. ~Repairing
    BY DEF Control, MetaPcs
  <2> QED BY <2>1, WritesNext, CurFacts DEF FlashPcs, Next1, TypeOK
<1>2. vc \in Nat /\ vc <= MaxVersion /\ MaxVersion \in Nat
  BY VersionAssumption DEF Safe, CurrentSound
<1>3. PICK h : /\ nvm' = [nvm EXCEPT ![Next1] = h]
               /\ h = ErasedSlot \/ \E first, last : h = HalfErasedSlot(nvm[Next1], first, last)
  <2>1. CASE EraseSlot
    BY <1>1, <2>1 DEF EraseSlot
  <2>2. CASE CutShort
    BY <1>1, <2>2 DEF CutShort
  <2> QED BY <2>1, <2>2
<1>4. nvm'[Next1] = h /\ \A s \in Slots \ {Next1} : nvm'[s] = nvm[s]
  BY <1>1, <1>3 DEF TypeOK
<1>5. ASSUME h.sum \subseteq {Blank, Garbage},
             SoundWords => \A w \in h.version : w > MaxVersion
      PROVE  Fresh(vc)'
  <2>1. Tuples(Next1)' = {}
    BY <1>1, <1>4, <1>5, ValueAssumption DEF Tuples
  <2>2. SoundWords => \A w \in nvm'[Next1'].version : w > vc
    <3> SUFFICES ASSUME SoundWords, NEW w \in h.version PROVE w > vc
      BY <1>1, <1>4
    <3>1. w > MaxVersion
      BY <1>5
    <3>2. h.version \subseteq VersionWords
      <4>1. ErasedSlot \in SlotCells
        BY BlankTypes
      <4>2. \A first, last : HalfErasedSlot(nvm[Next1], first, last).version \subseteq VersionWords
        BY <1>1, BlankTypes, TornAssumption DEF HalfErasedSlot, HalfErased, SlotCells
      <4> QED BY <1>3, <4>1, <4>2 DEF SlotCells
    <3> QED BY <1>2, <3>1, <3>2
  <2> QED BY <2>1, <2>2 DEF Fresh
<1>6. CASE h = ErasedSlot
  <2>1. h.sum = {Blank} /\ h.version = {ErasedVersion}
    BY <1>6 DEF ErasedSlot
  <2>2. SoundWords => ErasedVersion > MaxVersion
    BY <1>2 DEF SoundWords
  <2>3. Fresh(vc)'
    BY <1>5, <2>1, <2>2
  <2> QED BY <1>4, <2>3, AgesStay
<1>7. ASSUME NEW first, NEW last, h = HalfErasedSlot(nvm[Next1], first, last)
      PROVE  Ages(vc)'
  <2>1. CASE last # NUnits
    <3>1. h.version = nvm[Next1].version /\ h.sum = nvm[Next1].sum
      BY <1>7, <2>1, HalfErasedFields
    <3> QED BY <1>4, <3>1, AgesStay
  <2>2. CASE last = NUnits
    <3>1. /\ h.sum \subseteq {Blank, Garbage}
          /\ h.version \subseteq {ErasedVersion}
               \cup UNION {TornEraseVersion(v) : v \in nvm[Next1].version}
      BY <1>7, <2>2 DEF HalfErasedSlot, HalfErased, SoundFlash
    <3>2. nvm[Next1].version \subseteq VersionWords
      BY <1>1 DEF SlotCells
    <3>3. SoundWords => \A w \in h.version : w > MaxVersion
      BY <1>2, <3>1, <3>2 DEF SoundWords
    <3>4. Fresh(vc)'
      BY <1>5, <3>1, <3>3
    <3> QED BY <1>4, <3>4, AgesStay
  <2> QED BY <2>1, <2>2
<1> QED BY <1>3, <1>6, <1>7

(* The slot that a repair completes is the current one, or fresh.          *)
LEMMA RepairAges ==
  ASSUME SoundFlash, TypeOK, Control, NEW vc \in VersionWords, Safe(vc), Ages(vc), Repairing
  PROVE  /\ Dst = data /\ data \in Slots /\ meta.version \in VersionWords
         /\ nvm[data].version = {meta.version} /\ meta.sum \in nvm[data].sum
         /\ \/ data = cur /\ nvm[data].sum = {meta.sum}
            \/ data = Next1 /\ Fresh(vc)
<1>1. Dst = data /\ data \in Slots /\ vc \in Nat
  BY RepairFacts
<1>2. CASE /\ data = cur
           /\ meta = [version |-> vc, sum |-> <<value, vc>>]
           /\ nvm[data].version = {vc}
           /\ nvm[data].sum = {<<value, vc>>}
  BY <1>1, <1>2
<1>3. CASE /\ data = Next1
           /\ HoldsPending(data, vc)
           /\ meta = [version |-> vc + 1, sum |-> <<pending, vc + 1>>]
  <2>1. nvm[Next1].version = {vc + 1} /\ <<pending, vc + 1>> \in nvm[Next1].sum
        /\ vc + 1 \in VersionWords
    BY <1>1, <1>3, VersionAssumption DEF HoldsPending, Sound
  <2>2. <<pending, vc + 1>> \in Tuples(Next1)
    BY <1>1, <1>3, <2>1, SumsAre DEF HoldsPending
  <2>3. vc - Behind(Next1) # vc + 1
    BY <1>1, BehindFacts, SlotsAssumption
  <2>4. Fresh(vc)
    BY <2>1, <2>3, CurFacts DEF Ages
  <2> QED BY <1>1, <1>3, <2>1, <2>4
<1> QED BY <1>2, <1>3, RepairFacts

(* The version that is programmed is the next one.                         *)
LEMMA VersionAges ==
  ASSUME SoundFlash, TypeOK, Control, NEW vc \in VersionWords, Safe(vc), Ages(vc),
         cur' = cur, pc = "version", call.op # "format", NEW c,
         nvm' = [nvm EXCEPT ![Dst].version = c],
         \/ c = Programmed(nvm[Dst].version, ErasedVersion, meta.version,
                           TornProgramVersion(meta.version))
         \/ c = HalfProgrammed(nvm[Dst].version, meta.version,
                               TornProgramVersion(meta.version))
  PROVE  Ages(vc)'
<1>1. CASE Repairing
  <2>1. c = nvm[Dst].version
    BY <1>1, RepairAges DEF Programmed, HalfProgrammed, SoundFlash
  <2>2. Dst \in Slots
    BY <1>1, RepairAges
  <2>3. nvm' = nvm
    BY <2>1, <2>2, SameWrite
  <2> QED BY <2>3, KeptAges DEF Kept
<1>2. CASE ~Repairing
  <2>1. /\ Dst = Next1 /\ Next1 \in Slots /\ Next1' = Next1
        /\ vc \in Nat /\ vc + 1 \in VersionWords /\ vc < MaxVersion
        /\ nvm[Next1].version = {ErasedVersion} /\ nvm[Next1].sum = {Blank}
        /\ meta.version = vc + 1
    BY <1>2, UpdateFacts DEF MetaPcs, Sound, Next1
  <2>2. c \subseteq {ErasedVersion, vc + 1} \cup TornProgramVersion(vc + 1)
    BY <2>1 DEF Programmed, HalfProgrammed
  <2>3. /\ \A s \in Slots \ {Next1} : nvm'[s] = nvm[s]
        /\ nvm'[Next1].version = c /\ nvm'[Next1].sum = {Blank}
    <3>1. nvm' = [nvm EXCEPT ![Next1].version = c]
      BY <2>1
    <3> HIDE DEF Slots
    <3> QED BY <2>1, <3>1, MetaWrite
  <2>4. SoundWords => \A w \in c : w > vc
    <3> SUFFICES ASSUME SoundWords, NEW w \in c PROVE w > vc
      OBVIOUS
    <3>1. ErasedVersion > vc
      BY <2>1, VersionAssumption DEF SoundWords
    <3>2. w \in TornProgramVersion(vc + 1) => w \in VersionWords /\ w >= vc + 1
      BY <2>1, TornAssumption DEF SoundWords
    <3> QED BY <2>1, <2>2, <3>1, <3>2
  <2>5. Fresh(vc)'
    BY <2>1, <2>3, <2>4, ValueAssumption DEF Fresh, Tuples
  <2> QED BY <2>3, <2>5, AgesStay
<1> QED BY <1>1, <1>2

(* So is the one that its checksum is about.                               *)
LEMMA SumAges ==
  ASSUME SoundFlash, TypeOK, Control, NEW vc \in VersionWords, Safe(vc), Ages(vc),
         cur' = cur, pc = "sum", call.op # "format", NEW c,
         nvm' = [nvm EXCEPT ![Dst].sum = c],
         \/ c = Programmed(nvm[Dst].sum, Blank, meta.sum, {Garbage})
         \/ c = HalfProgrammed(nvm[Dst].sum, meta.sum, {Garbage})
  PROVE  Ages(vc)'
<1>1. CASE Repairing /\ data = cur
  <2>1. Dst \in Slots /\ (nvm[Dst].sum = {meta.sum} \/ Dst = Next1)
    BY <1>1, RepairAges
  <2>2. nvm[Dst].sum = {meta.sum}
    BY <1>1, <2>1, RepairAges, CurFacts
  <2>3. c = nvm[Dst].sum
    BY <2>2 DEF Programmed, HalfProgrammed, SoundFlash
  <2>4. nvm' = nvm
    BY <2>1, <2>3, SameWrite
  <2> QED BY <2>4, KeptAges DEF Kept
<1>2. CASE Repairing /\ data # cur
  <2>1. /\ Dst = Next1 /\ Next1 \in Slots /\ Next1' = Next1 /\ Fresh(vc)
        /\ meta.sum \in nvm[Next1].sum
        /\ nvm' = [nvm EXCEPT ![Next1].sum = c]
    BY <1>2, RepairAges, CurFacts DEF Next1
  <2>2. c \subseteq nvm[Next1].sum \cup {Garbage}
    BY <2>1 DEF Programmed, HalfProgrammed
  <2>3. /\ \A s \in Slots \ {Next1} : nvm'[s] = nvm[s]
        /\ nvm'[Next1].version = nvm[Next1].version /\ nvm'[Next1].sum = c
    <3> HIDE DEF Slots
    <3> QED BY <2>1, MetaWrite
  <2>4. Tuples(Next1)' \subseteq Tuples(Next1)
    BY <2>1, <2>2, <2>3, ValueAssumption DEF Tuples
  <2>5. Fresh(vc)'
    BY <2>1, <2>3, <2>4 DEF Fresh
  <2> QED BY <2>3, <2>5, AgesStay
<1>3. CASE ~Repairing
  <2>1. /\ Dst = Next1 /\ Next1 \in Slots /\ Next1' = Next1 /\ vc \in Nat
        /\ nvm[Next1].version = {vc + 1} /\ nvm[Next1].sum = {Blank}
        /\ meta.sum = <<Goal, vc + 1>>
    BY <1>3, UpdateFacts DEF MetaPcs, Sound, Next1
  <2>2. c \subseteq {Blank, Garbage, <<Goal, vc + 1>>}
    BY <2>1 DEF Programmed, HalfProgrammed
  <2>3. /\ \A s \in Slots \ {Next1} : nvm'[s] = nvm[s]
        /\ nvm'[Next1].version = {vc + 1} /\ nvm'[Next1].sum = c
    <3> HIDE DEF Slots
    <3> QED BY <2>1, MetaWrite
  <2>4. Tuples(Next1)' \subseteq {<<Goal, vc + 1>>}
    BY <2>1, <2>2, <2>3, ValueAssumption DEF Tuples
  <2>5. Fresh(vc)'
    BY <2>1, <2>3, <2>4 DEF Fresh
  <2> QED BY <2>3, <2>5, AgesStay
<1> QED BY <1>1, <1>2, <1>3

(* A search that settles makes the next slot current or none.              *)
LEMMA SettleAges ==
  ASSUME TypeOK, NEW vc \in VersionWords, Safe(vc), Ages(vc), Kept,
         NEW s, Settle(s), s = cur \/ HoldsPending(s, vc)
  PROVE  \E wc \in VersionWords : Ages(wc)'
<1>1. /\ nvm[cur].version = {vc} /\ vc \in Nat /\ vc >= 1 /\ cur' = s
      /\ cur \in Slots /\ Next1 \in Slots
  BY CurFacts DEF Safe, CurrentSound, Holds, Sound, Settle
<1>2. CASE s = cur
  BY <1>1, <1>2, KeptAges DEF Kept
<1>3. CASE HoldsPending(s, vc)
  <2>1. s = Next1 /\ vc < MaxVersion /\ nvm[Next1].version = {vc + 1}
    BY <1>3 DEF HoldsPending, Sound
  <2>2. Ages(vc + 1)'
    BY <1>1, <2>1, AgesAdvance DEF Kept
  <2>3. vc + 1 \in VersionWords
    BY <1>1, <2>1, VersionAssumption
  <2> QED BY <2>2, <2>3
<1> QED BY <1>2, <1>3

(* Every step of a formatted area.                                         *)
LEMMA AgesStep ==
  ASSUME SoundFlash, IInv, NEW vc \in VersionWords, Safe(vc), Ages(vc),
         formatted = "done", [Next]_vars
  PROVE  \E wc \in VersionWords : Ages(wc)'
<1>1. /\ TypeOK /\ Control
      /\ pc \in FlashPcs => call.op # "format"
  BY DEF IInv, Control, FlashPcs, MetaPcs
<1>2. ASSUME Kept, cur' = cur
      PROVE  \E wc \in VersionWords : Ages(wc)'
  BY <1>1, <1>2, KeptAges
<1>3. CASE nvm' = nvm /\ cur' = cur
  BY <1>2, <1>3 DEF Kept
<1>4. CASE EraseSlot
  BY <1>1, <1>4, EraseAges DEF EraseSlot, FlashPcs
<1>5. CASE ProgramUnit
  BY <1>1, <1>2, <1>5, OtherCells DEF ProgramUnit
<1>6. CASE WriteVersion
  BY <1>1, <1>6, VersionAges DEF WriteVersion, FlashPcs, MetaPcs, history
<1>7. CASE WriteSum
  BY <1>1, <1>7, SumAges DEF WriteSum, FlashPcs, MetaPcs, history
<1>8. CASE RepairDone
  <2>1. Kept /\ Repairing /\ Settle(data)
    BY <1>1, <1>8, OtherCells DEF RepairDone
  <2>2. data = cur \/ HoldsPending(data, vc)
    BY <1>1, <2>1, RepairFacts
  <2> QED BY <1>1, <2>1, <2>2, SettleAges
<1>9. CASE UpdateDone
  <2>1. Kept /\ pc = "sum2" /\ ~Repairing /\ cur' = Dst
    BY <1>1, <1>9, OtherCells DEF UpdateDone, ProgramSum2
  <2>2. /\ Dst = Next1 /\ nvm[Next1].version = {vc + 1}
        /\ vc \in Nat /\ vc >= 1 /\ vc < MaxVersion /\ vc + 1 \in VersionWords
    BY <1>1, <2>1, UpdateFacts DEF FlashPcs, MetaPcs, Sound
  <2>3. Ages(vc + 1)'
    BY <1>1, <2>1, <2>2, AgesAdvance DEF Kept
  <2> QED BY <2>2, <2>3
<1>10. CASE Resolve
  <2>1. pc = "scan" /\ scan.i = NSlots /\ scan.best # None /\ Kept
    BY <1>10 DEF Resolve, Kept
  <2>2. CASE Settle(scan.best.slot)
    BY <1>1, <2>1, <2>2, Elected, SettleAges
  <2>3. CASE cur' = cur
    BY <1>2, <2>1, <2>3
  <2> QED BY <1>10, <2>2, <2>3 DEF Resolve, history
<1>11. CASE NvmError \/ Reset
  <2>1. cur' = cur /\ (CutShort \/ nvm' = nvm)
    BY <1>11 DEF NvmError, Reset, Interrupted
  <2>2. CASE CutShort /\ pc = "erase"
    BY <1>1, <2>1, <2>2, EraseAges DEF FlashPcs
  <2>3. CASE CutShort /\ pc = "version"
    <3>1. nvm' = [nvm EXCEPT ![Dst].version =
                    HalfProgrammed(nvm[Dst].version, meta.version,
                                   TornProgramVersion(meta.version))]
      BY <2>3 DEF CutShort
    <3> QED BY <1>1, <2>1, <2>3, <3>1, VersionAges DEF FlashPcs, MetaPcs
  <2>4. CASE CutShort /\ pc = "sum"
    <3>1. nvm' = [nvm EXCEPT ![Dst].sum = HalfProgrammed(nvm[Dst].sum, meta.sum, {Garbage})]
      BY <2>4 DEF CutShort
    <3> QED BY <1>1, <2>1, <2>4, <3>1, SumAges DEF FlashPcs, MetaPcs
  <2>5. CASE CutShort /\ pc \in {"program", "sum2"}
    BY <1>1, <1>2, <2>1, <2>5, OtherCells
  <2> QED BY <1>3, <2>1, <2>2, <2>3, <2>4, <2>5 DEF CutShort
<1>12. CASE Calling
  BY <1>3, <1>12, CallingIsCall DEF Call, Abort
<1>13. CASE Refuse \/ Read \/ TransactionRead \/ BeginUpdate \/ Start
           \/ TransactionWrite \/ Commit \/ Format \/ BeginSearch \/ ScanSlot
           \/ ScanCollides \/ NoValidVersion \/ Seal
  BY <1>3, <1>13 DEF Refuse, Read, TransactionRead, BeginUpdate, EraseAll, Start,
     TransactionWrite, Commit, Format, BeginSearch, ScanSlot, ScanCollides,
     NoValidVersion, Seal, Raise, history
<1>14. CASE UNCHANGED vars
  BY <1>3, <1>14 DEF vars, history
<1>15. ~EraseArea /\ ~FormatDone
  BY <1>1 DEF EraseArea, FormatDone, ProgramSum2, FlashPcs, MetaPcs
<1> QED BY <1>4, <1>5, <1>6, <1>7, <1>8, <1>9, <1>10, <1>11, <1>12, <1>13,
           <1>14, <1>15 DEF Next, Step

(* After a format every slot but the first is unused.                      *)
LEMMA FormatDoneAges ==
  ASSUME TypeOK, Control, FormatProgress, FormatDone
  PROVE  Ages(1)'
<1>1. /\ call.op = "format" /\ pc = "sum2" /\ cur' = 0
      /\ nvm' = [nvm EXCEPT ![Dst].sum2 =
                   Programmed(nvm[Dst].sum2, Blank, meta.sum, {Garbage})]
  BY DEF FormatDone, ProgramSum2
<1>2. PICK z \in Slots : z = 0
  BY SlotsAssumption
<1>3. /\ \A s \in Slots \ {z} : nvm[s].version = {ErasedVersion} /\ nvm[s].sum = {Blank}
      /\ nvm[z].version = {1}
  <2>1. ErasedSlot.version = {ErasedVersion} /\ ErasedSlot.sum = {Blank}
    BY DEF ErasedSlot
  <2> QED BY <1>1, <1>2, <2>1 DEF FormatProgress, MetaPcs, Sound
<1>4. Kept
  BY <1>1, OtherCells DEF FormatDone
<1>5. \A s \in Slots \ {z} : nvm'[s].version = {ErasedVersion} /\ Tuples(s)' = {}
  BY <1>3, <1>4, ValueAssumption DEF Kept, Tuples
<1>6. Next1' \in Slots \ {z}
  BY <1>1, <1>2, NextSlotType DEF Next1
<1>7. SoundWords => ErasedVersion > 1
  BY VersionAssumption DEF SoundWords
<1>8. Fresh(1)'
  BY <1>5, <1>6, <1>7 DEF Fresh
<1> QED BY <1>1, <1>2, <1>3, <1>4, <1>5, <1>8 DEF Ages, Kept

(* The slots of a formatted area are aged in every reachable state.        *)
LEMMA NextAged ==
  ASSUME SoundFlash, IInv, Aged, [Next]_vars
  PROVE  Aged'
<1>1. CASE formatted = "done" /\ formatted' = "done"
  <2>1. PICK vc \in VersionWords : Safe(vc)
    BY <1>1 DEF IInv
  <2>2. PICK wc \in VersionWords : Ages(wc)
    BY <1>1 DEF Aged
  <2>3. wc = vc
    BY <2>1, <2>2, CurrentVersion
  <2>4. \E v \in VersionWords : Ages(v)'
    BY <1>1, <2>1, <2>2, <2>3, AgesStep
  <2> QED BY <2>4 DEF Aged
<1>2. CASE formatted # "done" /\ formatted' = "done"
  <2>1. FormatDone
    BY <1>2, BecomesFormatted DEF IInv, vars, app
  <2>2. Ages(1)'
    BY <2>1, FormatDoneAges DEF IInv
  <2>3. 1 \in VersionWords
    BY VersionAssumption
  <2> QED BY <2>2, <2>3 DEF Aged
<1>3. CASE formatted' # "done"
  BY <1>3 DEF Aged
<1> QED BY <1>1, <1>2, <1>3

(* The slot an operation changes, in a formatted area.                     *)
LEMMA ChangedSlot ==
  ASSUME IInv, [Next]_vars, call.op # "format", NEW s \in Slots, nvm'[s] # nvm[s]
  PROVE  /\ pc \in FlashPcs /\ s = Dst /\ formatted = "done" /\ formatted' = "done"
         /\ \/ cur' = cur
            \/ cur' = Dst
         /\ pc = "sum2" => Kept
<1>1. TypeOK /\ Control
  BY DEF IInv
<1>2. \/ EraseSlot \/ ProgramUnit \/ WriteVersion \/ WriteSum \/ RepairDone
      \/ UpdateDone \/ ((NvmError \/ Reset) /\ CutShort)
  <2>1. CASE Calling
    BY <2>1, CallingIsCall DEF Call, Abort
  <2>2. CASE Refuse \/ Read \/ TransactionRead \/ BeginUpdate \/ Start
             \/ TransactionWrite \/ Commit \/ Format \/ BeginSearch \/ ScanSlot
             \/ ScanCollides \/ NoValidVersion \/ Seal \/ Resolve
    BY <2>2 DEF Refuse, Read, TransactionRead, BeginUpdate, EraseAll, Start,
       TransactionWrite, Commit, Format, BeginSearch, ScanSlot, ScanCollides,
       NoValidVersion, Seal, Resolve, Raise
  <2>3. CASE EraseArea \/ FormatDone \/ UNCHANGED vars
    BY <2>3 DEF EraseArea, FormatDone, vars
  <2>4. CASE NvmError \/ Reset
    BY <2>4 DEF NvmError, Reset, Interrupted
  <2> QED BY <2>1, <2>2, <2>3, <2>4 DEF Next, Step
<1>3. pc \in FlashPcs
  BY <1>2 DEF EraseSlot, ProgramUnit, WriteVersion, WriteSum, RepairDone,
     UpdateDone, ProgramSum2, CutShort, FlashPcs, MetaPcs
<1>4. s = Dst
  <2>1. nvm \in [Slots -> SlotCells]
    BY <1>1 DEF TypeOK
  <2>2. \E c : nvm' = [nvm EXCEPT ![Dst] = c]
    BY <1>2 DEF EraseSlot, ProgramUnit, WriteVersion, WriteSum, RepairDone,
       UpdateDone, ProgramSum2, CutShort
  <2> QED BY <2>1, <2>2
<1>5. formatted = "done"
  BY <1>1, <1>3 DEF IInv, Control, NotFormatted, TypeOK, FlashPcs, MetaPcs
<1>6. formatted' = formatted /\ (cur' = cur \/ cur' = Dst)
  <2>1. CASE RepairDone
    BY <1>1, <2>1 DEF RepairDone, Settle, app, Dst
  <2>2. CASE ~RepairDone
    BY <1>2, <2>2 DEF EraseSlot, ProgramUnit, WriteVersion, WriteSum, UpdateDone,
       NvmError, Reset, app, history
  <2> QED BY <2>1, <2>2
<1>7. pc = "sum2" => Kept
  BY <1>1, <1>2, OtherCells DEF EraseSlot, ProgramUnit, WriteVersion, WriteSum,
     RepairDone, UpdateDone
<1> QED BY <1>3, <1>4, <1>5, <1>6, <1>7

(* The current slot is never changed into an erased one.                   *)
LEMMA CurrentKept ==
  ASSUME IInv, IInv', [Next]_vars, call.op # "format", NEW s \in Slots,
         nvm'[s] # nvm[s], nvm'[s] = ErasedSlot
  PROVE  s # cur
<1>1. s = Dst /\ formatted' = "done" /\ (cur' = cur \/ cur' = Dst)
  BY ChangedSlot
<1>2. nvm'[cur'].sum # {Blank}
  <2>1. PICK wc \in VersionWords : Safe(wc)'
    BY <1>1 DEF IInv
  <2>2. nvm'[cur'].sum = {<<value', wc>>} /\ value' \in Content
    BY <2>1 DEF Safe, CurrentSound, Holds, Sound, IInv, TypeOK
  <2>3. <<value', wc>> \in Sums
    BY <2>1, <2>2 DEF Sums
  <2> QED BY <2>2, <2>3, ValueAssumption
<1>3. s # cur'
  BY <1>2 DEF ErasedSlot
<1> QED BY <1>1, <1>3

(* Of two slots that hold data, the next one holds the older, unless it    *)
(* holds the update in doubt.                                              *)
LEMMA NextOldest ==
  ASSUME TypeOK, NEW vc \in VersionWords, Safe(vc), Ages(vc),
         NEW t \in Slots \ {Next1}, NEW x \in Tuples(Next1), NEW y \in Tuples(t),
         Holds(Next1, x[1], x[2]), Holds(t, y[1], y[2])
  PROVE  x[2] < y[2] \/ x[1] \in InDoubt
<1>1. /\ x[2] < vc \/ x[1] \in InDoubt
      /\ Next1 \in Slots /\ Next1 # cur /\ vc \in Nat /\ NSlots \in Nat
      /\ nvm[Next1].version = {x[2]} /\ nvm[t].version = {y[2]}
  BY CurFacts, SlotsAssumption DEF Safe, OthersOlder, CurrentSound, Holds, Sound
<1>2. CASE t = cur
  BY <1>1, <1>2 DEF Ages
<1>3. CASE t # cur
  <2>1. y[2] = vc - Behind(t)
    BY <1>1, <1>3 DEF Ages
  <2>2. x[2] = vc - Behind(Next1) \/ x[2] = vc + 1
    BY <1>1 DEF Ages, Fresh
  <2>3. Behind(t) \in 1..(NSlots - 1) /\ Behind(Next1) = NSlots - 1 /\ Behind(t) # Behind(Next1)
    BY <1>1, <1>3, BehindFacts
  <2> QED BY <1>1, <2>1, <2>2, <2>3
<1> QED BY <1>2, <1>3

(* Wear leveling (README.md:6): the slots of an area are erased in turn.   *)
(* On sound flash, for any number of slots and after any interruptions,    *)
(* erase_slot hits the slot with the oldest data or the update in doubt,   *)
(* never the current one.                                                  *)
THEOREM ErasedInTurn == ASSUME SoundFlash PROVE Spec => OldestErased
<1> DEFINE Oldest(s) ==
      /\ s # cur
      /\ \A t \in Slots \ {s} :
           \A x \in nvm[s].sum \ {Blank, Garbage},
              y \in nvm[t].sum \ {Blank, Garbage} :
             Holds(s, x[1], x[2]) /\ Holds(t, y[1], y[2])
               => x[2] < y[2] \/ x[1] = pending
<1>1. ASSUME IInv, IInv', Aged, [Next]_vars, NEW s \in Slots,
             nvm'[s] # nvm[s], nvm'[s] = ErasedSlot, call.op # "format"
      PROVE  Oldest(s)
  <2>1. TypeOK /\ Control
    BY <1>1 DEF IInv
  <2>2. /\ pc \in FlashPcs /\ s = Dst /\ formatted = "done" /\ (pc = "sum2" => Kept)
        /\ s # cur
    BY <1>1, ChangedSlot, CurrentKept
  <2>3. PICK vc \in VersionWords : Safe(vc) /\ Ages(vc)
    BY <1>1, <2>2, CurrentVersion DEF IInv, Aged
  <2>4. s = Next1
    BY <1>1, <2>1, <2>2, <2>3, WritesNext, RepairAges
  <2>5. ASSUME NEW t \in Slots \ {s},
               NEW x \in nvm[s].sum \ {Blank, Garbage},
               NEW y \in nvm[t].sum \ {Blank, Garbage},
               Holds(s, x[1], x[2]), Holds(t, y[1], y[2])
        PROVE  x[2] < y[2] \/ x[1] = pending
    <3>1. x \in Tuples(Next1) /\ y \in Tuples(t)
      BY <2>1, <2>4, <2>5, SumsAre
    <3>2. x[2] < y[2] \/ x[1] \in InDoubt
      BY <2>1, <2>3, <2>4, <2>5, <3>1, NextOldest
    <3>3. pc # "sum2"
      <4>1. nvm'[s].sum = {Blank}
        BY <1>1 DEF ErasedSlot
      <4> QED BY <2>2, <2>5, <4>1 DEF Kept
    <3> QED BY <3>2, <3>3, OnlyPending
  <2> QED BY <2>2, <2>5
<1>2. IInv /\ IInv' /\ Aged /\ [Next]_vars =>
        [\A s \in Slots :
           (/\ nvm'[s] # nvm[s]
            /\ nvm'[s] = ErasedSlot
            /\ call.op # "format")
           => /\ s # cur
              /\ \A t \in Slots \ {s} :
                   \A x \in nvm[s].sum \ {Blank, Garbage},
                      y \in nvm[t].sum \ {Blank, Garbage} :
                     Holds(s, x[1], x[2]) /\ Holds(t, y[1], y[2])
                       => x[2] < y[2] \/ x[1] = pending]_vars
  BY <1>1
<1>3. Init => Aged
  BY DEF Init, Aged
<1>4. IInv /\ Aged /\ [Next]_vars => Aged'
  BY NextAged
<1>5. Spec => []IInv
  BY Inductive
<1> QED BY <1>2, <1>3, <1>4, <1>5, PTL DEF Spec, OldestErased

(* What holds of a search besides ScanProgress, and of errors.             *)
Searched ==
  /\ pc = "scan" /\ scan.best # None => scan.best.slot < scan.i
  /\ pc # "idle" => err = None
  /\ SearchSucceeds

(* A version is read in one slot only.                                     *)
LEMMA NeverCollides ==
  ASSUME SoundFlash, SoundWords, IInv, Aged, Searched, formatted = "done", pc = "scan"
  PROVE  ~ScanCollides /\ ~NoValidVersion
<1>1. TypeOK /\ Control
  BY DEF IInv
<1>2. PICK vc \in VersionWords : Safe(vc) /\ Ages(vc)
  BY CurrentVersion DEF IInv, Aged
<1>3. /\ vc \in 1..MaxVersion /\ MaxVersion \in Nat /\ NSlots \in Nat
      /\ cur \in Slots /\ Next1 \in Slots /\ Next1 # cur
      /\ scan.i \in 0..NSlots /\ scan.max \in Nat
      /\ scan.best # None => scan.best.slot \in Slots /\ scan.best.slot < scan.i
  BY <1>1, <1>2, CurFacts, ScanningTyped, SlotsAssumption, VersionAssumption
     DEF Safe, CurrentSound, Searched
<1>4. ~NoValidVersion
  BY <1>2, <1>3 DEF NoValidVersion, Safe, ScanProgress
<1>5. ASSUME ScanCollides PROVE FALSE
  <2>1. PICK i \in Slots : i = scan.i
    BY <1>3, <1>5 DEF ScanCollides
  <2>2. scan.max \in nvm[i].version /\ scan.max # InvalidVersion
    BY <1>5, <2>1 DEF ScanCollides
  <2>3. \/ i = cur /\ scan.max = vc
        \/ i # cur /\ scan.max = vc - Behind(i) /\ scan.max >= 1
        \/ i = Next1 /\ scan.max > vc
    BY <1>2, <2>2 DEF Ages, Fresh, SoundWords
  <2>4. Behind(i) \in Nat /\ (i # cur => Behind(i) >= 1)
    BY <1>1, <1>3, BehindFacts DEF Behind
  <2>5. scan.max >= 1
    BY <1>3, <2>2, <2>3
  <2>6. PICK b \in Slots : scan.best # None /\ b = scan.best.slot /\ b # i
    BY <1>2, <1>3, <2>1, <2>5 DEF Safe, ScanProgress
  <2>7. scan.max \in nvm[b].version /\ \E x \in nvm[b].sum : x \in Sums /\ x[2] = scan.max
    <3>1. /\ scan.best.reading \in Readings(nvm[b]) /\ IntegrityOk(scan.best.reading)
          /\ scan.best.reading.version = scan.max
      BY <1>2, <2>6 DEF Safe, ScanProgress
    <3>2. /\ scan.max \in nvm[b].version /\ scan.best.reading.sum \in nvm[b].sum
          /\ scan.best.reading.data \in Content /\ scan.max \in VersionWords
          /\ scan.best.reading.sum = <<scan.best.reading.data, scan.max>>
      BY <1>1, <3>1, ScanningTyped DEF Readings, DataReadings, IntegrityOk
    <3> QED BY <3>2 DEF Sums
  <2>8. \/ b = cur /\ scan.max = vc
        \/ b # cur /\ b # Next1 /\ scan.max = vc - Behind(b)
        \/ b = Next1 /\ (scan.max = vc - Behind(b) \/ scan.max > vc)
    BY <1>2, <2>2, <2>7 DEF Ages, Fresh, SoundWords
  <2>9. Behind(b) \in Nat /\ (b # cur => Behind(b) >= 1) /\ Behind(b) # Behind(i)
    BY <1>1, <1>3, <2>6, BehindFacts DEF Behind
  <2> QED BY <1>3, <2>3, <2>4, <2>6, <2>8, <2>9
<1> QED BY <1>4, <1>5

(* Errors are raised at the end of a call, and those of a search before    *)
(* the first format only.                                                  *)
LEMMA NextSearched ==
  ASSUME SoundFlash, SoundWords, IInv, Aged, Searched, [Next]_vars
  PROVE  Searched'
<1>1. TypeOK /\ Control
  BY DEF IInv
<1>2. ASSUME pc' = "idle", err' \in {"VERSION_COLLISION", "NO_VALID_VERSION"} => formatted' = "never"
      PROVE  Searched'
  BY <1>2 DEF Searched, SearchSucceeds
<1>3. CASE Calling
  <2>1. CASE Abort
    BY <2>1 DEF Abort, run, Searched, SearchSucceeds
  <2>2. ASSUME NEW c, Call(c) PROVE Searched'
    BY <2>2, NoneAssumption DEF Call, Searched, SearchSucceeds, Errors
  <2> QED BY <1>3, <2>1, <2>2, CallingIsCall
<1>4. CASE Reset
  BY <1>2, <1>4, NoneAssumption DEF Reset, Quit, Errors
<1>5. CASE NvmError
  BY <1>2, <1>5 DEF NvmError, Raise, Quit
<1>6. CASE Refuse \/ (Start /\ data = None)
  <2>1. pc' = "idle" /\ err' \notin {"VERSION_COLLISION", "NO_VALID_VERSION"}
    BY <1>6, SoundStart, NoneAssumption
       DEF Refuse, Raise, Quit, Check, CheckResolved, Errors
  <2> QED BY <1>2, <2>1
<1>7. CASE ScanCollides \/ NoValidVersion
  <2>1. pc' = "idle" /\ pc = "scan" /\ formatted' = formatted
    BY <1>7 DEF ScanCollides, NoValidVersion, Raise, Quit
  <2>2. formatted # "formatting"
    BY <1>1, <2>1, ScanningTyped DEF Control, Searches, Resolves
  <2>3. formatted = "never"
    BY <1>1, <1>7, <2>1, <2>2, NeverCollides DEF TypeOK
  <2> QED BY <1>2, <2>1, <2>3
<1>8. ASSUME UNCHANGED err, pc # "idle", pc' # "scan"
      PROVE  Searched'
  BY <1>8, NoneAssumption DEF Searched, SearchSucceeds, Errors
<1>9. CASE BeginSearch
  BY <1>9, NoneAssumption DEF BeginSearch, Searched, SearchSucceeds, app, Errors
<1>10. CASE ScanSlot
  <2>1. pc = "scan" /\ UNCHANGED <<pc, err>> /\ scan.i \in Int
    BY <1>1, <1>10, ScanningTyped DEF ScanSlot, app
  <2>2. /\ scan'.i = scan.i + 1
        /\ scan'.best # None => scan'.best = scan.best \/ scan'.best.slot = scan.i
    BY <1>10 DEF ScanSlot
  <2>3. scan.best # None => scan.best.slot \in Slots
    BY <1>1, <2>1, ScanningTyped
  <2>4. scan'.best # None => scan'.best.slot < scan'.i
    BY <2>1, <2>2, <2>3 DEF Searched
  <2> QED BY <2>1, <2>4, NoneAssumption DEF Searched, SearchSucceeds, Errors
<1>11. CASE \/ BeginUpdate \/ (Start /\ data # None) \/ TransactionWrite \/ Commit
           \/ Format \/ Resolve \/ EraseSlot \/ EraseArea \/ ProgramUnit \/ Seal
           \/ WriteVersion \/ WriteSum \/ RepairDone \/ UpdateDone \/ FormatDone
           \/ Read \/ TransactionRead
  <2>1. UNCHANGED err /\ pc # "idle"
    BY <1>11 DEF BeginUpdate, EraseAll, Start, TransactionWrite, Commit, Format, Resolve,
       EraseSlot, EraseArea, ProgramUnit, Seal, WriteVersion, WriteSum, RepairDone,
       UpdateDone, FormatDone, ProgramSum2, Read, TransactionRead, Enter, app
  <2>2. pc' # "scan"
    BY <1>11 DEF BeginUpdate, EraseAll, Start, TransactionWrite, Commit, Format, Resolve,
       EraseSlot, EraseArea, ProgramUnit, Seal, WriteVersion, WriteSum, RepairDone,
       UpdateDone, FormatDone, Read, TransactionRead, Quit
  <2> QED BY <1>8, <2>1, <2>2
<1>12. CASE UNCHANGED vars
  BY <1>12 DEF vars, run, app, Searched, SearchSucceeds
<1> QED BY <1>3, <1>4, <1>5, <1>6, <1>7, <1>9, <1>10, <1>11, <1>12 DEF Next, Step

(* A formatted area is never refused: on sound flash, and if version words *)
(* that were cut read as SoundWords says, find_current_slot succeeds after *)
(* any resets and errors, for any number of slots.                         *)
THEOREM SearchesSucceed ==
  ASSUME SoundFlash, SoundWords PROVE Spec => []SearchSucceeds
<1>1. Init => Aged /\ Searched
  BY NoneAssumption DEF Init, Aged, Searched, SearchSucceeds, Errors
<1>2. IInv /\ Aged /\ Searched /\ [Next]_vars => Aged' /\ Searched'
  BY NextAged, NextSearched
<1>3. Searched => SearchSucceeds
  BY DEF Searched
<1>4. Spec => []IInv
  BY Inductive
<1> QED BY <1>1, <1>2, <1>3, <1>4, PTL DEF Spec

-----------------------------------------------------------------------------
(* Every call ends.                                                        *)

(* StepsLeft, place by place.                                              *)
Left ==
  LET repairing == IF Repairing THEN NUnits + 6 ELSE 0
  IN  /\ pc = "idle" => StepsLeft = 0
      /\ pc = "enter" =>
           StepsLeft = NUnits + 6 + IF data = None THEN NSlots + 5 ELSE 0
      /\ pc = "scan" => StepsLeft = NSlots - scan.i + NUnits + 10
      /\ pc = "erase" => StepsLeft = NUnits + 5
      /\ pc = "program" => StepsLeft = 4 + Cardinality(todo)
      /\ pc = "seal" => StepsLeft = 4
      /\ pc = "version" => StepsLeft = 3 + repairing
      /\ pc = "sum" => StepsLeft = 2 + repairing
      /\ pc = "sum2" => StepsLeft = 1 + repairing

(* The units still to be programmed can be counted.                        *)
LEMMA Counted ==
  ASSUME TypeOK
  PROVE  /\ NUnits \in Nat /\ NSlots \in Nat
         /\ IsFiniteSet(todo) /\ Cardinality(todo) \in 0..NUnits
<1>1. NUnits \in Nat /\ NSlots \in Nat
  BY UnitsAssumption, SlotsAssumption
<1>2. IsFiniteSet(Units) /\ Cardinality(Units) = NUnits
  BY <1>1, FS_Interval
<1>3. todo \in SUBSET Units
  BY DEF TypeOK
<1> HIDE DEF Units
<1>4. IsFiniteSet(todo) /\ Cardinality(todo) <= NUnits
  BY <1>2, <1>3, FS_Subset
<1> QED BY <1>1, <1>4, FS_CardinalityType

(* So can those of the next state.                                         *)
LEMMA CountedNext == (TypeOK => Cardinality(todo) \in 0..NUnits)'
<1>1. TypeOK => Cardinality(todo) \in 0..NUnits
  BY Counted
<1> QED BY <1>1, PTL

(* Left holds, since a repair is under way in MetaPcs only.                *)
LEMMA LeftIs == TypeOK /\ Control => Left
<1> SUFFICES ASSUME TypeOK, Control PROVE Left
  OBVIOUS
<1>1. /\ NUnits \in Nat /\ NSlots \in Nat
      /\ Cardinality(todo) \in Nat
  BY Counted
<1>2. pc = "scan" => scan.i \in Int
  BY ScanningTyped
<1>3. pc \notin MetaPcs => ~Repairing
  BY DEF Control
<1>4. CASE pc \in {"idle", "enter", "scan"}
  BY <1>1, <1>2, <1>3, <1>4 DEF Left, StepsLeft, MetaPcs
<1>5. CASE pc \in {"erase", "program", "seal"}
  BY <1>1, <1>3, <1>5 DEF Left, StepsLeft, MetaPcs
<1>6. CASE pc \in MetaPcs
  BY <1>1, <1>6 DEF Left, StepsLeft, MetaPcs
<1> QED BY <1>4, <1>5, <1>6 DEF TypeOK, Pcs, MetaPcs

(* In the next state as well.                                              *)
LEMMA LeftNext == (TypeOK /\ Control => Left)'
BY LeftIs, PTL

(* A step of a call brings it closer to its end.                           *)
LEMMA StepShortens ==
  ASSUME TypeOK, Control, TypeOK', Control', Next, pc # "idle"
  PROVE  StepsLeft' < StepsLeft
<1>1. Left /\ Left'
  BY LeftIs, LeftNext
<1>2. /\ NUnits \in Nat /\ NSlots \in Nat
      /\ Cardinality(todo) \in 0..NUnits /\ IsFiniteSet(todo)
  BY Counted
<1>3. Cardinality(todo') \in 0..NUnits
  BY CountedNext
<1>4. pc = "scan" => scan.i \in 0..NSlots
  BY ScanningTyped
<1>5. StepsLeft > 0
  <2>0. pc = "program" => Cardinality(todo) \in Nat
    BY <1>2
  <2>1. CASE pc \in {"enter", "scan", "erase", "program", "seal"}
    BY <1>1, <1>2, <1>4, <2>0, <2>1 DEF Left
  <2>2. CASE pc \in {"version", "sum", "sum2"}
    BY <1>1, <1>2, <2>2 DEF Left
  <2> QED BY <2>1, <2>2 DEF TypeOK, Pcs
<1>6. ASSUME Quit PROVE StepsLeft' < StepsLeft
  <2>1. pc' = "idle"
    BY <1>6, QuitTyped
  <2> QED BY <1>1, <1>5, <2>1 DEF Left
<1>7. ~Calling
  BY CallingIsCall DEF Call, Abort
<1>8. CASE Refuse \/ Read \/ TransactionRead \/ ScanCollides \/ NoValidVersion
           \/ UpdateDone \/ FormatDone \/ NvmError \/ Reset
  BY <1>6, <1>8 DEF Refuse, Read, TransactionRead, ScanCollides,
     NoValidVersion, UpdateDone, FormatDone, NvmError, Reset, Raise
<1>9. CASE Start /\ data = None
  BY <1>6, <1>9 DEF Start, Raise
<1>10. CASE BeginUpdate \/ TransactionWrite \/ Commit \/ Format
            \/ (Start /\ data # None)
  <2>1. pc = "enter" /\ pc' \in {"erase", "program", "seal"}
    BY <1>10 DEF BeginUpdate, EraseAll, TransactionWrite, Commit, Format, Start, Enter
  <2>2. StepsLeft >= NUnits + 6
    BY <1>1, <1>2, <2>1 DEF Left
  <2> QED BY <1>1, <1>2, <1>3, <2>1, <2>2 DEF Left
<1>11. CASE BeginSearch
  <2>1. pc = "enter" /\ data = None /\ pc' = "scan" /\ scan'.i = 0
    BY <1>11 DEF BeginSearch
  <2> QED BY <1>1, <1>2, <2>1 DEF Left
<1>12. CASE ScanSlot
  <2>1. pc = "scan" /\ pc' = "scan" /\ scan'.i = scan.i + 1
    BY <1>12 DEF ScanSlot
  <2> QED BY <1>1, <1>2, <1>4, <2>1 DEF Left
<1>13. CASE Resolve
  <2>1. /\ pc = "scan" /\ scan.i = NSlots
        /\ data' # None
        /\ pc' \in {"enter", "version"}
    <3>1. scan.best # None /\ pc = "scan"
      BY <1>13 DEF Resolve
    <3>2. scan.best.slot \in Slots
      BY <3>1, ScanningTyped
    <3> QED BY <1>13, <3>2, NoneAssumption DEF Resolve
  <2> QED BY <1>1, <1>2, <2>1 DEF Left
<1>14. CASE EraseSlot \/ EraseArea
  <2>1. pc = "erase" /\ pc' \in {"idle", "program", "seal"}
    BY <1>14 DEF EraseSlot, EraseArea, Quit
  <2> QED BY <1>1, <1>2, <1>3, <2>1 DEF Left
<1>15. CASE ProgramUnit
  <2>1. PICK u \in todo : todo' = todo \ {u}
    BY <1>15 DEF ProgramUnit
  <2>2. Cardinality(todo') = Cardinality(todo) - 1
    BY <1>2, <2>1, FS_RemoveElement
  <2>3. pc = "program" /\ pc' \in {"idle", "program", "seal"}
    BY <1>15 DEF ProgramUnit
  <2>4. StepsLeft = 4 + Cardinality(todo) /\ Cardinality(todo) >= 1
    BY <1>1, <1>2, <1>3, <2>2, <2>3 DEF Left
  <2>5. StepsLeft' \in {0, 4, 4 + Cardinality(todo')}
    BY <1>1, <2>3 DEF Left
  <2> QED BY <1>2, <2>2, <2>4, <2>5
<1>16. CASE Seal
  <2>1. pc = "seal" /\ pc' = "version" /\ scan' = scan
    BY <1>16 DEF Seal
  <2>2. ~Repairing'
    BY <2>1 DEF Repairing, Control, MetaPcs
  <2> QED BY <1>1, <2>1, <2>2 DEF Left
<1>17. CASE WriteVersion \/ WriteSum
  <2>1. /\ scan' = scan
        /\ \/ pc = "version" /\ pc' = "sum"
           \/ pc = "sum" /\ pc' = "sum2"
    BY <1>17 DEF WriteVersion, WriteSum
  <2>2. Repairing' = Repairing
    BY <2>1 DEF Repairing
  <2> QED BY <1>1, <1>2, <2>1, <2>2 DEF Left
<1>18. CASE RepairDone
  <2>1. pc = "sum2" /\ pc' = "enter" /\ Repairing /\ data' = data /\ data # None
    BY <1>18 DEF RepairDone, ProgramSum2, Control
  <2> QED BY <1>1, <1>2, <2>1 DEF Left
<1> QED BY <1>7, <1>8, <1>9, <1>10, <1>11, <1>12, <1>13, <1>14, <1>15, <1>16,
           <1>17, <1>18 DEF Next, Step

(* Every call ends, for every size of ring and data, any flash and any     *)
(* driver: find_current_slot, its repair and the call that they interrupt  *)
(* get closer to their return with every step.                             *)
THEOREM EveryCallEnds == Spec => CallEnds
<1>1. Init => TypeOK /\ Control
  BY InitTyped
<1>2. TypeOK /\ Control /\ [Next]_vars => (TypeOK /\ Control)'
  BY NextTyped
<1>3. TypeOK /\ Control /\ (TypeOK /\ Control)' /\ [Next]_vars
        => [pc # "idle" => StepsLeft' < StepsLeft]_vars
  BY StepShortens
<1> QED BY <1>1, <1>2, <1>3, PTL DEF Spec, CallEnds
=============================================================================
