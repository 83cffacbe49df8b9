----------------------------- MODULE LftlWrite -----------------------------
(***************************************************************************)
(* Writes and reads of an LFTL area, byte by byte: the merging of          *)
(* unaligned heads and tails in write_core, the units marked in the        *)
(* tracker and the units read by lftl_transaction_read.                    *)
(*                                                                         *)
(* The area has been searched, and neither power nor driver fails (LftlArea*)
(* has both, on whole units). Addresses are offsets in the area; its base  *)
(* is aligned. A call is accepted in one step and executed in another.     *)
(***************************************************************************)
EXTENDS Integers

CONSTANTS
  WriteSize,   \* nvm_props->write_size
  DataSize,    \* data_size
  MaxCalls,    \* bound: calls that write
  Erased,      \* what a byte reads as once erased
  Spoiled,     \* what a byte programmed twice reads as
  None,
  AreaSources, \* bound: sources of writes that lie in the area
  ReadSizes    \* bound: sizes that lftl_read is called with

ASSUME SizesAssumption ==
  /\ WriteSize \in Nat \ {0}
  /\ DataSize \in Nat \ {0}
  /\ DataSize % WriteSize = 0
ASSUME FlagAssumption ==
  /\ MaxCalls \in Nat /\ AreaSources \subseteq Nat /\ ReadSizes \subseteq Nat

VARIABLES
  cur,       \* the data of the current slot
  next,      \* the data of the next slot
  tracker,   \* the units marked in transaction_tracker, or None
  call,      \* the call being executed, or None
  err,       \* what the last call passed to error_handler
  spoiled,   \* the open transaction must be aborted
  calls,     \* how many writes were called
  txn,       \* history: the bytes written by the open transaction, or None
  out        \* history: the result of the last read

vars == <<cur, next, tracker, call, err, spoiled, calls, txn, out>>

Offsets == 0..(DataSize - 1)
Written == (0..MaxCalls) \X (0..DataSize)
Byte == Written \cup {Erased}
Cell == Byte \cup {Spoiled}
BytesOf(c) == c.addr .. (c.addr + c.size - 1)

Errors == {"TRANSACTION_ONGOING", "NO_TRANSACTION", "TRANSACTION_OVERWRITE",
           "BASE_MISALIGNED", "SIZE_MISALIGNED", "FIRST_NOT_IN_DATA",
           "LAST_NOT_IN_DATA"}

Trackers == SUBSET (0..(2 * DataSize))

(* A source is RAM, whose bytes no other call writes, or data of the area. *)
Sources == {None} \cup AreaSources
(* A range that ends further out is refused like one that ends at DataSize *)
(* + 1.                                                                    *)
Ranges == {r \in (0..(DataSize + 1)) \X (0..DataSize) :
             r[1] + r[2] <= DataSize + 1}

TransactionWrites == {"transaction_write", "transaction_write_any"}
Writes == TransactionWrites \cup {"basic_write"}
Calls == [op : Writes \cup {"read", "transaction_read", "commit"},
          addr : 0..(DataSize + 1), size : 0..DataSize, src : Sources]

ASSUME ValueAssumption == Erased \notin Written /\ Spoiled \notin Byte
ASSUME NoneAssumption ==
  /\ None \notin Errors /\ None \notin AreaSources
  /\ None \notin Calls
  /\ \A t \in Trackers : None # t
  /\ \A S \in SUBSET Offsets :
       /\ None \notin [S -> Byte]
       /\ None \notin [kind : {"update"}, writes : [S -> Byte]]
       /\ None \notin [kind : {"read", "read_newer"}, units : {S}]

SourceByte(c, k) == IF c.src = None THEN <<calls, k>> ELSE cur[c.src + k]

-----------------------------------------------------------------------------
(* write_core.                                                             *)

Misalignment(c) == c.addr % WriteSize
CeilDiv(n) == (n + WriteSize - 1) \div WriteSize
IsAligned(c) == Misalignment(c) = 0 /\ c.size % WriteSize = 0

(* nvm_write of bytes (a function from 0) at offset.                       *)
NvmWrite(cells, offset, bytes) ==
  [b \in Offsets |->
     IF b - offset \in DOMAIN bytes
       THEN IF cells[b] = Erased THEN bytes[b - offset] ELSE Spoiled
       ELSE cells[b]]

(* The local variables once the arguments are aligned on write units.      *)
Locals(c, cells) ==
  [offset |-> c.addr - Misalignment(c), size |-> c.size,
   aligned |-> CeilDiv(c.size + Misalignment(c)) * WriteSize,
   src |-> 0, cells |-> cells]

(* The units before the write range are copied.                            *)
Prefix(w) ==
  [w EXCEPT !.cells = NvmWrite(@, 0, [k \in 0..(w.offset - 1) |-> cur[k]])]

(* Mutant: a small write does not keep the end of the unit.                *)
HeadUnmerged(c, w) ==
  LET m == Misalignment(c)
      consumed == IF WriteSize - m > w.size THEN w.size ELSE WriteSize - m
      wu == [k \in 0..(WriteSize - 1) |->
               IF k \in m..(m + consumed - 1) THEN SourceByte(c, w.src + k - m)
               ELSE IF k < m THEN cur[w.offset + k] ELSE Erased]
  IN  IF m = 0 THEN w
      ELSE [offset |-> w.offset + WriteSize, size |-> w.size - consumed,
            aligned |-> w.aligned - WriteSize, src |-> w.src + consumed,
            cells |-> NvmWrite(w.cells, w.offset, wu)]

(* The first unit when the address is unaligned. A small write ends in it. *)
Head(c, w) ==
  LET m == Misalignment(c)
      consumed == IF WriteSize - m > w.size THEN w.size ELSE WriteSize - m
      wu == [k \in 0..(WriteSize - 1) |->
               IF k \in m..(m + consumed - 1) THEN SourceByte(c, w.src + k - m)
               ELSE cur[w.offset + k]]
  IN  IF m = 0 THEN w
      ELSE [offset |-> w.offset + WriteSize, size |-> w.size - consumed,
            aligned |-> w.aligned - WriteSize, src |-> w.src + consumed,
            cells |-> NvmWrite(w.cells, w.offset, wu)]

(* The whole units, without the last one if it is not full.                *)
Body(c, w) ==
  LET whole == IF w.size # w.aligned THEN w.aligned - WriteSize ELSE w.aligned
  IN  [w EXCEPT !.aligned = whole,
                !.cells = NvmWrite(@, w.offset, [k \in 0..(whole - 1) |->
                                                   SourceByte(c, w.src + k)])]

(* The last unit, completed with the current data.                         *)
Tail(c, w) ==
  LET last == w.offset + w.aligned
      part1 == w.size % WriteSize
      wu == [k \in 0..(WriteSize - 1) |->
               IF k < part1 THEN SourceByte(c, w.src + w.aligned + k)
               ELSE cur[last + k]]
  IN  IF w.size = w.aligned THEN w
      ELSE [w EXCEPT !.cells = NvmWrite(@, last, wu)]

(* The units after the write range are copied.                             *)
Suffix(end, w) ==
  [w EXCEPT !.cells =
     NvmWrite(@, end, [k \in 0..(DataSize - end - 1) |-> cur[end + k]])]

Blank == [b \in Offsets |-> Erased]

(* The next slot after a write inside or outside of a transaction.         *)
TransactionCore(c) == Tail(c, Body(c, Head(c, Locals(c, next)))).cells
BasicCore(c) ==
  LET w == Locals(c, Blank)
  IN  Suffix(w.offset + w.aligned,
             Tail(c, Body(c, Head(c, Prefix(w))))).cells

-----------------------------------------------------------------------------
(* The checks, in the code's order.                                        *)

(* Mutant: a last unit that is not full is not marked.                     *)
SpanFloor(c) ==
  (c.addr \div WriteSize) ..
    ((c.addr \div WriteSize) + (c.size \div WriteSize) - 1)

(* The units a transaction write marks.                                    *)
Span(c) ==
  LET first == c.addr \div WriteSize
      count == IF c.op = "transaction_write" \/ IsAligned(c)
                 THEN c.size \div WriteSize
                 ELSE CeilDiv(c.size + Misalignment(c))
  IN  first .. (first + count - 1)

(* The marking loop stops at the first unit that is marked already.       *)
Marked(c) == {u \in Span(c) : \A v \in Span(c) : v <= u => v \notin tracker}

(* lftl_basic_write and lftl_read of no byte do nothing at all.            *)
Void(c) == c.op \in {"basic_write", "read"} /\ c.size = 0

Check(c) ==
  LET limit == Locals(c, Blank).offset + Locals(c, Blank).aligned
      source == IF c.src = None THEN 0 ELSE c.src + c.size
  IN  IF Void(c) THEN None
      ELSE IF /\ c.op \in TransactionWrites \cup {"commit", "transaction_read"}
              /\ tracker = None
        THEN "NO_TRANSACTION"
      ELSE IF c.op \in TransactionWrites /\ Span(c) \cap tracker # {}
        THEN "TRANSACTION_OVERWRITE"
      ELSE IF c.op = "transaction_write" /\ Misalignment(c) # 0
        THEN "BASE_MISALIGNED"
      ELSE IF c.op = "transaction_write" /\ c.size % WriteSize # 0
        THEN "SIZE_MISALIGNED"
      ELSE IF \/ c.op \in Writes /\ Locals(c, Blank).offset > DataSize
              \/ c.op = "read" /\ c.addr > DataSize
        THEN "FIRST_NOT_IN_DATA"
      ELSE IF \/ c.op \in Writes /\ (limit > DataSize \/ source > DataSize)
              \/ c.op = "read" /\ c.addr + c.size > DataSize
        THEN "LAST_NOT_IN_DATA"
      ELSE IF c.op = "basic_write" /\ tracker # None THEN "TRANSACTION_ONGOING"
      ELSE None

-----------------------------------------------------------------------------
(* Calls.                                                                  *)

(* The application takes the result of a call before it makes another one. *)
Idle == call = None /\ err = None /\ out = None

TakeResult ==
  /\ err # None \/ out # None
  /\ err' = None
  /\ out' = None
  /\ UNCHANGED <<cur, next, tracker, call, spoiled, calls, txn>>

(* After a write was refused a transaction is not committed nor read: the  *)
(* units that were marked for nothing would be taken for written.          *)
Call(op, range, src) ==
  /\ call' = [op |-> op, addr |-> range[1], size |-> range[2], src |-> src]
  /\ UNCHANGED <<cur, next, tracker, err, spoiled, txn, out>>

CallWrite ==
  /\ Idle
  /\ calls < MaxCalls
  /\ calls' = calls + 1
  /\ \E op \in Writes, range \in Ranges, src \in Sources : Call(op, range, src)

CallCommit ==
  /\ Idle
  /\ ~spoiled
  /\ Call("commit", <<0, 0>>, None)
  /\ UNCHANGED calls

CallRead ==
  /\ Idle
  /\ \E range \in {r \in Ranges : r[2] \in ReadSizes} : Call("read", range, None)
  /\ UNCHANGED calls

(* lftl_transaction_read has no range check: it is called inside the data, *)
(* at any address and size.                                                *)
CallTransactionRead ==
  /\ Idle
  /\ ~spoiled
  /\ \E range \in Ranges :
       /\ range[1] + range[2] <= DataSize
       /\ Call("transaction_read", range, None)
  /\ UNCHANGED calls

Return == call' = None

(* A refused transaction write has marked units already.                   *)
Refuse ==
  /\ call # None
  /\ Check(call) # None
  /\ Return
  /\ err' = Check(call)
  /\ IF call.op \in TransactionWrites /\ tracker # None
       THEN tracker' = tracker \cup Marked(call) /\ spoiled' = TRUE
       ELSE UNCHANGED <<tracker, spoiled>>
  /\ UNCHANGED <<cur, next, calls, txn, out>>

Execute(op) == call # None /\ call.op = op /\ Check(call) = None /\ Return

Nothing ==
  /\ call # None /\ Void(call)
  /\ Return
  /\ out' = IF call.op = "read" THEN [b \in {} |-> Erased] ELSE out
  /\ UNCHANGED <<cur, next, tracker, err, spoiled, calls, txn>>

(* The next slot becomes the current one; another one is erased before it  *)
(* is written.                                                             *)
BasicWrite ==
  /\ Execute("basic_write")
  /\ ~Void(call)
  /\ cur' = BasicCore(call)
  /\ next' = Blank
  /\ UNCHANGED <<tracker, err, spoiled, calls, txn, out>>

(* lftl_transaction_start                                                  *)
Start ==
  /\ Idle
  /\ tracker = None
  /\ tracker' = {}
  /\ next' = Blank
  /\ spoiled' = FALSE
  /\ txn' = [b \in {} |-> Erased]
  /\ UNCHANGED <<cur, call, err, calls, out>>

(* lftl_transaction_write and lftl_transaction_write_any                   *)
TransactionWrite ==
  /\ \E op \in TransactionWrites : Execute(op)
  /\ next' = TransactionCore(call)
  /\ tracker' = tracker \cup Marked(call)
  /\ txn' = [b \in DOMAIN txn \cup BytesOf(call) |->
               IF b \in BytesOf(call) THEN SourceByte(call, b - call.addr)
               ELSE txn[b]]
  /\ UNCHANGED <<cur, err, spoiled, calls, out>>

(* Mutant: the units the transaction wrote are copied too.                 *)
CommitAll ==
  /\ Execute("commit")
  /\ cur' = [b \in Offsets |-> IF next[b] = Erased THEN cur[b] ELSE Spoiled]
  /\ next' = Blank
  /\ tracker' = None
  /\ txn' = None
  /\ UNCHANGED <<err, spoiled, calls, out>>

(* lftl_transaction_commit copies the units that are not marked.           *)
Commit ==
  /\ Execute("commit")
  /\ cur' = [b \in Offsets |->
               IF b \div WriteSize \in tracker THEN next[b]
               ELSE IF next[b] = Erased THEN cur[b] ELSE Spoiled]
  /\ next' = Blank
  /\ tracker' = None
  /\ txn' = None
  /\ UNCHANGED <<err, spoiled, calls, out>>

Abort ==
  /\ Idle
  /\ tracker' = None
  /\ spoiled' = FALSE
  /\ txn' = None
  /\ UNCHANGED <<cur, next, call, err, calls, out>>

Read ==
  /\ Execute("read")
  /\ ~Void(call)
  /\ out' = [b \in BytesOf(call) |-> cur[b]]
  /\ UNCHANGED <<cur, next, tracker, err, spoiled, calls, txn>>

(* lftl_transaction_read delivers size / WriteSize units, from the one that*)
(* holds the address on: dst begins with the first byte of that unit, and  *)
(* the rest of dst, all of it when size is less than a unit, is not written*)
Delivered(c) ==
  LET first == c.addr - Misalignment(c)
  IN  first .. (first + (c.size \div WriteSize) * WriteSize - 1)

TransactionRead ==
  /\ Execute("transaction_read")
  /\ out' = [b \in Delivered(call) |->
               IF b \div WriteSize \in tracker THEN next[b] ELSE cur[b]]
  /\ UNCHANGED <<cur, next, tracker, err, spoiled, calls, txn>>

Init ==
  /\ cur = [b \in Offsets |-> <<0, b>>]
  /\ next = Blank
  /\ tracker = None /\ call = None /\ err = None
  /\ spoiled = FALSE /\ calls = 0
  /\ txn = None /\ out = None

Next ==
  \/ TakeResult \/ CallWrite \/ CallCommit \/ CallRead
  \/ CallTransactionRead
  \/ Refuse \/ Nothing \/ BasicWrite \/ Start \/ TransactionWrite \/ Commit
  \/ Abort \/ Read \/ TransactionRead

Spec == Init /\ [][Next]_vars
-----------------------------------------------------------------------------
(* Properties.                                                             *)

(* Type correctness; the current slot never holds a spoiled byte.          *)
TypeOK ==
  /\ cur \in [Offsets -> Byte]
  /\ next \in [Offsets -> Cell]
  /\ tracker = None \/ tracker \in Trackers
  /\ call = None \/ call \in Calls
  /\ err \in Errors \cup {None}
  /\ spoiled \in BOOLEAN
  /\ calls \in 0..MaxCalls
  /\ txn = None \/ (DOMAIN txn \subseteq Offsets /\ txn \in [DOMAIN txn -> Byte])
  /\ out = None \/ (DOMAIN out \subseteq Offsets
                    /\ out \in [DOMAIN out -> Cell])

Asked ==
  IF call = None THEN None
  ELSE IF call.op = "basic_write" /\ Check(call) = None
    THEN [kind |-> "update",
          writes |-> [b \in BytesOf(call) |-> SourceByte(call, b - call.addr)]]
  ELSE IF call.op = "commit" /\ tracker # None
    THEN [kind |-> "update", writes |-> txn]
  ELSE IF call.op = "read" /\ Check(call) = None
    THEN [kind |-> "read", units |-> BytesOf(call)]
  ELSE IF call.op = "transaction_read" /\ Check(call) = None
    THEN [kind |-> "read_newer",
          units |-> IF IsAligned(call) THEN BytesOf(call) ELSE Delivered(call)]
  ELSE None

Store == INSTANCE LftlStore WITH
  Units <- Offsets, Data <- Cell, Blank <- Erased,
  value <- cur, pending <- None, request <- Asked

(* Byte by byte, every call does what the store allows: a write changes    *)
(* the bytes it names and no other, lftl_read returns the bytes it names,  *)
(* and lftl_transaction_read does when it names whole units. Of other      *)
(* ranges it returns the whole units of the size, rounded down, from the   *)
(* unit of the address on (the header asks for neither alignment).         *)
StoreSteps == [][Store!Next]_(Store!vars)

(* The tracker says which write units the driver has programmed, and a     *)
(* commit copies the others: a unit that is not marked is erased, whatever *)
(* was refused, and as long as no write was refused the marked ones are    *)
(* programmed. (A write that is refused has marked its units already.)     *)
TrackerExact ==
  tracker # None =>
    \A b \in Offsets :
      /\ b \div WriteSize \notin tracker => next[b] = Erased
      /\ b \div WriteSize \in tracker /\ ~spoiled => next[b] # Erased

(* No byte is programmed twice after an erasure.                           *)
ProgrammedOnce == \A b \in Offsets : next[b] # Spoiled /\ cur[b] # Spoiled
=============================================================================
