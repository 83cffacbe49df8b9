---------------------------- MODULE LftlAreaInv ----------------------------
(***************************************************************************)
(* The inductive invariant behind AntiTearing: where each call stands,     *)
(* what the next slot holds meanwhile, and why no other slot can be        *)
(* elected by a search.  LftlAreaTheorems proves it.                       *)
(***************************************************************************)
EXTENDS LftlArea

(* What the library needs from flash and driver.                           *)
SoundFlash ==
  /\ StableReads
  /\ ~ReprogramDisturbs
  /\ ~WeakErase
  /\ {"repair", "reread"} \cap FaultyOps = {}
  /\ ~StrayErase

Clean == Val \cup {Blank}
MetaPcs == {"version", "sum", "sum2"}
FlashPcs == {"erase", "program", "seal"} \cup MetaPcs

(* How the RAM variables fit the place the call has reached.               *)
Control ==
  /\ pc = "idle" <=> call.op = "none"
  /\ pc = "scan" => data = None
  /\ pc = "scan" <=> scan # None /\ ~Repairing
  /\ Repairing => pc \in MetaPcs /\ data # None
  /\ scan # None => call.op \in Resolves
  /\ pc \in MetaPcs => meta # None
  /\ pc \in FlashPcs => call.op = "format" \/ data # None
  /\ pc = "erase" => call.op \in {"basic_write", "erase_all", "start", "format"}
  /\ pc = "program" => /\ call.op \in {"basic_write", "transaction_write", "commit"}
                       /\ todo # {}
  /\ pc \in {"seal"} \cup MetaPcs => Repairing \/ call.op \in UpdateOps \cup {"format"}
  /\ ~StrayErase =>
       /\ scan # None => call.op \in Searches
       /\ call.op \in TransactionOps \ {"start"} /\ tracker # None => data # None
       /\ tracker # None => data # None \/ spoiled
  /\ call.op = "start" /\ pc = "erase" => tracker = {}
  /\ call.op = "transaction_write" /\ pc = "program" => Span(call) \subseteq Units
  /\ formatted = "formatting" => call.op \in {"none", "format"}
  /\ call.op = "format" /\ pc # "enter" => formatted = "formatting"
  /\ pc = "erase" => todo = IF call.op = "basic_write" THEN Units ELSE {}
  /\ pc \in {"idle", "enter", "scan", "seal"} \cup MetaPcs => todo = {}

-----------------------------------------------------------------------------
(* The slots, on a formatted area whose current version is vc.             *)

Tuples(s) == nvm[s].sum \cap Sums
Next1 == NextSlot(cur)

CurrentSound(vc) ==
  /\ vc \in 1..MaxVersion
  /\ Holds(cur, value, vc)
  /\ value \in [Units -> Clean]
  /\ pending # None => pending \in [Units -> Clean]

(* Other slots are older, or are the update in doubt.                      *)
OthersOlder(vc) ==
  \A s \in Slots \ {cur} : \A x \in Tuples(s) :
    \/ x[2] < vc
    \/ /\ s = Next1
       /\ x[2] = vc + 1 /\ vc < MaxVersion
       /\ x[1] \in InDoubt

(* A search elects the update in doubt sound or not at all: when it can be *)
(* confirmed by checksum2 its checksum is sound, and a unit that was hit by *)
(* a later erasure that was cut no longer reads as the update.             *)
DoubtSound(vc) ==
  \A x \in Tuples(Next1) :
    x[2] = vc + 1 =>
      /\ Sound(nvm[Next1].version, vc + 1)
      /\ x \in nvm[Next1].sum2 => Sound(nvm[Next1].sum, x)
      /\ \A u \in Units :
           \/ Sound(nvm[Next1].data[u], x[1][u])
           \/ x[1][u] # Blank /\ nvm[Next1].data[u] \subseteq {Blank, Garbage}

RoomForVersion(vc) ==
  call.op \in UpdateOps =>
    /\ vc < MaxVersion
    /\ pc \in {"enter", "scan"} \/ Repairing =>
         \A s \in Slots : \A x \in Tuples(s) : x[2] < MaxVersion

(* A search has kept a slot it may elect, at least as new as the current   *)
(* one when it has passed it.                                              *)
ScanProgress(vc) ==
  pc = "scan" =>
    /\ scan.best = None => scan.max = 0
    /\ scan.best # None =>
         LET r == scan.best.reading
         IN  /\ r \in Readings(nvm[scan.best.slot])
             /\ IntegrityOk(r)
             /\ r.version = scan.max
             /\ scan.max # InvalidVersion
    /\ cur < scan.i => scan.best # None /\ scan.max >= vc

(* A repair writes again what the elected slot already holds.              *)
RepairProgress(vc) ==
  Repairing =>
    \/ /\ data = cur
       /\ meta = [version |-> vc, sum |-> <<value, vc>>]
    \/ /\ data = Next1
       /\ pending # None
       /\ vc < MaxVersion
       /\ call.op \in UpdateOps => vc + 1 < MaxVersion
       /\ meta = [version |-> vc + 1, sum |-> <<pending, vc + 1>>]
       /\ Sound(nvm[Next1].version, vc + 1)
       /\ <<pending, vc + 1>> \in nvm[Next1].sum
       /\ pc = "sum2" => Sound(nvm[Next1].sum, <<pending, vc + 1>>)
       /\ \A u \in Units : Sound(nvm[Next1].data[u], pending[u])

DataSettled == data \in {None, cur} \/ Repairing

-----------------------------------------------------------------------------
(* The next slot during updates and transactions.                          *)

MetaErased(s) == /\ Sound(nvm[s].version, ErasedVersion)
                 /\ Sound(nvm[s].sum, Blank)
                 /\ Sound(nvm[s].sum2, Blank)

(* A transaction is open and none of its calls failed.                     *)
Open == tracker # None /\ ~spoiled /\ ~(call.op = "start" /\ pc = "erase")

TxnProgress ==
  /\ call.op \in TransactionOps \ {"start"} =>
       ~spoiled /\ (pc \in FlashPcs => tracker # None)
  /\ call.op \in Searches /\ pc \in FlashPcs => ~Open

(* The next slot then holds what the transaction wrote and nothing else.   *)
WrittenSoFar(u) ==
  IF u \in DOMAIN txn THEN txn[u]
  ELSE IF pc = "program" /\ u \in Span(call) \ todo THEN call.val ELSE Blank

TxnSlot ==
  Open =>
    /\ txn \in Partial
    /\ \A u \in DOMAIN txn : txn[u] \in Clean
    /\ IF call.op = "transaction_write" /\ pc = "program"
         THEN /\ tracker = DOMAIN txn \cup Span(call)
              /\ Span(call) \cap DOMAIN txn = {}
              /\ todo \subseteq Span(call)
         ELSE tracker = DOMAIN txn
    /\ pc \notin {"program", "seal"} \cup MetaPcs \/ call.op = "transaction_write" =>
          /\ MetaErased(Next1)
          /\ \A u \in Units : Sound(nvm[Next1].data[u], WrittenSoFar(u))

(* An update in progress: the next slot holds what was programmed so far.  *)
UpdateProgress(vc) ==
  call.op \in UpdateOps /\ ~Repairing /\ pc \in FlashPcs \ {"erase"} =>
    /\ call.op = "commit" => Open /\ todo \cap DOMAIN txn = {}
    /\ \A u \in Units :
         Sound(nvm[Next1].data[u], IF u \in todo THEN Blank ELSE Goal[u])
    /\ Sound(nvm[Next1].version,
             IF pc \in {"sum", "sum2"} THEN vc + 1 ELSE ErasedVersion)
    /\ Sound(nvm[Next1].sum,
             IF pc = "sum2" THEN <<Goal, vc + 1>> ELSE Blank)
    /\ Sound(nvm[Next1].sum2, Blank)
    /\ pc \in MetaPcs => meta = [version |-> vc + 1, sum |-> <<Goal, vc + 1>>]

(* A format in progress.                                                   *)
FormatProgress ==
  call.op = "format" /\ pc \in {"seal"} \cup MetaPcs =>
    /\ data = 0
    /\ \A s \in Slots \ {0} : nvm[s] = ErasedSlot
    /\ \A u \in Units : Sound(nvm[0].data[u], Blank)
    /\ Sound(nvm[0].version, IF pc \in {"sum", "sum2"} THEN 1 ELSE ErasedVersion)
    /\ Sound(nvm[0].sum, IF pc = "sum2" THEN <<BlankContent, 1>> ELSE Blank)
    /\ Sound(nvm[0].sum2, Blank)
    /\ pc \in MetaPcs => meta = [version |-> 1, sum |-> <<BlankContent, 1>>]

(* Before its first format an area is erased and no search succeeds; only  *)
(* a transaction that was open before a format is open during it.          *)
NotFormatted ==
  /\ formatted = "never" => tracker = None \/ spoiled
  /\ formatted = "formatting" /\ tracker # None /\ ~spoiled =>
       txn \in Partial /\ tracker = DOMAIN txn
  /\ formatted = "never" =>
       /\ nvm = NeverWritten
       /\ data = None
       /\ scan # None => scan.best = None

Safe(vc) ==
  /\ CurrentSound(vc)
  /\ OthersOlder(vc)
  /\ DoubtSound(vc)
  /\ RoomForVersion(vc)
  /\ ScanProgress(vc)
  /\ RepairProgress(vc)
  /\ DataSettled
  /\ TxnProgress
  /\ TxnSlot
  /\ UpdateProgress(vc)

(* The inductive invariant, for a library used on sound flash.             *)
IInv ==
  /\ TypeOK
  /\ Control
  /\ NotFormatted
  /\ FormatProgress
  /\ formatted = "done" => \E vc \in VersionWords : Safe(vc)
=============================================================================
