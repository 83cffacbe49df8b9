----------------------------- MODULE LftlStore -----------------------------
(***************************************************************************)
(* What an LFTL area promises to its application: one piece of data that   *)
(* changes only as a whole.  An update that power loss (or an NVM error)   *)
(* cut short stays in doubt: it may take effect once, later, and until     *)
(* then every read returns the data as it was.                             *)
(***************************************************************************)
CONSTANTS
  Units,      \* the write units of the data
  Data,       \* what a unit can hold
  Blank,      \* what a unit holds after a format or an lftl_erase_all
  None        \* absence of a content, a transaction, a request or a result

VARIABLES
  value,      \* the committed data
  pending,    \* an interrupted update that may still take effect
  txn,        \* what the open transaction has written so far
  request,    \* the update or the read being executed
  out         \* what the last completed read returned

vars == <<value, pending, txn, request, out>>

Content == [Units -> Data]
IsUpdate(f) ==
  f # None /\ DOMAIN f \subseteq Units /\ f \in [DOMAIN f -> Data]
IsRequest(r) ==
  /\ r # None
  /\ \/ r.kind = "update" /\ IsUpdate(r.writes)
     \/ r.kind \in {"read", "read_newer"} /\ r.units \subseteq Units

(* The data c with the units of the partial update f replaced.             *)
Overlay(c, f) == [u \in Units |-> IF u \in DOMAIN f THEN f[u] ELSE c[u]]

Init ==
  /\ value = [u \in Units |-> Blank]
  /\ pending = None
  /\ txn = None
  /\ request = None
  /\ out = None

Asked(kind) == request # None /\ request.kind = kind

(* What an update makes of the data.                                       *)
Goal == Overlay(value, request.writes)

Request ==
  /\ request = None
  /\ IsRequest(request')
  /\ out' = None
  /\ UNCHANGED <<value, pending, txn>>

(* An update takes effect when its call returns, and ends the transaction  *)
(* it commits.                                                             *)
Apply ==
  /\ Asked("update")
  /\ value' = Goal
  /\ pending' = None
  /\ request' = None
  /\ txn' = None
  /\ UNCHANGED out

(* A call that raises an error did not take effect, but an update may be   *)
(* left in doubt by an NVM failure.                                        *)
InDoubt == \/ pending' = pending
           \/ Asked("update") /\ pending' = Goal

Fail ==
  /\ request # None
  /\ request' = None
  /\ InDoubt
  /\ UNCHANGED <<value, txn, out>>

Crash ==
  /\ InDoubt
  /\ request' = None
  /\ txn' = None
  /\ out' = None
  /\ UNCHANGED value

Resolve ==
  /\ pending # None
  /\ value' = pending
  /\ pending' = None
  /\ UNCHANGED <<txn, request, out>>

Discard ==
  /\ pending' = None
  /\ UNCHANGED <<value, txn, request, out>>

(* out is forgotten when the next call begins.                             *)
Forget ==
  /\ out' = None
  /\ UNCHANGED <<value, pending, txn, request>>

Read ==
  /\ Asked("read")
  /\ out' = [u \in request.units |-> value[u]]
  /\ request' = None
  /\ UNCHANGED <<value, pending, txn>>

ReadNewer ==
  /\ Asked("read_newer")
  /\ txn # None
  /\ out' = [u \in request.units |-> Overlay(value, txn)[u]]
  /\ request' = None
  /\ UNCHANGED <<value, pending, txn>>

Start ==
  /\ txn = None
  /\ txn' = [u \in {} |-> Blank]
  /\ pending' = None
  /\ UNCHANGED <<value, request, out>>

(* A unit is written at most once in a transaction: nothing is rewritten.  *)
Write ==
  /\ txn # None
  /\ IsUpdate(txn')
  /\ DOMAIN txn \subseteq DOMAIN txn'
  /\ \A u \in DOMAIN txn : txn'[u] = txn[u]
  /\ UNCHANGED <<value, pending, request, out>>

Abort ==
  /\ txn' = None
  /\ UNCHANGED <<value, pending, request, out>>

(* A format blanks the data, and what a transaction that is open wrote.    *)
Format ==
  /\ value' = [u \in Units |-> Blank]
  /\ pending' = None
  /\ txn' = IF txn = None THEN None ELSE [u \in DOMAIN txn |-> Blank]
  /\ UNCHANGED <<request, out>>

Next ==
  \/ Request \/ Apply \/ Fail \/ Crash \/ Resolve \/ Discard \/ Forget
  \/ Read \/ ReadNewer \/ Start \/ Write \/ Abort \/ Format

Spec == Init /\ [][Next]_vars
=============================================================================
