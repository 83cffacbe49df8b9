--------------------------- MODULE LftlAreaStore ---------------------------
(***************************************************************************)
(* An LFTL area implements the all-or-nothing store: its reads return what *)
(* the store holds, and its slots, versions and repairs are invisible.     *)
(***************************************************************************)
EXTENDS LftlArea

Asked ==
  IF call.op \in UpdateOps THEN [kind |-> "update", writes |-> Request]
  ELSE IF call.op = "read" THEN [kind |-> "read", units |-> Span(call) \cap Units]
  ELSE IF call.op = "transaction_read"
    THEN [kind |-> "read_newer", units |-> Span(call) \cap Units]
  ELSE None

(* None is no request.                                                     *)
ASSUME RequestsAssumption ==
  /\ \A f \in Partial : None # [kind |-> "update", writes |-> f]
  /\ \A S \in SUBSET Units, kind \in {"read", "read_newer"} :
       None # [kind |-> kind, units |-> S]

Store == INSTANCE LftlStore WITH request <- Asked

(* Every behaviour of the area, resets and NVM errors included, is one of  *)
(* the store: reads return the committed data (or the transaction's own    *)
(* writes), and data that was read is never rolled back.                   *)
StoreSpec == Store!Spec
=============================================================================
