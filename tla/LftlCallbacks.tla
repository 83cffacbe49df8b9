--------------------------- MODULE LftlCallbacks ---------------------------
(***************************************************************************)
(* What lean-ftl asks of the driver of a flash (nvm_erase_t, nvm_write_t   *)
(* in lean-ftl.h), and what LftlArea takes for granted: an operation works *)
(* through its range in order, touches nothing else, and when it says that *)
(* it succeeded the whole range is done.  Power may be lost in the middle. *)
(***************************************************************************)
EXTENDS Integers

CONSTANTS
  N,          \* the flash has the write units 0..N - 1
  PageUnits   \* units in a page

Units == 0..(N - 1)

(* What a unit holds: something older, nothing, what an operation that was *)
(* cut or has failed left in it, or unit k of the source of the last write.*)
Old == -3
Bad == -2
Blank == -1
CellValues == {Old, Bad, Blank} \cup Units
NoOp == [kind |-> "none", first |-> 0, count |-> 0, done |-> 0,
         failed |-> FALSE]

VARIABLES
  cells,   \* what the units hold
  op,      \* the operation in progress: its kind and range, the units that
           \* are done, and whether the flash has reported an error
  result   \* what the last call returned: "none", "ok" or "error"

vars == <<cells, op, result>>

(* What the operation makes of unit u of its range.                        *)
Goal(u) == IF op.kind = "erase" THEN Blank ELSE u - op.first

InRange(u) == op.first <= u /\ u < op.first + op.count
Aged(c) == [u \in Units |-> IF c[u] \in Units THEN Old ELSE c[u]]

(* What is being erased or programmed: a page, or a unit.                  *)
InFlight(u) ==
  LET at == op.first + op.done
  IN  at <= u /\ u < at + (IF op.kind = "erase" THEN PageUnits ELSE 1)

Init ==
  /\ cells \in [Units -> {Old, Blank}]
  /\ op = NoOp
  /\ result = "none"

Begin ==
  /\ op = NoOp
  /\ op'.kind \in {"erase", "write"}
  /\ op'.first >= 0 /\ op'.first + op'.count <= N
  /\ op'.done = 0 /\ op'.failed = FALSE
  /\ result' = "none"
  /\ cells' = Aged(cells)

(* A call that is refused, or has nothing to do.                           *)
Decline ==
  /\ op = NoOp
  /\ op' = NoOp
  /\ result' \in {"ok", "error"}
  /\ UNCHANGED cells

(* The next units of the range are done.                                   *)
Complete ==
  /\ op # NoOp
  /\ op' = [op EXCEPT !.done = op'.done]
  /\ op.done < op'.done /\ op'.done <= op.count
  /\ cells' =
       [u \in Units |->
          IF op.first + op.done <= u /\ u < op.first + op'.done THEN Goal(u)
          ELSE cells[u]]
  /\ UNCHANGED result

(* The flash reports an error: the rest of the range is not to be relied   *)
(* upon.                                                                   *)
Falter ==
  /\ op # NoOp
  /\ op' = [kind |-> op.kind, first |-> op.first, count |-> op.count,
            done |-> op'.done, failed |-> TRUE]
  /\ \A u \in Units :
       \/ cells'[u] = cells[u]
       \/ InRange(u) /\ cells'[u] \in {Goal(u), Bad}
  /\ UNCHANGED result

Succeed ==
  /\ op # NoOp
  /\ \A u \in Units : InRange(u) => cells[u] = Goal(u)
  /\ op' = NoOp
  /\ result' = "ok"
  /\ UNCHANGED cells

Fail ==
  /\ op # NoOp
  /\ op.failed
  /\ op' = NoOp
  /\ result' = "error"
  /\ UNCHANGED cells

(* Power is lost: what was being erased or programmed is neither one thing *)
(* nor the other.                                                          *)
Cut ==
  /\ op' = NoOp
  /\ result' = "none"
  /\ \A u \in Units :
       \/ cells'[u] = cells[u]
       \/ InFlight(u) /\ InRange(u) /\ cells'[u] = Bad

Next == Begin \/ Decline \/ Complete \/ Falter \/ Succeed \/ Fail \/ Cut

Spec == Init /\ [][Next]_vars
=============================================================================
