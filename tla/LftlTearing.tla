---------------------------- MODULE LftlTearing ----------------------------
(***************************************************************************)
(* The tearing emulator of the Linux target (linux-accessors.c): it counts *)
(* the bytes that the flash operations program or erase, and cuts the one  *)
(* that reaches the target it was given.                                   *)
(***************************************************************************)
EXTENDS Integers

CONSTANTS
  WriteSize,  \* nvm_write_size
  NoTarget    \* tearing_sim_target_cnt = -1

ASSUME WriteSizeAssumption == WriteSize \in Nat \ {0}

VARIABLES
  cnt,   \* tearing_sim_cnt
  stop   \* tearing_sim_target_cnt

(* tearing_sim_init.                                                       *)
Disarm == cnt' = 0 /\ stop' = NoTarget

(* tearing_sim_set_target.                                                 *)
SetTarget(i) == cnt' = 0 /\ stop' = i * WriteSize

(* tearing_sim_get_max_target.                                             *)
MaxTarget == cnt \div WriteSize

(* Mutant: a torn operation is torn from its start.                        *)
TearingSizeWhole(size) ==
  IF stop = NoTarget \/ cnt + size <= stop THEN 0 ELSE size

(* tearing_size: how many bytes of the operation come too late.            *)
TearingSize(size) ==
  IF stop = NoTarget \/ cnt + size <= stop THEN 0 ELSE cnt + size - stop

(* The loop of tearing_sim, from size - tsize up to tsize: the bytes of    *)
(* the operation that it inverts.                                          *)
Corrupted(size, tsize) == (size - tsize)..(tsize - 1)

(* nvm_write and nvm_erase: the counters.  A torn operation returns        *)
(* SIMULATED_TEARING.                                                      *)
Operate(size) ==
  IF TearingSize(size) = 0 THEN cnt' = cnt + size /\ UNCHANGED stop
  ELSE Disarm
=============================================================================
