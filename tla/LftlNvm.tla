------------------------------ MODULE LftlNvm ------------------------------
(***************************************************************************)
(* The physical flash under lean-ftl, as its three callbacks let it be     *)
(* seen (nvm_erase_t, nvm_write_t, nvm_read_t of lean-ftl.h).              *)
(*                                                                         *)
(* A cell holds one word that is programmed as a whole: a write unit of    *)
(* data, a version, a checksum.  Flash that lost power in the middle of an *)
(* operation is neither erased nor programmed: a later read may return the *)
(* old content, the new content or something else, and may answer          *)
(* differently after every reset.  So a cell is modelled as the SET of     *)
(* values a read may return.  A cell with one member is a sound cell.      *)
(***************************************************************************)
CONSTANTS
  Blank,       \* what an erased data unit or checksum reads as
  Garbage,     \* what a damaged data unit or checksum may read as
  ReprogramDisturbs,
               \* can a program pulse that is cut weaken a sound cell that
               \* already holds the value being programmed?
  WeakErase    \* can a word whose erasure was cut still read as before?

Sound(cell, x) == cell = {x}

(* A completed program pulse. It succeeds on an erased cell, on a cell that *)
(* was on its way to the same value, and on one that holds it; it spoils    *)
(* any other, since flash programs bits in one direction only.              *)
Programmed(cell, erased, x, bad) ==
  IF cell = {erased} \/ x \in cell THEN {x} ELSE bad

(* A program pulse cut by a power loss or reported as failed.               *)
HalfProgrammed(cell, x, bad) ==
  IF cell = {x} /\ ~ReprogramDisturbs THEN cell ELSE cell \cup {x} \cup bad

(* An erase pulse cut the same way. An erased cell stays erased. A weak     *)
(* erasure may also leave a cell that still reads as before.                *)
HalfErased(cell, erased, bad) ==
  IF cell = {erased} THEN cell
  ELSE {erased} \cup bad \cup (IF WeakErase THEN cell ELSE {})
=============================================================================
