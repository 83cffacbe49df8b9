----------------------------- MODULE MCLftlArea -----------------------------
(* Small instances of an LFTL area for TLC.                                *)
EXTENDS LftlAreaStore, LftlAreaInv

(* A version word half programmed from all ones to v keeps the ones of v:  *)
(* it reads as v or more.                                                  *)
HalfProgrammedWord(v) == v..(MaxVersion + 1)

(* A version word cut in any way, which may read as any number.            *)
AnyWord(v) == VersionWords

(* A version word half erased, on flash whose words never read as another  *)
(* number in use.                                                          *)
FarWord(v) == {MaxVersion + 1}

=============================================================================
