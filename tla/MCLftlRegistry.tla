--------------------------- MODULE MCLftlRegistry ---------------------------
(* Two areas in one flash, one in another, and memory around them.         *)
EXTENDS LftlRegistry, TLC

CONSTANTS a, b, c, p, q

Addresses == 0..13
PropsOf == a :> p @@ b :> p @@ c :> q
Flash == p :> <<1, 6>> @@ q :> <<9, 4>>
DataOf == a :> <<1, 2>> @@ b :> <<4, 1>> @@ c :> <<10, 2>>
=============================================================================
