--------------------------- MODULE MCLftlHarness ---------------------------
(* Small tests for the harness, made of the calls of the tests of test.c,  *)
(* with units of two bytes: an erasure covers two units of data and one of *)
(* metadata, an update programs as much.                                   *)
EXTENDS LftlHarness

CONSTANTS a, b, d, e

BothAreas == <<a, b>>

Op1(kind, area, writes, flash) ==
  [kind |-> kind, area |-> area, writes |-> writes, flash |-> flash]
Nothing == << >>

Write(area, f)  == Op1("write", area, f, <<6, 4, 2>>)
EraseAll        == Op1("erase_all", a, Nothing, <<6, 4, 2>>)
Start(area)     == Op1("start", area, Nothing, <<6>>)
TWrite(area, f) == Op1("transaction_write", area, f, <<2>>)
Commit1(area)   == Op1("commit", area, Nothing, <<2, 2>>)
Abort1(area)    == Op1("abort", area, Nothing, Nothing)
Raw             == Op1("raw", a, Nothing, Nothing)
Sanity          == Op1("sanity", a, Nothing, Nothing)
Check(area, f)  == Op1("verify", area, f, Nothing)

Both(x) == <<x, x>>
One(x) == <<x>>

NamedTests ==
  { \* basic_test, write_size_test
    <<Write(a, Both(d)), Check(a, Both(d)), Write(b, One(e)), Check(b, One(e))>>,
    <<Write(b, Both(e)), Write(b, One(d)), Check(b, <<d, e>>)>>,
    \* transaction_basic_test, transaction_abort_test
    <<Write(a, Both(d)), Start(a), TWrite(a, One(e)), Check(a, Both(d)),
      Commit1(a), Check(a, <<e, d>>)>>,
    <<Write(a, Both(d)), Start(a), TWrite(a, One(e)), Abort1(a),
      Check(a, Both(d))>>,
    \* erase_all_test
    <<EraseAll, Write(a, Both(e)), Check(a, Both(e)), EraseAll,
      Write(a, Both(d))>>,
    \* write_nvm_to_nvm_test_core, with and without transactions
    <<Sanity, Raw, Sanity, Write(b, One(d)), Sanity, Write(a, One(d)),
      Write(b, Both(d)), Sanity, Write(a, One(d)), Sanity>>,
    <<Raw, Start(b), TWrite(b, One(d)), Commit1(b), Sanity, Start(a),
      TWrite(a, Both(d)), Commit1(a), Sanity>>,
    \* transactions of both areas at once
    <<Start(a), TWrite(a, One(d)), Start(b), TWrite(b, One(e)), Commit1(a),
      Sanity, Raw, Commit1(b), Sanity>> }

Calls == {Write(a, One(d)), Write(b, Both(e)), EraseAll, Raw, Start(b),
          Commit1(b), Abort1(b)}

SmallTests == NamedTests \cup
  {t \in [1..2 -> Calls] : Legal(t)}
=============================================================================
