---------------------------- MODULE MCTestRunner ----------------------------
(* TestRunner for TLC: tests with two library directories.                  *)
EXTENDS TestRunner

CONSTANTS A, LIB, x, y

Elements == {x, y, Nothing}

TwoDirs ==
  [env     : {<<>>, <<Pair(A, <<x>>)>>},
   append  : {<<>>, <<Pair(A, <<y>>)>>},
   dirs    : {<<x, y>>},
   command : {<<Looks("text")>>}]

NoDirect == {}

Environments == [{A, LIB} -> {<<>>, <<x>>, <<x, Nothing>>}]

SomeCodes == {0, 1, 255}
SomeSignals == {1, 9, 64}
=============================================================================
