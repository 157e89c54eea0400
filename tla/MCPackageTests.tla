--------------------------- MODULE MCPackageTests ---------------------------
(* PackageTests for TLC: bounds on googletest, tests and command lines.     *)
EXTENDS PackageTests

CONSTANTS A, LIB, x, y

(* Between two, one of them, patched, newer than all.                                *)
Bounds == {<<1, 8, 0, 0>>, <<1, 10, 0, 0>>, <<1, 10, 0, 1>>, <<1, 14, 5, 0>>}

(* None, one or two bounds.                                                 *)
UpToTwo ==
  {r \in [Bound -> Bounds \union {Absent}] :
     \E a, b \in Bound : \A c \in Bound \ {a, b} : r[c] = Absent}

(* Exact and strict bounds.                                                 *)
Strict == {r \in UpToTwo : r["lte"] = Absent /\ r["gte"] = Absent}

Elements == {x, y, Nothing}

Text == Looks("text")
Prog == Looks("text")

(* Set, set twice, set to nothing, not of the form VAR=VALUE.               *)
Envs == {<<>>, <<Pair(A, <<x>>)>>, <<Pair(A, <<x>>), Pair(A, <<y, Nothing>>)>>,
         <<Pair(A, <<>>), Pair(LIB, <<x>>)>>, <<Text>>}

Appends == {<<>>, <<Pair(A, <<y>>)>>, <<Pair(A, <<>>)>>}

(* No command, and some with arguments that look like the runner's own.     *)
Commands == {<<>>, <<Prog>>, <<Prog, Looks("--env"), Pair(A, <<y>>)>>,
             <<Prog, Looks("--")>>, <<Prog, Looks("-h")>>}

OneDir == [env : Envs, append : Appends, dirs : {<<>>, <<y>>}, command : Commands]

(* Called by hand: nothing, no flag, no command, an empty argument.         *)
ByHand == {<<>>, <<Text, Text>>, <<Looks("--env"), Pair(A, <<x>>)>>,
           <<Looks("--env"), Pair(A, <<x>>), Looks("--")>>,
           <<Looks("--"), Prog, Looks("")>>}

(* Unset, a value, a value that ends in a separator.                        *)
Environments == [{A, LIB} -> {<<>>, <<x>>, <<x, Nothing>>}]

NoneZeroFive == {-1, 0, 5}
SomeCodes == {0, 1, 255}
SomeSignals == {1, 9, 64}
=============================================================================
