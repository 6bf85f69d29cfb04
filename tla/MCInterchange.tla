--------------------------- MODULE MCInterchange ---------------------------
(***************************************************************************)
(* A small instance of Interchange: two characters, texts of up to four    *)
(* of them, a Fortran buffer for two and the NUL, a C buffer for one.      *)
(***************************************************************************)
EXTENDS Interchange

CONSTANTS x

Cut(s) == IF Len(s) <= MaxLen THEN s ELSE SubSeq(s, 1, MaxLen)

(* Functions that make a text shorter, longer and different.               *)
MCLib ==
  [f \in {"parent", "normal"} |->
     [s \in Text |-> IF f = "parent" THEN IF s = <<>> THEN s ELSE SubSeq(s, 1, Len(s) - 1)
                                     ELSE Cut(<<x>> \o s)]]
MCLib2   == [f \in {"join"} |-> [st \in Text \X Text |-> Cut(st[1] \o st[2])]]
MCSystem == [f \in {"get_homedir"} |-> <<x, x>>]
MCArg    == {<<x>>, <<Blank>>, <<x, Blank>>}
=============================================================================
