--------------------------- MODULE MCResolutions ---------------------------
(***************************************************************************)
(* Small instances of Resolutions.  /a and /a/b are directories, /l leads  *)
(* to a/m, /a/m to b, and /a/o to itself; "X" is "x" in lower case.        *)
(***************************************************************************)
EXTENDS Resolutions

CONSTANTS root, a, b, l, m, o, f, t

MCUp     == (root :> root) @@ (a :> root) @@ (b :> a)
MCNameOf == (root :> "a") @@ (a :> "a") @@ (b :> "b")
Rel(ns)  == [abs |-> FALSE, names |-> ns]
MCTarget == (l :> Rel(<<"a", "m">>)) @@ (m :> Rel(<<"b">>)) @@ (o :> Rel(<<"o">>))
MCHome   == Absolute(<<"a">>)
MCName   == {"a", "b", "l", "m", "o", "n", "~", "X", "x"}
MCLower  == [n \in MCName |-> IF n = "X" THEN "x" ELSE n]

Empty0 == [n \in MCName |-> None]
MCTree(dk, at, inRoot, inA, inB) ==
  [child |-> (root :> inRoot) @@ (a :> inA) @@ (b :> inB), disk |-> dk, cwd |-> at]

WithAll(dk, at) ==
  MCTree(dk, at, [Empty0 EXCEPT !["a"] = a, !["l"] = l],
         [Empty0 EXCEPT !["b"] = b, !["m"] = m, !["o"] = o, !["n"] = f], Empty0)
MCTrees ==
  {WithAll("sensitive", d) : d \in {root, a, b}}
  \cup {[t1 EXCEPT !.child[root]["x"] = f] : t1 \in {WithAll("folds", root), WithAll("tells", a)}}
  \cup {MCTree("sensitive", b, [Empty0 EXCEPT !["a"] = a], Empty0, Empty0)}

Paths == {Rel(<<>>), Rel(<<"b">>), Rel(<<"..">>), Rel(<<"a", "n">>), Rel(<<"l", "..", "n">>),
          Rel(<<"b", "x", "..", "..", "l">>), Rel(<<"m", "..">>), Rel(<<"o", "n">>), Rel(<<"~", "n">>),
          Rel(<<"x", "..", "l">>), Rel(<<"..", "b">>), Rel(<<"~", "..", "b">>),
          Absolute(<<"l", "..">>), Absolute(<<"l", "x">>), Absolute(<<"l", "..", "..", "X">>),
          Absolute(<<"a", "n", "b">>)}

Call0(op, bd, st, p) == [op |-> op, build |-> bd, strict |-> st, path |-> p, base |-> Rel(<<"l">>)]
MCCalls ==
  {Call0(op, bd, st, p) : op \in {"canonical", "resolve"}, bd \in {"c", "cxx"}, st \in BOOLEAN,
                          p \in Paths \cup {Nothing}}
  \cup {Call0("realpath", "c", FALSE, p) : p \in Paths}
  \cup {Call0("get_cwd", "c", FALSE, Nothing)}
  \cup {Call0("set_cwd", "c", FALSE, p) : p \in {Rel(<<"l">>), Rel(<<"o">>), Nothing}}
  \cup {[Call0(op, "cxx", FALSE, p) EXCEPT !.base = q] :
          op \in {"relative_to", "proximate_to"},
          p \in {Rel(<<"b", "x">>), Absolute(<<"a", "n">>), Rel(<<"..", "x">>)},
          q \in {Rel(<<"l">>), Absolute(<<"l", "x">>), Rel(<<"x">>), Rel(<<"o">>),
                Rel(<<"x", "..", "..">>)}}
  \cup {Call0("relative_to", "c", FALSE, Rel(<<>>))}
  \cup {Call0("is_case_sensitive", "c", FALSE, p) :
          p \in {Absolute(<<"a">>), Rel(<<>>), Rel(<<"l">>), Rel(<<"o">>), Nothing}}

MCChanges == {<<root, "l", None>>, <<a, "b", None>>, <<a, "b", l>>, <<a, "n", None>>, <<root, "x", o>>}
=============================================================================
