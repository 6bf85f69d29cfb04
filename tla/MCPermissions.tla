--------------------------- MODULE MCPermissions ---------------------------
(***************************************************************************)
(* Small instances of Permissions: two paths, two files.                   *)
(***************************************************************************)
EXTENDS Permissions, TLC

CONSTANTS a, b, f1, f2, p1, p2

Set(r, w, x)    == [q \in Perm |-> CASE q = "r" -> r [] q = "w" -> w [] q = "x" -> x]
Ask(n, want, bd) == [path |-> n, want |-> want, build |-> bd]

(* Wishes that agree about one permission and differ about the others, and *)
(* the call that asks for nothing.                                         *)
MCCalls ==
  {Ask(a, want, bd) : want \in {Set(1, -1, 0), Set(1, 0, 1)}, bd \in {"c", "cxx"}}
  \cup {Ask(b, Set(-1, 1, 1), bd) : bd \in {"c", "cxx"}}
  \cup {Ask(a, Set(0, 0, 0), "cxx")}

MCKind == [f \in File |-> "reg"]
(* The second file belongs to somebody else.                               *)
MCClass == (f1 :> "owner") @@ (f2 :> "group")

Modes == (f1 :> {User("r"), <<"group", "w">>}) @@ (f2 :> {<<"others", "r">>})
Named(fa, fb) == [entry |-> (a :> fa) @@ (b :> fb), mode |-> Modes]

(* Two paths of one file; one path of none, and one of another's file.    *)
MCStarts == {Named(f1, f1), Named(NoFile, f2)}

MCEnvBits == {<<"group", "w">>}
Symmetry  == Permutations(Proc)
=============================================================================
