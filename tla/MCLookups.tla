----------------------------- MODULE MCLookups -----------------------------
(***************************************************************************)
(* Small instances of Lookups: three paths, the last of them "/tmp" and    *)
(* the place of the program in "/"; five objects, of which two files share *)
(* an inode number, so that one can come when the other has gone.          *)
(***************************************************************************)
EXTENDS Lookups, TLC

CONSTANTS p, q, tmp, f, g, d, e, s, me, you, ghost, n1, n2, sh1, sh2

MCKind   == (f :> "reg") @@ (g :> "reg") @@ (d :> "dir") @@ (e :> "dir") @@ (s :> "sock")
MCNumber == (f :> 1) @@ (g :> 1) @@ (d :> 2) @@ (e :> 3) @@ (s :> 4)
MCMayRun == (f :> "caller") @@ (g :> "others") @@ (d :> "caller") @@ (e :> "caller") @@ (s :> "nobody")

Dir(n, c)   == [dir |-> n, slash |-> c, config |-> FALSE]
User(n, h, sh) == [name |-> n, dir |-> Dir(h, TRUE), shell |-> sh]
MCRecord ==
  [db \in Db |-> (me :> User(n1, q, sh1)) @@ (you :> User(n2, p, sh2)) @@ (ghost :> NoRecord)]
MCHolder ==
  [db \in Db |-> (f :> me) @@ (g :> you) @@ (d :> ghost) @@ (e :> IF db = "gr" THEN you ELSE me) @@ (s :> you)]

At(a, b, c)        == (p :> a) @@ (q :> b) @@ (tmp :> c)
Environ(h, x, t, u) ==
  [v \in Var |-> CASE v = "HOME" -> h [] v = "XDG_CONFIG_HOME" -> x [] v = "TMPDIR" -> t [] v = "TMP" -> u]
World0(en, fu, ev, pa) ==
  [entry |-> en, full |-> fu, environ |-> ev, buffer |-> [db \in Db |-> you], pathVar |-> pa]

MCWorlds ==
  { World0(At(f, d, e), {f}, Environ(Dir(q, TRUE), Empty, Dir(q, TRUE), Unset), <<p, Gap, q>>),
    World0(At(d, NoObj, f), {e}, Environ(Unset, Unset, Unset, Dir(p, FALSE)), <<q, p, tmp>>),
    World0(At(s, g, e), {e}, Environ(Empty, Dir(p, TRUE), Empty, Empty), <<p, q, Gap>>) }

Call0(op, b) == [op |-> op, build |-> b, path |-> p, other |-> q, var |-> "HOME", value |-> Empty,
                 plain |-> TRUE, all |-> FALSE, given |-> NoPath, parts |-> <<>>]
MCCalls ==
  {Call0(op, b) : op \in Inquired \cup {"is_empty", "equivalent", "get_tempdir"}, b \in Builds}
  \cup {Call0(op, "c") : op \in {"get_homedir", "get_profile_dir", "user_config_dir",
                                 "get_username", "get_shell", "get_owner_name", "get_owner_group"}}
  \cup {[Call0("is_empty", b) EXCEPT !.path = q] : b \in Builds}
  \cup {[Call0("setenv", "c") EXCEPT !.var = v, !.value = Dir(q, FALSE)] : v \in {"HOME", "A=B"}}
  \cup {[Call0("which", b) EXCEPT !.path = n, !.all = a] : b \in Builds, n \in {q, tmp}, a \in BOOLEAN}
  \cup {[Call0("which", "cxx") EXCEPT !.path = q, !.plain = FALSE]}
  \cup {[Call0("which", b) EXCEPT !.path = tmp, !.all = TRUE, !.given = q, !.parts = <<p>>] : b \in Builds}

MCSearches == {<<>>, <<q, p>>}
MCSettings == {Unset, Dir(p, TRUE)}
=============================================================================
