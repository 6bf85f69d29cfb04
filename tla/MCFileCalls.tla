---------------------------- MODULE MCFileCalls ----------------------------
(***************************************************************************)
(* Small instances of FileCalls: three names, at most a handful of files.  *)
(***************************************************************************)
EXTENDS FileCalls, TLC

CONSTANTS a, b, l, p1, p2, x, y

File2(d, acc) == [NewFile EXCEPT !.data = d, !.access = acc]

(* a always is a file of two blocks of our own; b is missing, a file of    *)
(* one block, ours or others', or a directory; l is missing or a symlink   *)
(* to b.                                                                   *)
Dir(files, bindings) ==
  [entry   |-> [n \in Name |-> IF n \in DOMAIN bindings THEN bindings[n] ELSE NoIno],
   inode   |-> [i \in Ino |-> IF i <= Len(files) THEN files[i] ELSE Unused],
   nextIno |-> Len(files) + 1]

FileA == File2(<<x, y>>, "own")
ADirOf(fileB, bIsThere, linkIsThere) ==
  Dir(<<FileA,
        IF bIsThere THEN fileB ELSE Unused,
        IF linkIsThere THEN NewLink(b) ELSE Unused>>,
      [n \in {a} \cup (IF bIsThere THEN {b} ELSE {}) \cup (IF linkIsThere THEN {l} ELSE {})
         |-> CASE n = a -> 1 [] n = b -> 2 [] n = l -> 3])

OwnB    == File2(<<y>>, "own")
SharedB == File2(<<y>>, "write")
DirB    == [Unused EXCEPT !.kind = "dir"]

(* b there, of someone else but writable, and b missing so that l dangles. *)
CopyDirs  == {ADirOf(SharedB, TRUE, TRUE), ADirOf(OwnB, FALSE, TRUE)}
(* With and without b and the link, and with a directory in their way.     *)
OtherDirs == {ADirOf(f, there, link) :
                f \in {SharedB, DirB}, there \in BOOLEAN, link \in BOOLEAN}
SharedDirs == {ADirOf(SharedB, TRUE, FALSE)}

Mk(o, s, d, w, bd) == [op |-> o, src |-> s, dst |-> d, overwrite |-> w, build |-> bd]
Both == {"cxx", "c"}

(* Copies racing each other and the single-step calls on their dest.       *)
CopyCalls ==
  {Mk("copy_file", s, b, w, bd) : s \in {a, l}, w \in BOOLEAN, bd \in Both}
  \cup {Mk("copy_file", a, l, w, bd) : w \in BOOLEAN, bd \in Both}
  \cup {Mk("remove", b, NoName, FALSE, "c"), Mk("rename", l, b, FALSE, "c")}

(* The other calls, racing each other.  Those that are one system call are *)
(* the same in both builds.                                                *)
OtherCalls ==
  {Mk("touch", n, NoName, FALSE, bd) : n \in {b, l}, bd \in Both}
  \cup {Mk(o, n, NoName, FALSE, "c") : o \in {"remove", "read_symlink"}, n \in {b, l}}
  \cup {Mk("set_modtime", b, NoName, FALSE, bd) : bd \in Both}
  \cup {Mk("rename", s, d, FALSE, "c") : s \in {a, l}, d \in {b, l}}
  \cup {Mk("create_symlink", t, l, FALSE, "c") : t \in {b, l, NoName}}
  \cup {Mk("copy_file", a, l, TRUE, bd) : bd \in Both}

(* Calls of several steps, for the liveness run.                           *)
LongCalls ==
  {Mk("touch", b, NoName, FALSE, "cxx"), Mk("read_symlink", l, NoName, FALSE, "c"),
   Mk("remove", b, NoName, FALSE, "c")}
  \cup {Mk("copy_file", s, b, TRUE, bd) : s \in {a, l}, bd \in Both}

(* The call behind the finding.                                            *)
TouchCalls == {Mk("touch", b, NoName, FALSE, "cxx")}

Symmetry == Permutations(Proc)

MCEnvData == {<<>>, <<x, y, x>>}
=============================================================================
