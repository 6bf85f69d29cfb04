------------------------------ MODULE MCMkdir ------------------------------
(***************************************************************************)
(* Small instances of Mkdir: two names, three levels.                      *)
(***************************************************************************)
EXTENDS Mkdir

CONSTANTS x, y, p1, p2

Ask(q, bd) == [empty |-> FALSE, parts |-> q, build |-> bd]

(* Overlapping paths, one a prefix of the other; one whose first and last  *)
(* component are the same; the base itself; the empty path.                *)
MCRequests ==
  {Ask(q, "cxx") : q \in {<<x, y>>, <<x, y, x>>, <<>>}}
  \cup {Ask(q, "c") : q \in {<<x, y, x>>, <<y, x>>, <<>>}}
  \cup {[empty |-> TRUE, parts |-> <<>>, build |-> "c"]}

Tree(dirs, files, seals) ==
  [node   |-> [q \in Place |-> IF q \in dirs THEN "dir"
                               ELSE IF q \in files THEN "file" ELSE "none"],
   sealed |-> seals]

(* Nothing there; part of the path there; part there and not writable; a   *)
(* file in the way.                                                        *)
MCTrees == {Tree({}, {}, {}),
            Tree({<<x>>}, {}, {<<>>}),
            Tree({<<x>>}, {}, {<<x>>}),
            Tree({<<y>>}, {<<x>>}, {})}

(* Where files appear: never at the end of a path that a call of the C     *)
(* build asks for, where it would take the file for the directory.         *)
MCPlaces == {<<x>>, <<x, y>>}

ASSUME EndsAssumption == NoFileAtEnd
=============================================================================
