------------------------------ MODULE MCDriver ------------------------------
(***************************************************************************)
(* Small instances of Driver: sessions of up to three lines, about two     *)
(* paths with nothing, a file or a directory at them.                      *)
(***************************************************************************)
EXTENDS Driver

L(ws) == [words |-> ws, bare |-> TRUE, ended |-> TRUE]
MCSteps ==
  {L(<<"chdir", "/d">>), L(<<"set_cwd", "/e">>), L(<<"ls", "/d">>), L(<<"set_perm", "/d", "+x">>),
   L(<<"set_perm", "/d">>)}
MCLines ==
  MCSteps \cup
  {L(<<>>), L(<<"homedir">>), L(<<"absolute", "/d", "/e">>), L(<<"same">>), L(<<"chdir">>), L(<<"ls">>),
   L(<<"set_perm">>), L(<<"q">>), L(<<"+x">>), [L(<<"quit">>) EXCEPT !.bare = FALSE]}
MCLast == {L(<<"ls", "/d">>), L(<<"homedir">>), L(<<"q">>), [L(<<"homedir">>) EXCEPT !.ended = FALSE]}

(* A directory, a closed one of somebody else, and a file.                 *)
MCPut ==
  {Nothing, [kind |-> "dir", owned |-> TRUE, bits |-> {"r", "x"}],
   [kind |-> "dir", owned |-> FALSE, bits |-> {}], [kind |-> "file", owned |-> TRUE, bits |-> {"r", "x"}]}

MCGives == [w \in Word \cup {NoWord} |-> IF w = "+x" THEN {"x"} ELSE {}]
MCTakes == [w \in Word \cup {NoWord} |-> IF w = "-r" THEN {"r"} ELSE {}]

(* Any line before a last one, and commands in several steps one after    *)
(* the other.                                                              *)
MCInputs ==
  {<<l, m>> : l \in MCLines, m \in MCLast}
    \cup {<<l, L(<<"set_perm", "/d", "-r">>), m>> : l \in {L(<<>>), L(<<"chdir", "/d">>)}, m \in MCSteps}
=============================================================================
