----------------------------- MODULE CaseProbe -----------------------------
(***************************************************************************)
(* fs_is_case_sensitive: a file with capital letters in its name is made   *)
(* in the directory, its path in lower-case letters is resolved, the file  *)
(* is removed, and the answer is whether the resolved path is that of the  *)
(* file.  Its name ends in random letters: no other program has it.        *)
(***************************************************************************)
EXTENDS Resolve

CONSTANTS
  Camel,       \* the name of the file: fs_generate_random_alphanumeric_string
  Temp,        \* the file
  Writable     \* the directories in which files can be made

ASSUME ProbeAssumption == Camel \in Name /\ Temp \in File /\ Writable \subseteq Dir

(* The names of everything else, in no letters that of the file, which has *)
(* capital ones.                                                           *)
Others == {n \in Name : Lower[n] # Lower[Camel]}

ASSUME FreshAssumption ==
  /\ \A n \in Name : Lower[n] # Camel
  /\ NameOf \in [Dir -> Others] /\ Home.names \in Seq(Others)
  /\ \A x \in Link : Target[x].names \in Seq(Others \cup {DotDot})

CamelCase == [call.path EXCEPT !.names = Append(@, Camel)]
InLower(p) ==
  [p EXCEPT !.names = [i \in DOMAIN @ |-> IF @[i] \in Name THEN Lower[@[i]] ELSE @[i]]]

Puts(d, n, x) == child' = [child EXCEPT ![d][n] = x] /\ UNCHANGED disk

(* fs_touch of the new name, and fs_canonical of it in lower case.         *)
Touch ==
  /\ Asks("touch")
  /\ LET d == Where(cwd, call.path) IN
     IF d \in Writable
       THEN Puts(d, Camel, Temp) /\ Canonical(Expanduser(InLower(CamelCase)))
       ELSE Says(FALSE) /\ UNCHANGED treeVars
  /\ UNCHANGED <<cwd, call>>

(* Faulty variant: the file is removed only if its path was resolved.      *)
RemovesIfFound(d) ==
  IF first # Nothing /\ d \in Dir /\ child[d][Camel] # None
    THEN Puts(d, Camel, None) ELSE UNCHANGED treeVars

Removes(d) ==
  IF d \in Dir /\ child[d][Camel] # None THEN Puts(d, Camel, None) ELSE UNCHANGED treeVars

TakeAway ==
  /\ Asks("remove")
  /\ Removes(Where(cwd, call.path))
  /\ Says(first = CamelCase)
  /\ UNCHANGED <<cwd, call>>

ProbeStep == Touch \/ TakeAway
=============================================================================
