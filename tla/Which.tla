------------------------------- MODULE Which -------------------------------
(***************************************************************************)
(* fs_which: the search for a program in the directories of $PATH or of    *)
(* the path argument.                                                      *)
(*                                                                         *)
(* What makes a program is asked in two system calls for each directory:   *)
(* fs_is_file, then fs_is_exe.  A search path is a sequence of components; *)
(* a component stands for the path of the program in that directory, Gap   *)
(* for an empty one.                                                       *)
(***************************************************************************)
EXTENDS Accounts

CONSTANTS
  Gap,         \* an empty component of a search path
  InRoot,      \* the path of the program in "/"
  NoPath       \* the path argument when it is not given

ASSUME GapAssumption == Gap \notin Path /\ NoPath \notin Path /\ InRoot \in Path

VARIABLES
  pathVar,     \* $PATH, a sequence of components
  search,      \* the search path, once the call has read it
  at,          \* the component of it at which the call is
  found        \* the components in which it has found the program; 0: the name itself

whichVars == <<search, at, found>>

(* Faulty variant: the loop ends before the last component.                *)
SkipsTheLast(parts, k) == parts[k] = Gap \/ k = Len(parts)

(* An empty component is skipped if a separator follows it.                *)
Skipped(parts, k) == parts[k] = Gap /\ k < Len(parts)

(* The program in a component; in an empty one it is "/" and the name.     *)
In(part) == IF part = Gap THEN InRoot ELSE part

Stays    == UNCHANGED <<met, answer>>
StepsTo(step) == Goes(step) /\ Stays
Finds(ps) == found' = ps /\ UNCHANGED <<search, at>>
Nothing  == StepsTo("done") /\ Finds(<<>>)

(* fs_which: a path that is given has to be a directory.                   *)
GivenIsDir ==
  /\ Asks("given")
  /\ IF fs_is_dir(call.build, call.given)
       THEN StepsTo("nameisfile") /\ UNCHANGED whichVars
       ELSE Nothing

(* The name itself, as it leads from the working directory.  A name with a *)
(* directory is not searched for any further, nor is an empty search path. *)
SearchBegins ==
  LET parts == IF call.given = NoPath THEN pathVar ELSE call.parts IN
  IF call.plain /\ parts # <<>>
    THEN /\ search' = parts /\ at' = 1 /\ UNCHANGED found
         /\ StepsTo("part")
    ELSE Nothing

NameIsFile ==
  /\ Asks("nameisfile")
  /\ IF fs_is_file(call.build, call.path)
       THEN StepsTo("nameisexe") /\ UNCHANGED whichVars
       ELSE SearchBegins

NameIsExe ==
  /\ Asks("nameisexe")
  /\ IF fs_is_exe(call.build, call.path)
       THEN StepsTo("done") /\ Finds(<<0>>)
       ELSE SearchBegins

(* Faulty variant: the end of the search path is noticed one step late.    *)
OneTooFar ==
  IF at > Len(search)
    THEN StepsTo("done") /\ UNCHANGED at
    ELSE StepsTo("part") /\ at' = at + 1

LoopGoesOn ==
  IF at = Len(search)
    THEN StepsTo("done") /\ UNCHANGED at
    ELSE StepsTo("part") /\ at' = at + 1

PartIsFile ==
  /\ Asks("part")
  /\ IF ~Skipped(search, at) /\ fs_is_file(call.build, In(search[at]))
       THEN StepsTo("partisexe") /\ UNCHANGED whichVars
       ELSE LoopGoesOn /\ UNCHANGED <<search, found>>

PartIsExe ==
  /\ Asks("partisexe")
  /\ UNCHANGED search
  /\ IF fs_is_exe(call.build, In(search[at]))
       THEN /\ found' = Append(found, at)
            /\ IF call.all THEN LoopGoesOn ELSE StepsTo("done") /\ UNCHANGED at
       ELSE LoopGoesOn /\ UNCHANGED found

WhichStep ==
  /\ GivenIsDir \/ NameIsFile \/ NameIsExe \/ PartIsFile \/ PartIsExe
  /\ UNCHANGED <<accountVars, text, pathVar>>
=============================================================================
