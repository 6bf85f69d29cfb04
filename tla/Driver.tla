------------------------------- MODULE Driver -------------------------------
(***************************************************************************)
(* The command-line driver app/main.cpp: a loop that reads a line, splits  *)
(* it into words and offers them to three tables of functions, one after   *)
(* the other, until one of them knows the first word.                      *)
(*                                                                         *)
(* What the functions of the library do is in the other modules; here each *)
(* answers, except those that main.cpp writes out itself and that succeed  *)
(* or fail in several steps: chdir, ls and set_perm.  Whether these fail   *)
(* depends on what is at the path they are given, and between any two of   *)
(* the driver's steps that changes: others make, remove, move and replace  *)
(* it, and so do the commands of the tables (mkdir, remove, rename...).    *)
(***************************************************************************)
EXTENDS Naturals, Sequences

CONSTANTS
  Word,        \* what lines are made of: commands and paths
  NoArgs,      \* the commands that the table of no_arg knows,
  OneArgs,     \* those of one_arg, and those that it handles without a table,
  TwoArgs,     \* and those of the table of two_arg
  Inputs,      \* what the driver is given to read, a sequence of lines
  Gives,       \* the permissions for which a word has "+r", "+w" and "+x",
  Takes,       \* and those for which it has "-r", "-w" and "-x"
  Places,      \* the words that are paths, all of them absolute
  Put,         \* what others put at a path
  Start,       \* the directory in which it is started
  MaxEnv       \* bounds the changes by others

(* A line is its words; is there nothing around them, and does it end?     *)
Line  == [words : Seq(Word), bare : BOOLEAN, ended : BOOLEAN]
Chdir == {"chdir", "set_cwd"}
Quit  == {"q", "quit", "exit"}
NoWord == ""

(* What is at a path, as far as the driver's user (not the superuser) is   *)
(* concerned: may he change its permissions, and which has he got?         *)
Bits    == {"r", "w", "x"}
Thing   == [kind : {"file", "dir"}, owned : BOOLEAN, bits : SUBSET Bits]
Nothing == [kind |-> "none", owned |-> FALSE, bits |-> {}]

ASSUME WordAssumption  == Chdir \cup Quit \cup {"ls", "set_perm"} \subseteq Word /\ NoWord \notin Word
ASSUME TableAssumption == /\ NoArgs \cup OneArgs \cup TwoArgs \subseteq Word
                          /\ (NoArgs \cup OneArgs \cup TwoArgs) \cap (Chdir \cup Quit \cup {"ls", "set_perm"}) = {}
ASSUME InputAssumption == \A lines \in Inputs :
  lines \in Seq(Line) /\ \A i \in 1..(Len(lines) - 1) : lines[i].ended
ASSUME PlacesAssumption == /\ Start \in Places /\ Places \subseteq Word /\ MaxEnv \in Nat
                           /\ Put \subseteq Thing \cup {Nothing}
                           /\ Gives \in [Word \cup {NoWord} -> SUBSET Bits] /\ Takes \in [Word \cup {NoWord} -> SUBSET Bits]

VARIABLES
  build,       \* with std::filesystem or without it
  input,       \* what is read
  at,          \* how many lines have been read
  args,        \* the words of the last one
  pc,          \* what the driver does next
  cwd,         \* the path by which it has entered its working directory,
  lost,        \* and has that been removed since?
  disk,        \* what is at each path
  said,        \* history: the lines that were answered, and by whom
  errors,      \* history: the lines whose command here was reported on stderr
  seen,        \* history: what was at the path of a line while it was worked on
  nEnv         \* changes by others so far

vars == <<build, input, at, args, pc, cwd, lost, disk, said, errors, seen, nEnv>>

-----------------------------------------------------------------------------
(* A line that is not ended sets eof, whatever is in it.                   *)
Quits(l) == ~l.ended \/ (l.bare /\ Len(l.words) = 1 /\ l.words[1] \in Quit)

(* Faulty variant: an empty line is not taken from the input.              *)
NextIfAny(l) == IF l.words = <<>> THEN at ELSE at + 1

NextLine(l) == at + 1

ReadLine ==
  /\ pc = "read"
  /\ IF at = Len(input) \/ Quits(input[at + 1])
       THEN pc' = "ended" /\ UNCHANGED <<at, args>>
       ELSE LET l == input[at + 1] IN
            /\ at' = NextLine(l) /\ args' = l.words
            /\ pc' = IF l.words = <<>> THEN "read" ELSE "no_arg"
  /\ UNCHANGED <<cwd, lost, disk, said, errors>>

(* The tables are called with an empty word for one that is missing.       *)
Padded(n) == IF Len(args) < n THEN Append(args, NoWord) ELSE args

Answered(by, next) == said' = Append(said, [line |-> at, by |-> by]) /\ pc' = next
NotMine(n, next)   == args' = Padded(n) /\ pc' = next /\ UNCHANGED said
Complains(does)    == errors' = IF does THEN errors \cup {at} ELSE errors

no_arg ==
  /\ pc = "no_arg"
  /\ IF args[1] \in NoArgs THEN Answered("no_arg", "read") /\ UNCHANGED args ELSE NotMine(2, "one_arg")
  /\ UNCHANGED <<at, cwd, lost, disk, errors>>

one_arg ==
  /\ pc = "one_arg" /\ args[1] \notin Chdir \cup {"ls"}
  /\ IF args[1] \in OneArgs
       THEN Answered("one_arg", "read") /\ UNCHANGED args
       ELSE NotMine(3, "two_arg")
  /\ UNCHANGED <<at, cwd, lost, disk, errors>>

Found(p)   == IF p \in Places THEN disk[p] ELSE Nothing
Enters(t)  == t.kind = "dir" /\ "x" \in t.bits
Lists(t)   == t.kind = "dir" /\ "r" \in t.bits

(* chdir: fs_get_cwd, fs_set_cwd, fs_get_cwd again; a failure is reported  *)
(* and the command counts as answered.  A working directory that has been  *)
(* removed has no path any more, even if there is another one in its       *)
(* place.                                                                  *)
CwdBefore ==
  /\ pc = "one_arg" /\ args[1] \in Chdir
  /\ Complains(lost)
  /\ IF lost THEN Answered("one_arg", "read") ELSE pc' = "chdir" /\ UNCHANGED said
  /\ UNCHANGED <<at, args, cwd, lost, disk>>

SetCwd ==
  /\ pc = "chdir"
  /\ Complains(~Enters(Found(args[2])))
  /\ IF Enters(Found(args[2]))
       THEN cwd' = args[2] /\ lost' = FALSE /\ pc' = "cwd" /\ UNCHANGED said
       ELSE Answered("one_arg", "read") /\ UNCHANGED <<cwd, lost>>
  /\ UNCHANGED <<at, args, disk>>

CwdAfter ==
  /\ pc = "cwd"
  /\ Complains(lost) /\ Answered("one_arg", "read")
  /\ UNCHANGED <<at, args, cwd, lost, disk>>

(* ls: directory_iterator is made without an error code and throws unless  *)
(* there is a directory that can be read; nothing catches that.  Entries   *)
(* whose status cannot be had are reported.  The c build only reports that *)
(* it has no ls.                                                           *)
Ls ==
  /\ pc = "one_arg" /\ args[1] = "ls"
  /\ IF build = "cxx" /\ ~Lists(Found(args[2]))
       THEN pc' = "thrown" /\ UNCHANGED <<said, errors>>
       ELSE /\ Answered("one_arg", "read")
            /\ \E unread \in BOOLEAN : Complains(build = "c" \/ unread)
  /\ UNCHANGED <<at, args, cwd, lost, disk>>

two_arg ==
  /\ pc = "two_arg" /\ args[1] # "set_perm"
  /\ IF args[1] \in TwoArgs
       THEN Answered("two_arg", "read") /\ UNCHANGED errors
       ELSE pc' = "unknown" /\ UNCHANGED <<said, errors>>
  /\ UNCHANGED <<at, args, cwd, lost, disk>>

(* set_perm: fs_get_permissions, fs_set_permissions, fs_get_permissions.   *)
(* When the first fails, two_arg says that it does not know the command; a *)
(* failure of the others is only reported.                                 *)
(* Faulty variant: it says that it does, and the line is not answered.     *)
TakesIt(p) == IF Found(p) = Nothing THEN "read" ELSE "set_perm"

GivesUp(p) == IF Found(p) = Nothing THEN "unknown" ELSE "set_perm"

PermBefore ==
  /\ pc = "two_arg" /\ args[1] = "set_perm"
  /\ Complains(Found(args[2]) = Nothing)
  /\ pc' = GivesUp(args[2])
  /\ UNCHANGED <<at, args, cwd, lost, disk, said>>

(* Permissions are changed by the owner.  The std::filesystem build asks   *)
(* the system only when there is something to change, the other in any     *)
(* case.                                                                   *)
MayChange(t, w) == t # Nothing /\ (t.owned \/ (build = "cxx" /\ Gives[w] \cup Takes[w] = {}))
Changed(t, w)   == [t EXCEPT !.bits = (@ \cup Gives[w]) \ Takes[w]]

SetPerm ==
  /\ pc = "set_perm" /\ pc' = "perm"
  /\ Complains(~MayChange(Found(args[2]), args[3]))
  /\ disk' = [p \in Places |-> IF p = args[2] /\ MayChange(disk[p], args[3])
                                 THEN Changed(disk[p], args[3]) ELSE disk[p]]
  /\ UNCHANGED <<at, args, cwd, lost, said>>

PermAfter ==
  /\ pc = "perm"
  /\ Complains(Found(args[2]) = Nothing) /\ Answered("two_arg", "read")
  /\ UNCHANGED <<at, args, cwd, lost, disk>>

Unknown ==
  /\ pc = "unknown"
  /\ Complains(TRUE) /\ Answered("unknown", "read")
  /\ UNCHANGED <<at, args, cwd, lost, disk>>

(* What a line asks, and what is at its path while it is worked on.        *)
Asked(i)  == input[i].words
Arg(i, n) == IF n <= Len(Asked(i)) THEN Asked(i)[n] ELSE NoWord
Sight     == [line |-> at, thing |-> Found(Arg(at, 2)), lost |-> lost]
Watched   == seen' = IF pc' \in {"read", "ended", "thrown"} THEN seen ELSE seen \cup {Sight'}

Step ==
  /\ \/ ReadLine \/ no_arg \/ one_arg \/ CwdBefore \/ SetCwd \/ CwdAfter \/ Ls
     \/ two_arg \/ PermBefore \/ SetPerm \/ PermAfter \/ Unknown
  /\ UNCHANGED <<build, input, nEnv>>
  /\ Watched

(* Something else is put at a path, or nothing.  What was there may have   *)
(* been removed or only moved away, which matters to those who work in it. *)
Env ==
  /\ pc \notin {"ended", "thrown"} /\ nEnv < MaxEnv /\ nEnv' = nEnv + 1
  /\ \E p \in Places :
       /\ \E t \in Put : disk' = [disk EXCEPT ![p] = t]
       /\ lost' \in IF p = cwd THEN {lost, TRUE} ELSE {lost}
  /\ UNCHANGED <<build, input, at, args, pc, cwd, said, errors>>
  /\ Watched

Init ==
  /\ build \in {"cxx", "c"} /\ input \in Inputs
  /\ at = 0 /\ args = <<>> /\ pc = "read"
  /\ cwd = Start /\ lost = FALSE
  /\ disk \in [Places -> Put] /\ disk[Start].kind = "dir"
  /\ said = <<>> /\ errors = {} /\ seen = {} /\ nEnv = 0

Next == Step \/ Env
Spec == Init /\ [][Next]_vars /\ WF_vars(Step)
-----------------------------------------------------------------------------
Verdicts(i) == {k \in DOMAIN said : said[k].line = i}
Over(i)     == i < at \/ (i = at /\ pc \in {"read", "ended"})
Sights(i)   == {s \in seen : s.line = i}

(***************************************************************************)
(* Every line that is over was answered once, in order, by the first table *)
(* that has its command, whatever became of the paths in the middle of it; *)
(* and a command that is known is called unknown only if it is set_perm    *)
(* about a path at which, meanwhile, there was nothing (main.cpp:324).     *)
(***************************************************************************)
Owner(w) ==
  IF w \in NoArgs THEN "no_arg"
  ELSE IF w \in OneArgs \cup Chdir \cup {"ls"} THEN "one_arg"
  ELSE IF w \in TwoArgs \cup {"set_perm"} THEN "two_arg" ELSE "unknown"

Missed(i) == \E s \in Sights(i) : s.thing = Nothing

AnsweredOnce ==
  /\ \A i \in 1..at : Over(i) =>
       \/ Asked(i) = <<>> /\ Verdicts(i) = {}
       \/ \E k \in DOMAIN said :
            /\ Verdicts(i) = {k}
            /\ \/ said[k].by = Owner(Asked(i)[1])
               \/ said[k].by = "unknown" /\ Asked(i)[1] = "set_perm" /\ Missed(i)
  /\ \A j, k \in DOMAIN said : j < k => said[j].line < said[k].line

(* The session stops at the end of the input, at a quit, and before a line *)
(* that no newline ends, which is lost (main.cpp:405); or in the middle of *)
(* an ls of something that, meanwhile, was no directory that can be read,  *)
(* and the lines after that are lost (main.cpp:235).                       *)
NothingLost ==
  /\ pc = "ended"  => at = Len(input) \/ Quits(input[at + 1])
  /\ pc = "thrown" => Asked(at)[1] = "ls" /\ \E s \in Sights(at) : ~Lists(s.thing)

(* What is reported on stderr has its cause in what was there while the    *)
(* line was worked on...                                                   *)
Caused(i) ==
  LET w == Asked(i)[1] IN
  \/ Owner(w) = "unknown" \/ w = "ls"
  \/ w \in Chdir /\ \E s \in Sights(i) : s.lost \/ ~Enters(s.thing)
  \/ w = "set_perm" /\ \E s \in Sights(i) : ~MayChange(s.thing, Arg(i, 3))

(* ... and where it reports nothing, the command was carried out: there    *)
(* was a directory that can be entered, or something with the permissions  *)
(* that were asked for.                                                    *)
CarriedOut(i) ==
  /\ Asked(i)[1] \in Chdir => \E s \in Sights(i) : Enters(s.thing) /\ ~s.lost
  /\ Asked(i)[1] = "set_perm" =>
       \E s \in Sights(i) : s.thing # Nothing /\ s.thing = Changed(s.thing, Arg(i, 3))

(* The last chdir that was carried out decides where the driver is.        *)
DoneOrReported ==
  /\ \A i \in errors : Caused(i)
  /\ \A i \in 1..at : Over(i) /\ Asked(i) # <<>> /\ i \notin errors =>
       /\ CarriedOut(i)
       /\ LET moves(j) == Asked(j) # <<>> /\ Asked(j)[1] \in Chdir
          IN  moves(i) /\ (\A j \in (i + 1)..at : ~moves(j)) => cwd = Asked(i)[2]

SessionHolds == AnsweredOnce /\ NothingLost /\ DoneOrReported

(* The session comes to its end, whatever it is given to read.             *)
SessionEnds == <>(pc \in {"ended", "thrown"})
=============================================================================
