----------------------------- MODULE Inquiries -----------------------------
(***************************************************************************)
(* What is at a path: the inquiries of inquire.cpp, size.cpp and           *)
(* equivalent.cpp.  Some of them are one system call; fs_is_empty and      *)
(* fs_equivalent are several, and other programs put something else at the *)
(* path in between.                                                        *)
(*                                                                         *)
(* The library changes nothing here, so that calls do not meet: the model  *)
(* follows one call, which the module Lookups begins and surrounds with    *)
(* the steps of others.  pc is the next system call of that call; one      *)
(* action is the code up to and including it.                              *)
(***************************************************************************)
EXTENDS Naturals, Sequences, FiniteSets

CONSTANTS
  Path,        \* the paths that calls ask about
  Obj,         \* what may be at them: files, directories, sockets, ...
  NoObj,       \* what is at a path where nothing is
  Kind,        \* object -> its kind
  Number,      \* object -> its inode number, which is given anew once free
  MayRun,      \* object -> who may execute it
  Typed        \* the directories for which readdir fills in d_type

Kinds == {"reg", "dir", "sock", "fifo", "chr"}

ASSUME ObjAssumption    == NoObj \notin Obj
ASSUME KindAssumption   == Kind \in [Obj -> Kinds]
ASSUME NumberAssumption == Number \in [Obj -> Nat]
ASSUME RunAssumption    == MayRun \in [Obj -> {"nobody", "others", "caller"}]
ASSUME TypedAssumption  == Typed \subseteq Obj

VARIABLES
  entry,       \* what is at each path, symlinks followed
  full,        \* the files with data in them and the directories with entries
  call,        \* the call that is followed
  pc,          \* its next system call
  met,         \* what an earlier system call of it has found
  answer       \* what it has returned

treeVars == <<entry, full>>

Builds == {"cxx", "c"}
Is(n, o)    == entry[n] = o
Missing(n)  == Is(n, NoObj)
KindAt(n)   == IF Missing(n) THEN "none" ELSE Kind[entry[n]]
Distinct(o) == \A n \in {i \in Path : entry[i] \notin {o, NoObj}} : Number[entry[n]] # Number[o]

(***************************************************************************)
(* stat(2): the file type of st_mode, which is zero when stat fails.  The  *)
(* numbers are those of sys/stat.h without their twelve permission bits.   *)
(***************************************************************************)
TypeBits == [none |-> 0, fifo |-> 1, chr |-> 2, dir |-> 4, reg |-> 8, sock |-> 12]
S_IFREG  == TypeBits["reg"]
fs_st_mode(n) == TypeBits[KindAt(n)]

fs_is_dir(b, n)  == IF b = "cxx" THEN KindAt(n) = "dir" ELSE fs_st_mode(n) = TypeBits["dir"]

(* Bit S_IFREG of the type, as "&" takes it, which S_IFSOCK has too.       *)
fs_is_file(b, n) == IF b = "cxx" THEN KindAt(n) = "reg" ELSE (fs_st_mode(n) \div S_IFREG) % 2 = 1
fs_is_fifo(b, n) == IF b = "cxx" THEN KindAt(n) = "fifo" ELSE fs_st_mode(n) = TypeBits["fifo"]
fs_is_char_device(b, n) ==
  IF b = "cxx" THEN KindAt(n) = "chr" ELSE fs_st_mode(n) = TypeBits["chr"]
fs_exists(n)     == ~Missing(n)

(* cxx: anyone may execute it; c: access(2) asks for the caller.           *)
fs_is_exe(b, n) ==
  ~Missing(n) /\ MayRun[entry[n]] \in IF b = "cxx" THEN {"others", "caller"} ELSE {"caller"}

Asked(c) ==
  CASE c.op = "is_dir"  -> fs_is_dir(c.build, c.path)
    [] c.op = "is_file" -> fs_is_file(c.build, c.path)
    [] c.op = "is_fifo" -> fs_is_fifo(c.build, c.path)
    [] c.op = "is_char_device" -> fs_is_char_device(c.build, c.path)
    [] c.op = "exists"  -> fs_exists(c.path)

-----------------------------------------------------------------------------
Asks(step) == pc = step
Goes(step) == pc' = step /\ UNCHANGED <<treeVars, call>>
Answers(a) == answer' = a /\ met' = NoObj /\ Goes("done")

(* An inquiry that is one system call.                                     *)
Ask == Asks("ask") /\ Answers(Asked(call))

(***************************************************************************)
(* fs_is_empty.  The cxx build is std::filesystem::is_empty of libstdc++:  *)
(* status, then file_size, or opendir and readdir.  The c build asks       *)
(* fs_is_dir, then fs_file_size and fs_is_file, or opendir and readdir.    *)
(***************************************************************************)
EmptyKind ==
  /\ Asks("status")
  /\ IF fs_is_dir(call.build, call.path)
       THEN Goes("opendir") /\ UNCHANGED <<met, answer>>
     ELSE IF call.build = "cxx" /\ Missing(call.path)
       THEN Answers(FALSE)
       ELSE Goes("size") /\ UNCHANGED <<met, answer>>

(* fs_file_size is zero: the file is empty, or there is nothing to stat;   *)
(* a directory or special file may report any size.                        *)
SizeIsZero(n) ==
  \/ Missing(n)
  \/ KindAt(n) = "reg" /\ entry[n] \notin full
  \/ KindAt(n) \notin {"none", "reg"}

SizeIsNot(n) == ~Missing(n) /\ (KindAt(n) = "reg" => entry[n] \in full)

(* std::filesystem::file_size has a size for regular files only.           *)
EmptySize ==
  /\ Asks("size")
  /\ \/ /\ call.build = "cxx"
        /\ Answers(KindAt(call.path) = "reg" /\ entry[call.path] \notin full)
     \/ /\ call.build = "c" /\ SizeIsZero(call.path)
        /\ Goes("isfile") /\ UNCHANGED <<met, answer>>
     \/ /\ call.build = "c" /\ SizeIsNot(call.path)
        /\ Answers(FALSE)

EmptyIsFile == Asks("isfile") /\ Answers(fs_is_file("c", call.path))

EmptyOpendir ==
  /\ Asks("opendir")
  /\ \/ KindAt(call.path) = "dir" /\ met' = entry[call.path] /\ Goes("readdir") /\ UNCHANGED answer
     \/ KindAt(call.path) # "dir" /\ Answers(FALSE)

(* Faulty variant: "." and ".." count as entries.                          *)
CountsDots(b, o) == TRUE

(* The entries "." and ".." are skipped: by name, in the c build only if   *)
(* d_type says that they are directories.                                  *)
DotsCount(b, o) == b = "c" /\ o \notin Typed

EmptyReaddir == Asks("readdir") /\ Answers(met \notin full /\ ~DotsCount(call.build, met))

(* fs_equivalent: two stats and a comparison of the inode numbers.         *)
EquivalentFirst ==
  /\ Asks("stat1")
  /\ \/ Missing(call.path) /\ Answers(FALSE)
     \/ ~Missing(call.path) /\ met' = entry[call.path] /\ Goes("stat2") /\ UNCHANGED answer

(* Faulty variant: the sizes are compared, not the numbers.                *)
SameSize(o1, o2) == (o1 \in full) = (o2 \in full)

SameFile(o1, o2) == Number[o1] = Number[o2]

EquivalentSecond ==
  /\ Asks("stat2")
  /\ Answers(~Missing(call.other) /\ SameFile(met, entry[call.other]))

InquiryStep ==
  \/ Ask
  \/ EmptyKind \/ EmptySize \/ EmptyIsFile \/ EmptyOpendir \/ EmptyReaddir
  \/ EquivalentFirst \/ EquivalentSecond
=============================================================================
