----------------------------- MODULE FileCalls -----------------------------
(***************************************************************************)
(* The calls of the library that create, change and remove files, run by   *)
(* several processes (or threads: README.md says the library adds no       *)
(* locking of its own) on one directory.  A call is a sequence of system   *)
(* calls; between two of them every other process, or a program that does  *)
(* not use the library, may change the directory.  One action is the code  *)
(* up to and including its next system call, with the branches the code    *)
(* takes on its outcome.                                                   *)
(*                                                                         *)
(* A program is linked with one of two builds of the library: "cxx" is     *)
(* HAVE_CXX_FILESYSTEM (the calls go through std::filesystem), "c" is the  *)
(* plain POSIX branch of each function, with copy_file_range.  Each call   *)
(* says which, so that programs of both builds meet in one directory.      *)
(***************************************************************************)
EXTENDS PosixFs, Integers

CONSTANTS
  Proc,        \* processes calling the library
  Dirs,        \* the directories the processes may find
  Calls,       \* the calls they may make
  MaxCalls,    \* bounds the number of calls made in all
  EnvData,     \* contents another program may give a file
  MaxEnv,      \* bounds the number of times it does
  MayFail,     \* TRUE: fstat, writes, closes and removals may report an error
  MayCrash     \* TRUE: a process may die in the middle of a call

Op   == {"copy_file", "touch", "set_modtime", "remove", "rename",
         "create_symlink", "read_symlink"}
Call == [op : Op, src : Path, dst : Path, overwrite : BOOLEAN, build : {"cxx", "c"}]

(* A directory to start from: names are bound to files handed out before.  *)
Directory == [entry : [Name -> Ino \cup {NoIno}], inode : [Ino -> File],
              nextIno : 1..(MaxIno + 1)]

ASSUME DirsAssumption ==
  Dirs \subseteq {d \in Directory :
                   /\ \A n \in Name : d.entry[n] < d.nextIno
                   /\ \A i \in Ino : i >= d.nextIno => d.inode[i] = Unused}
ASSUME CallsAssumption   == Calls \subseteq Call
ASSUME EnvAssumption     == EnvData \subseteq Seq(Block)
ASSUME BoundsAssumption  == MaxCalls \in Nat /\ MaxEnv \in Nat
ASSUME SwitchAssumption  == MayFail \in BOOLEAN /\ MayCrash \in BOOLEAN

VARIABLES
  call,      \* the call each process is in, or made last
  pc,        \* the system call it makes next
  io,        \* fs_copy_file's descriptors and counters
  ok,        \* the logical it returned
  text,      \* the string fs_read_symlink returned
  nCalls,    \* calls made so far
  nEnv,      \* writes by other programs so far
  dirty,     \* history: did anyone else change what this call looks at?
  made,      \* history: the file this call created
  dropped    \* history: names that lost their file to a remove or a rename

callVars == <<call, pc, io, ok, text, nCalls>>
history  == <<dirty, made, dropped>>
vars     == <<fsVars, callVars, nEnv, history>>

(***************************************************************************)
(* A definition marked "faulty variant" is no part of the specification:   *)
(* it is what the definition after it would be with a plausible bug, and   *)
(* PROJECT.json says which property it breaks.                             *)
(***************************************************************************)

(***************************************************************************)
(* Locals of fs_copy_file: rid and wid are the inodes behind the two open  *)
(* descriptors, len the size read at the start, ret what copy_file_range   *)
(* returned last.  Both file offsets are len - remaining.                  *)
(***************************************************************************)
Io     == [rid : Ino \cup {NoIno}, wid : Ino \cup {NoIno},
           len : Nat, remaining : Nat, ret : Int]
Closed == [rid |-> NoIno, wid |-> NoIno, len |-> 0, remaining |-> 0, ret |-> 0]

Labels == {"is_file", "remove_dst", "std_stat", "open_src", "fstat",
           "open_dst", "fchmod", "copy", "close",
           "utime", "ofstream", "unlink", "rename",
           "symlink", "is_symlink", "readlink"}
Rest   == {"idle", "done", "dead"}

TypeOK ==
  /\ FsTypeOK
  /\ call \in [Proc -> Call]
  /\ pc \in [Proc -> Labels \cup Rest]
  /\ io \in [Proc -> Io]
  /\ ok \in [Proc -> BOOLEAN]
  /\ text \in [Proc -> Path]
  /\ nCalls \in 0..MaxCalls
  /\ nEnv \in 0..MaxEnv
  /\ dirty \in [Proc -> BOOLEAN]
  /\ made \in [Proc -> Ino \cup {NoIno}]
  /\ dropped \subseteq Name

Busy(p) == pc[p] \in Labels
Src(p)  == call[p].src
Dst(p)  == call[p].dst
BuiltC(p) == call[p].build = "c"

(***************************************************************************)
(* What call p looks at: what its two paths name, and the files it has     *)
(* open.  A step of anyone else that changes it makes p dirty.             *)
(***************************************************************************)
EntryOf(n) == IF n \in Name THEN entry[n] ELSE NoIno

View(p) ==
  LET paths == <<EntryOf(Src(p)), EntryOf(Dst(p)), Lookup(Src(p)), Lookup(Dst(p))>>
      files == {Lookup(Src(p)), Lookup(Dst(p)), io[p].rid, io[p].wid} \ {NoIno}
  IN  <<paths, [i \in files |-> inode[i]]>>

DisturbOthers(self) ==
  dirty' = IF fsVars' = fsVars THEN dirty
           ELSE [q \in Proc |-> dirty[q] \/ (q \notin self /\ View(q)' # View(q))]

(***************************************************************************)
(* The shape of a step of p: control moves on, or the call returns.        *)
(***************************************************************************)
Goto(p, label) ==
  /\ pc' = [pc EXCEPT ![p] = label]
  /\ UNCHANGED <<call, ok, text, nCalls>>

Return(p, b) ==
  /\ pc' = [pc EXCEPT ![p] = "done"]
  /\ ok' = [ok EXCEPT ![p] = b]
  /\ UNCHANGED <<call, text, nCalls>>

SetIo(p, r)  == io' = [io EXCEPT ![p] = r]
NoteMade(p)  == made' = [made EXCEPT ![p] = nextIno]
Drop(names)  == dropped' = dropped \cup names

(* Faulty variant: dest is removed without asking for overwrite.           *)
FirstStepAlwaysRemoves(c) ==
  CASE c.op = "copy_file" -> "is_file"
    [] c.op = "remove" -> "unlink"
    [] c.op = "rename" -> "rename"

(* The branch a call takes first: per backend for fs_copy_file.            *)
FirstStep(c) ==
  CASE c.op = "copy_file" -> IF c.build = "c" THEN "open_src"
                             ELSE IF c.overwrite THEN "is_file" ELSE "std_stat"
    [] c.op \in {"touch", "set_modtime"} -> "utime"
    [] c.op = "remove" -> "unlink"
    [] c.op = "rename" -> "rename"
    [] c.op = "create_symlink" -> "symlink"
    [] c.op = "read_symlink" -> "is_symlink"

Begin(p, c) ==
  /\ pc[p] \in {"idle", "done"}
  /\ nCalls < MaxCalls
  /\ nCalls' = nCalls + 1
  /\ call' = [call EXCEPT ![p] = c]
  /\ pc' = [pc EXCEPT ![p] = FirstStep(c)]
  /\ ok' = [ok EXCEPT ![p] = FALSE]
  /\ text' = [text EXCEPT ![p] = NoName]
  /\ dirty' = [dirty EXCEPT ![p] = FALSE]
  /\ made' = [made EXCEPT ![p] = NoIno]
  /\ UNCHANGED <<fsVars, io, nEnv, dropped>>
-----------------------------------------------------------------------------
(***************************************************************************)
(* fs_copy_file, std::filesystem build.  An existing regular dest is       *)
(* removed first; whether that worked is only printed.                     *)
(***************************************************************************)
CopyIsFile(p) ==
  /\ pc[p] = "is_file"
  /\ Goto(p, IF IsKind(Dst(p), "reg") THEN "remove_dst" ELSE "std_stat")
  /\ UNCHANGED <<fsVars, io, made, dropped>>

CopyRemoveDest(p) ==
  /\ pc[p] = "remove_dst"
  /\ Goto(p, "std_stat")
  /\ \/ /\ Removable(Dst(p))
        /\ Unbind(Dst(p))
        /\ Drop({Dst(p)})
     \/ /\ ~ Removable(Dst(p)) \/ MayFail
        /\ UNCHANGED <<fsVars, dropped>>
  /\ UNCHANGED <<io, made>>

(* std::filesystem::copy_file compares the two files before it opens them, *)
(* and takes the size to copy from this stat.                              *)
StdCopyAllowed(src, dst, overwrite) ==
  /\ IsKind(src, "reg")
  /\ Exists(dst) => /\ overwrite
                    /\ IsKind(dst, "reg")
                    /\ Lookup(src) # Lookup(dst)

CopyStdStat(p) ==
  /\ pc[p] = "std_stat"
  /\ IF StdCopyAllowed(Src(p), Dst(p), call[p].overwrite)
     THEN /\ Goto(p, "open_src")
          /\ SetIo(p, [io[p] EXCEPT !.len = Len(inode[Lookup(Src(p))].data)])
     ELSE /\ Return(p, FALSE)
          /\ UNCHANGED io
  /\ UNCHANGED <<fsVars, made, dropped>>

(* The ways out that have only the source open close it again.             *)
LeaveSourceOpen(p) == UNCHANGED io       \* faulty variant
CloseSource(p)     == SetIo(p, Closed)

(* Both builds open the source; only the C one then asks for its size.     *)
CopyOpenSource(p) ==
  /\ pc[p] = "open_src"
  /\ IF Exists(Src(p))
     THEN /\ Goto(p, IF BuiltC(p) THEN "fstat" ELSE "open_dst")
          /\ SetIo(p, [io[p] EXCEPT !.rid = Lookup(Src(p))])
     ELSE /\ Return(p, FALSE)
          /\ SetIo(p, Closed)
  /\ UNCHANGED <<fsVars, made, dropped>>

(* A directory can be opened for reading and has a size, but no bytes to   *)
(* be copied: copy_file_range will fail with EISDIR.                       *)
Size(i) == IF inode[i].kind = "dir" THEN 1 ELSE Len(inode[i].data)

CopyFstat(p) ==
  /\ pc[p] = "fstat"
  /\ \/ /\ Goto(p, "open_dst")
        /\ SetIo(p, [io[p] EXCEPT !.len = Size(io[p].rid)])
     \/ /\ MayFail
        /\ Return(p, FALSE)
        /\ CloseSource(p)
  /\ UNCHANGED <<fsVars, made, dropped>>

(* O_CREAT | O_WRONLY | O_TRUNC, with O_EXCL unless overwriting.           *)
NeverExcl(p) == FALSE                    \* faulty variant
Excl(p)      == ~ call[p].overwrite

Opened(p, i) ==
  /\ Goto(p, IF BuiltC(p) THEN "copy" ELSE "fchmod")
  /\ SetIo(p, [io[p] EXCEPT !.wid = i, !.remaining = io[p].len, !.ret = io[p].len])

CopyOpenDest(p) ==
  /\ pc[p] = "open_dst"
  /\ \/ /\ OpenCreates(Dst(p), Excl(p))
        /\ Bind(End(Dst(p)), NewFile)
        /\ NoteMade(p)
        /\ Opened(p, nextIno)
     \/ /\ OpenTruncates(Dst(p), Excl(p))
        /\ SetData(Lookup(Dst(p)), <<>>)
        /\ Opened(p, Lookup(Dst(p)))
        /\ UNCHANGED made
     \/ /\ OpenFails(Dst(p), Excl(p)) \/ MayFail
        /\ Return(p, FALSE)
        /\ CloseSource(p)
        /\ UNCHANGED <<fsVars, made>>
  /\ UNCHANGED dropped

(* std::filesystem::copy_file gives dest the permissions of the source,    *)
(* which only the owner of dest may do.                                    *)
CopyFchmod(p) ==
  /\ pc[p] = "fchmod"
  /\ \/ /\ inode[io[p].wid].access = "own"
        /\ Goto(p, "copy")
        /\ UNCHANGED io
     \/ /\ inode[io[p].wid].access # "own" \/ MayFail
        /\ Return(p, FALSE)
        /\ SetIo(p, Closed)
  /\ UNCHANGED <<fsVars, made, dropped>>

(***************************************************************************)
(* The copy loop: while (remaining > 0 && ret > 0).  An iteration copies   *)
(* any part of what is left, or nothing if the source has become shorter   *)
(* than it was, or fails (-1): on a full disk, when the source is a        *)
(* directory, or when both descriptors are the same file and the ranges    *)
(* overlap (EINVAL).                                                       *)
(***************************************************************************)
LoopWhileRemaining(r) == r.remaining > 0                \* faulty variant
LoopGoesOn(r)         == r.remaining > 0 /\ r.ret > 0

Offset(r) == r.len - r.remaining

Available(r) ==
  IF Len(inode[r.rid].data) > Offset(r) THEN Len(inode[r.rid].data) - Offset(r) ELSE 0

ToEndOfFile(r) == Available(r)                          \* faulty variant
AtMost(r)      == IF Available(r) < r.remaining THEN Available(r) ELSE r.remaining

CopyChunk(p) ==
  LET r     == io[p]
      avail == Available(r)
  IN
  /\ pc[p] = "copy"
  /\ LoopGoesOn(r)
  /\ Goto(p, "copy")
  /\ \/ \E k \in 1..AtMost(r) :
          /\ r.rid # r.wid
          /\ SetData(r.wid, WriteAt(inode[r.wid].data, Offset(r),
                              SubSeq(inode[r.rid].data, Offset(r) + 1, Offset(r) + k)))
          /\ SetIo(p, [r EXCEPT !.remaining = @ - k, !.ret = k])
     \/ /\ avail = 0 /\ inode[r.rid].kind # "dir"
        /\ SetIo(p, [r EXCEPT !.ret = 0])
        /\ UNCHANGED fsVars
     \/ /\ MayFail \/ inode[r.rid].kind = "dir" \/ (r.rid = r.wid /\ avail > 0)
        /\ SetIo(p, [r EXCEPT !.ret = -1])
        /\ UNCHANGED fsVars
  /\ UNCHANGED <<made, dropped>>

CopyLoopEnds(p) ==
  /\ pc[p] = "copy"
  /\ ~ LoopGoesOn(io[p])
  /\ Goto(p, "close")
  /\ UNCHANGED <<fsVars, io, made, dropped>>

(* std::filesystem::copy_file reads on to the end of file instead of       *)
(* counting: on a source that became shorter it may answer either way.     *)
CopiedAnyway(r) == TRUE                                 \* faulty variant
Copied(r)       == r.ret >= 0 /\ r.remaining = 0

CopyClose(p) ==
  LET r == io[p] IN
  /\ pc[p] = "close"
  /\ SetIo(p, Closed)
  /\ \/ /\ Copied(r) \/ (~ BuiltC(p) /\ r.ret >= 0)
        /\ Return(p, TRUE)
     \/ /\ ~ Copied(r) \/ MayFail
        /\ Return(p, FALSE)
  /\ UNCHANGED <<fsVars, made, dropped>>
-----------------------------------------------------------------------------
(***************************************************************************)
(* fs_set_modtime, and fs_touch, which falls back on an output stream.     *)
(* utimensat with no times asks for write permission or ownership, with a  *)
(* given time (std::filesystem::last_write_time) for ownership.            *)
(***************************************************************************)
MaySetGivenTime(p) ==                                   \* faulty variant
  Exists(Src(p)) /\ inode[Lookup(Src(p))].access = "own"

MaySetTime(p) ==
  /\ Exists(Src(p))
  /\ inode[Lookup(Src(p))].access \in {"own"} \cup (IF BuiltC(p) THEN {"write"} ELSE {})

SetModtime(p) ==
  /\ pc[p] = "utime"
  /\ IF MaySetTime(p) THEN Return(p, TRUE)
     ELSE IF call[p].op = "touch" THEN Goto(p, "ofstream")
     ELSE Return(p, FALSE)
  /\ UNCHANGED <<fsVars, io, made, dropped>>

(* std::ofstream f(path): an output stream empties the file it opens.      *)
TouchOfstream(p) ==
  /\ pc[p] = "ofstream"
  /\ \/ /\ OpenCreates(Src(p), FALSE)
        /\ Bind(End(Src(p)), NewFile)
        /\ NoteMade(p)
        /\ Return(p, TRUE)
     \/ /\ OpenTruncates(Src(p), FALSE)
        /\ SetData(Lookup(Src(p)), <<>>)
        /\ Return(p, TRUE)
        /\ UNCHANGED made
     \/ /\ OpenFails(Src(p), FALSE) \/ MayFail
        /\ Return(p, FALSE)
        /\ UNCHANGED <<fsVars, made>>
  /\ UNCHANGED <<io, dropped>>

(* fs_remove: one remove(3), a missing path is a failure.                  *)
Remove(p) ==
  /\ pc[p] = "unlink"
  /\ \/ /\ Removable(Src(p))
        /\ Unbind(Src(p))
        /\ Drop({Src(p)})
        /\ Return(p, TRUE)
     \/ /\ ~ Removable(Src(p)) \/ MayFail
        /\ Return(p, FALSE)
        /\ UNCHANGED <<fsVars, dropped>>
  /\ UNCHANGED <<io, made>>

(* fs_rename: one rename(2).                                               *)
Rename(p) ==
  /\ pc[p] = "rename"
  /\ IF Renamable(Src(p), Dst(p))
     THEN /\ RenameEffect(Src(p), Dst(p))
          /\ Drop({n \in Name : entry'[n] # entry[n]})
          /\ Return(p, TRUE)
     ELSE /\ Return(p, FALSE)
          /\ UNCHANGED <<fsVars, dropped>>
  /\ UNCHANGED <<io, made>>

(***************************************************************************)
(* fs_create_symlink: the empty paths are refused; Src is the target and   *)
(* Dst the link.  The std::filesystem build first asks whether the target  *)
(* is a directory, but on POSIX both of its branches are symlink(2).       *)
(***************************************************************************)
CreateSymlink(p) ==
  /\ pc[p] = "symlink"
  /\ IF /\ Src(p) # NoName /\ Dst(p) # NoName
        /\ ~ Bound(Dst(p)) /\ nextIno <= MaxIno
     THEN /\ Bind(Dst(p), NewLink(Src(p)))
          /\ NoteMade(p)
          /\ Return(p, TRUE)
     ELSE /\ Return(p, FALSE)
          /\ UNCHANGED <<fsVars, made>>
  /\ UNCHANGED <<io, dropped>>

(* fs_is_symlink asks about the path itself, with lstat.                   *)
IsSymlinkByStat(n) == IsKind(n, "lnk")                  \* faulty variant
IsSymlink(n)       == IsLink(n)

(* fs_read_symlink: fs_is_symlink, then readlink; the empty string is the  *)
(* answer when either fails.                                               *)
ReadIsSymlink(p) ==
  /\ pc[p] = "is_symlink"
  /\ IF IsSymlink(Src(p)) THEN Goto(p, "readlink") ELSE Return(p, FALSE)
  /\ UNCHANGED <<fsVars, io, made, dropped>>

ReadLink(p) ==
  /\ pc[p] = "readlink"
  /\ pc' = [pc EXCEPT ![p] = "done"]
  /\ IF IsLink(Src(p))
     THEN /\ ok' = [ok EXCEPT ![p] = TRUE]
          /\ text' = [text EXCEPT ![p] = inode[entry[Src(p)]].to]
     ELSE UNCHANGED <<ok, text>>
  /\ UNCHANGED <<fsVars, io, call, nCalls, made, dropped>>
-----------------------------------------------------------------------------
(* The process dies; the kernel closes its descriptors.                    *)
Crash(p) ==
  /\ MayCrash
  /\ Busy(p)
  /\ Goto(p, "dead")
  /\ SetIo(p, Closed)
  /\ UNCHANGED <<fsVars, made, dropped>>

Step(p) ==
  /\ \/ CopyIsFile(p) \/ CopyRemoveDest(p) \/ CopyStdStat(p)
     \/ CopyOpenSource(p) \/ CopyFstat(p) \/ CopyOpenDest(p) \/ CopyFchmod(p)
     \/ CopyChunk(p) \/ CopyLoopEnds(p) \/ CopyClose(p)
     \/ SetModtime(p) \/ TouchOfstream(p)
     \/ Remove(p) \/ Rename(p)
     \/ CreateSymlink(p) \/ ReadIsSymlink(p) \/ ReadLink(p)
  /\ UNCHANGED nEnv
  /\ DisturbOthers({p})

Die(p) == Crash(p) /\ UNCHANGED <<nEnv, dirty>>

(* A program that does not use the library rewrites a file.                *)
EnvWrite(i, d) ==
  /\ nEnv < MaxEnv
  /\ inode[i].kind = "reg"
  /\ \E n \in Name : entry[n] = i
  /\ SetData(i, d)
  /\ nEnv' = nEnv + 1
  /\ UNCHANGED <<callVars, made, dropped>>
  /\ DisturbOthers({})

Next ==
  \/ \E p \in Proc : \/ \E c \in Calls : Begin(p, c)
                     \/ Step(p)
                     \/ Die(p)
  \/ \E i \in Ino, d \in EnvData : EnvWrite(i, d)

NoCall == [op |-> "remove", src |-> NoName, dst |-> NoName, overwrite |-> FALSE,
           build |-> "c"]

Init ==
  /\ \E d \in Dirs : entry = d.entry /\ inode = d.inode /\ nextIno = d.nextIno
  /\ call = [p \in Proc |-> NoCall]
  /\ pc = [p \in Proc |-> "idle"]
  /\ io = [p \in Proc |-> Closed]
  /\ ok = [p \in Proc |-> FALSE]
  /\ text = [p \in Proc |-> NoName]
  /\ nCalls = 0
  /\ nEnv = 0
  /\ dirty = [p \in Proc |-> FALSE]
  /\ made = [p \in Proc |-> NoIno]
  /\ dropped = {}

Spec == Init /\ [][Next]_vars

(* A process that has entered a call keeps running: the calls never wait   *)
(* for anyone.                                                             *)
FairSpec == Spec /\ \A p \in Proc : WF_vars(Step(p))
-----------------------------------------------------------------------------
(* p takes its next step: every step of a call moves pc or the counters.   *)
Moves(p, op) ==
  /\ call[p].op = op
  /\ Busy(p)
  /\ pc'[p] # pc[p] \/ io'[p] # io[p]

Returned(p, op, answer) ==
  /\ pc[p] = "done"
  /\ call[p].op = op
  /\ ok[p] = answer

(* A copy without overwrite never changes, replaces or unbinds anything    *)
(* that was there, whatever happens between its checks and its opening of  *)
(* dest: it only ever writes to the file it made itself.                   *)
NoClobber ==
  [][\A p \in Proc : Moves(p, "copy_file") /\ ~ call[p].overwrite =>
       /\ \A n \in Name : Bound(n) => entry'[n] = entry[n]
       /\ \A i \in Ino : inode[i].kind # "none" /\ i # made[p] => inode'[i] = inode[i]
    ]_vars

(* Of several copies without overwrite to one path that nobody removed or  *)
(* renamed, at most one is told that it succeeded.                         *)
ExclusiveWinner ==
  \A p, q \in Proc :
    /\ Returned(p, "copy_file", TRUE) /\ ~ call[p].overwrite
    /\ Returned(q, "copy_file", TRUE) /\ ~ call[q].overwrite
    /\ Dst(p) = Dst(q)
    /\ Dst(p) \notin dropped
    => p = q

(* A copy that returns true has made dest hold what source holds, unless   *)
(* someone else changed one of the two meanwhile.                          *)
CopyFaithful ==
  \A p \in Proc :
    Returned(p, "copy_file", TRUE) /\ ~ dirty[p] =>
      /\ Exists(Src(p)) /\ Exists(Dst(p))
      /\ IsKind(Src(p), "reg") =>
           inode[Lookup(Dst(p))].data = inode[Lookup(Src(p))].data

(* What the other calls answer is true of a directory nobody else changed: *)
(* the two-step ones as well as the single ones.                           *)
AnswersHold ==
  \A p \in Proc : ~ dirty[p] =>
    /\ Returned(p, "touch", TRUE) => Exists(Src(p))
    /\ Returned(p, "remove", TRUE) => ~ Bound(Src(p))
    /\ Returned(p, "rename", TRUE) => Bound(Dst(p))
    /\ Returned(p, "create_symlink", TRUE) =>
         IsLink(Dst(p)) /\ inode[entry[Dst(p)]].to = Src(p)
    /\ Returned(p, "read_symlink", TRUE) =>
         IsLink(Src(p)) /\ text[p] = inode[entry[Src(p)]].to
    /\ Returned(p, "read_symlink", FALSE) => ~ IsLink(Src(p)) /\ text[p] = NoName

(* Every way out of fs_copy_file, the early returns included, has closed   *)
(* both descriptors.                                                       *)
DescriptorsClosed ==
  \A p \in Proc : ~ Busy(p) => io[p].rid = NoIno /\ io[p].wid = NoIno

(* A touch of the C build that nobody interferes with takes nothing away   *)
(* from a file: it reaches the truncating fallback only for a path without *)
(* one.  (The other build: see TouchKeepsData.)                            *)
UndisturbedTouchKeepsData ==
  [][\A p \in Proc : Moves(p, "touch") /\ BuiltC(p) /\ ~ dirty[p] =>
       \A i \in Ino : inode[i].kind = "reg" => inode'[i].data = inode[i].data]_vars

(* API.md, touch: "create empty file if not a file", which says that a     *)
(* touch leaves the contents of what is a file alone.                      *)
TouchKeepsData ==
  [][\A p \in Proc : Moves(p, "touch") =>
       \A i \in Ino : inode[i].kind = "reg" => inode'[i].data = inode[i].data]_vars

(* Every call returns, whatever others do to its files: in particular the  *)
(* copy loop ends when the source becomes shorter than it was.             *)
CallsReturn == \A p \in Proc : Busy(p) ~> ~ Busy(p)
=============================================================================
