-------------------------- MODULE FileCalls_proofs --------------------------
(***************************************************************************)
(* Theorems about FileCalls for any number of processes, names and files,  *)
(* either build, any set of calls and any faults: type correctness, that   *)
(* every way out of fs_copy_file closes its descriptors, and that copies   *)
(* without overwrite leave what is there alone and that at most one of     *)
(* several to one path succeeds.                                           *)
(***************************************************************************)
EXTENDS FileCalls, SequenceTheorems, TLAPS

(***************************************************************************)
(* What the system calls of PosixFs preserve, for any names, any number of *)
(* files and any contents.                                                 *)
(***************************************************************************)
(* Names are bound to files handed out before; the rest is unused.         *)
FsInv ==
  /\ FsTypeOK
  /\ \A n \in Name : entry[n] < nextIno
  /\ \A i \in Ino : i >= nextIno => inode[i] = Unused

(* Following symlinks from any path ends at a name or at the empty path.   *)
LEMMA EndType ==
  ASSUME NEW n
  PROVE  End(n) \in Name \cup {NoName}
BY DEF End

(* Looking up a path gives an inode of the directory or none at all.       *)
LEMMA LookupType ==
  ASSUME FsTypeOK, NEW n
  PROVE  /\ Lookup(n) \in Ino \cup {NoIno}
         /\ Exists(n) => Lookup(n) \in Ino /\ Bound(End(n)) /\ Lookup(n) = entry[End(n)]
         /\ Exists(n) => End(n) \in Name
BY DEF Lookup, Bound, FsTypeOK, Exists, Ino, NoIno

(* An unused inode and a newly created file are files of the model.        *)
LEMMA UnusedType == Unused \in File /\ NewFile \in File
BY EmptySeq DEF Unused, NewFile, File, Kind, Access, Path

(* A newly created symlink is a file of the model.                         *)
LEMMA NewLinkType ==
  ASSUME NEW t \in Path
  PROVE  NewLink(t) \in File
BY UnusedType DEF Unused, NewLink, File, Kind, Access, Path

(* Writing blocks into a file at any offset leaves a file of blocks: what  *)
(* is beyond the old end and not written is a Hole.                        *)
LEMMA WriteAtType ==
  ASSUME NEW s \in Seq(Block), NEW o \in Nat, NEW c \in Seq(Block)
  PROVE  WriteAt(s, o, c) \in Seq(Block)
<1> DEFINE m == IF o + Len(c) > Len(s) THEN o + Len(c) ELSE Len(s)
<1>1. Len(s) \in Nat /\ Len(c) \in Nat
  BY LenProperties
<1>2. m \in Nat
  BY <1>1
<1>3. \A k \in 1..Len(s) : s[k] \in Block
  BY ElementOfSeq
<1>4. \A k \in 1..Len(c) : c[k] \in Block
  BY ElementOfSeq
<1>5. ASSUME NEW k \in 1..m
      PROVE  (IF k > o /\ k <= o + Len(c) THEN c[k - o]
              ELSE IF k <= Len(s) THEN s[k] ELSE Hole) \in Block
  <2>1. CASE k > o /\ k <= o + Len(c)
    <3>1. k - o \in 1..Len(c)
      BY <2>1, <1>1, <1>2
    <3> QED BY <3>1, <2>1, <1>4
  <2>2. CASE ~ (k > o /\ k <= o + Len(c)) /\ k <= Len(s)
    <3>1. k \in 1..Len(s)
      BY <2>2, <1>1, <1>2
    <3> QED BY <3>1, <2>2, <1>3
  <2>3. CASE ~ (k > o /\ k <= o + Len(c)) /\ ~ (k <= Len(s))
    BY <2>3, BlockAssumption
  <2> QED BY <2>1, <2>2, <2>3
<1>6. WriteAt(s, o, c) \in [1..m -> Block]
  BY <1>5 DEF WriteAt
<1> QED BY <1>2, <1>6, SeqDef

(* Binding an unbound name to a new file keeps the directory well formed.  *)
LEMMA BindKeepsFsInv ==
  ASSUME FsInv, NEW n \in Name, NEW file \in File, nextIno <= MaxIno, Bind(n, file)
  PROVE  FsInv'
<1>1. nextIno \in Ino /\ nextIno \in Nat /\ nextIno' = nextIno + 1
  BY InoAssumption DEF FsInv, FsTypeOK, Ino, Bind
<1>2. FsTypeOK'
  BY <1>1, InoAssumption DEF FsInv, FsTypeOK, Ino, NoIno, Bind
<1>3. \A k \in Name : entry'[k] < nextIno'
  BY <1>1, InoAssumption DEF FsInv, FsTypeOK, Ino, NoIno, Bind
<1>4. \A i \in Ino : i >= nextIno' => inode'[i] = Unused
  BY <1>1, InoAssumption DEF FsInv, FsTypeOK, Ino, NoIno, Bind
<1> QED BY <1>2, <1>3, <1>4 DEF FsInv

(* Unbinding a name keeps the directory well formed.                       *)
LEMMA UnbindKeepsFsInv ==
  ASSUME FsInv, NEW n \in Name, Unbind(n)
  PROVE  FsInv'
BY InoAssumption DEF FsInv, FsTypeOK, Ino, NoIno, Unbind

(* Changing the contents of a file that was handed out.                    *)
LEMMA SetDataKeepsFsInv ==
  ASSUME FsInv, NEW i \in Ino, NEW d \in Seq(Block), i < nextIno, SetData(i, d)
  PROVE  FsInv'
<1>1. [inode[i] EXCEPT !.data = d] \in File
  BY DEF FsInv, FsTypeOK, File
<1>2. inode' = [inode EXCEPT ![i] = [inode[i] EXCEPT !.data = d]]
  BY DEF SetData, FsInv, FsTypeOK
<1>3. inode' \in [Ino -> File]
  BY <1>1, <1>2 DEF FsInv, FsTypeOK
<1>4. \A j \in Ino : j # i => inode'[j] = inode[j]
  BY <1>2 DEF FsInv, FsTypeOK
<1>5. i \in Nat /\ nextIno \in Nat
  BY InoAssumption DEF FsInv, FsTypeOK, Ino
<1>6. \A j \in Ino : j >= nextIno => inode'[j] = Unused
  BY <1>4, <1>5, InoAssumption DEF FsInv, Ino
<1> QED BY <1>3, <1>6 DEF FsInv, FsTypeOK, SetData

(* Renaming keeps the directory well formed.                               *)
LEMMA RenameKeepsFsInv ==
  ASSUME FsInv, NEW m, NEW n, Renamable(m, n), RenameEffect(m, n)
  PROVE  FsInv'
<1>1. m \in Name /\ n \in Name
  BY DEF Renamable, Bound
<1>2. entry' \in [Name -> Ino \cup {NoIno}] /\ \A k \in Name : entry'[k] < nextIno
  BY <1>1, InoAssumption DEF FsInv, FsTypeOK, Ino, NoIno, RenameEffect
<1> QED BY <1>2 DEF FsInv, FsTypeOK, RenameEffect
-----------------------------------------------------------------------------
(***************************************************************************)
(* Types, and the descriptors of fs_copy_file.                             *)
(***************************************************************************)
Reading == {"fstat", "open_dst", "fchmod", "copy", "close"}
Writing == {"fchmod", "copy", "close"}

(* What the descriptors and counters r of fs_copy_file may be at label l,  *)
(* with n files handed out before.                                         *)
Fits(l, r, n) ==
  /\ l \in Reading <=> r.rid # NoIno
  /\ l \in Writing <=> r.wid # NoIno
  /\ l \notin Writing => r.remaining = 0
  /\ r.remaining <= r.len
  /\ r.rid < n
  /\ r.wid < n

IoInv(p) == Fits(pc[p], io[p], nextIno)

LocalsOK ==
  /\ call \in [Proc -> Call]
  /\ pc \in [Proc -> Labels \cup Rest]
  /\ io \in [Proc -> Io]
  /\ ok \in [Proc -> BOOLEAN]
  /\ text \in [Proc -> Path]
  /\ nCalls \in 0..MaxCalls
  /\ nEnv \in 0..MaxEnv
  /\ made \in [Proc -> Ino \cup {NoIno}]
  /\ dropped \subseteq Name
  /\ \A p \in Proc : IoInv(p)

TypeInv == FsInv /\ LocalsOK /\ dirty \in [Proc -> BOOLEAN]

(* The inductive invariant gives the type invariant and the closing of     *)
(* descriptors that the runs check.                                        *)
LEMMA TypeInvImplies == TypeInv => TypeOK /\ DescriptorsClosed
BY DEF TypeInv, FsInv, LocalsOK, TypeOK, DescriptorsClosed, IoInv, Fits, Busy, Labels,
       Reading, Writing

(* Closed descriptors are a value of io.                                   *)
LEMMA ClosedType == Closed \in Io
BY InoAssumption DEF Closed, Io, Ino, NoIno

(* Recording a disturbance keeps the history variable in its type.         *)
LEMMA DirtyType ==
  ASSUME dirty \in [Proc -> BOOLEAN], NEW S, DisturbOthers(S)
  PROVE  dirty' \in [Proc -> BOOLEAN]
BY DEF DisturbOthers

(* TypeInv holds before any call is made.                                  *)
LEMMA InitTypeInv == Init => TypeInv
<1> SUFFICES ASSUME Init PROVE TypeInv
  OBVIOUS
<1>1. FsInv
  BY DirsAssumption DEF Init, Directory, FsInv, FsTypeOK
<1>2. NoCall \in Call
  BY DEF NoCall, Call, Op, Path
<1>3. nextIno \in Nat \ {0}
  BY <1>1, InoAssumption DEF FsInv, FsTypeOK
<1>4. LocalsOK
  BY <1>2, <1>3, ClosedType, BoundsAssumption
  DEF Init, LocalsOK, IoInv, Fits, Closed, Labels, Rest, Reading, Writing, NoIno, Path
<1> QED BY <1>1, <1>4 DEF TypeInv, Init

(***************************************************************************)
(* One lemma per group of actions: a step of p keeps the directory and the *)
(* locals in shape.  Facts about nextIno used throughout come first.       *)
(***************************************************************************)
LEMMA Numbers ==
  ASSUME FsInv
  PROVE  /\ nextIno \in Nat /\ nextIno >= 1 /\ nextIno <= MaxIno + 1
         /\ \A i \in Ino \cup {NoIno} : i \in Nat
         /\ \A i \in Ino : inode[i] \in File /\ inode[i].data \in Seq(Block)
                           /\ Len(inode[i].data) \in Nat
         /\ \A n : Lookup(n) \in Ino \cup {NoIno} /\ Lookup(n) < nextIno
<1>1. nextIno \in Nat /\ nextIno >= 1 /\ nextIno <= MaxIno + 1
  BY InoAssumption DEF FsInv, FsTypeOK
<1>2. \A i \in Ino \cup {NoIno} : i \in Nat
  BY InoAssumption DEF Ino, NoIno
<1>3. \A i \in Ino : inode[i] \in File /\ inode[i].data \in Seq(Block)
  BY DEF FsInv, FsTypeOK, File
<1>4. \A i \in Ino : Len(inode[i].data) \in Nat
  BY <1>3, LenProperties
<1>5. ASSUME NEW n PROVE Lookup(n) \in Ino \cup {NoIno} /\ Lookup(n) < nextIno
  BY <1>1, <1>2, LookupType DEF FsInv, Exists, NoIno, Bound
<1> QED BY <1>1, <1>2, <1>3, <1>4, <1>5

(* A step of p that moves it to label l with counters r.                   *)
LEMMA LocalsStep ==
  ASSUME FsInv, LocalsOK, nextIno' \in Nat, nextIno' >= nextIno,
         NEW p \in Proc, NEW l \in Labels \cup Rest, NEW r \in Io,
         Fits(l, r, nextIno'),
         pc' = [pc EXCEPT ![p] = l], io' = [io EXCEPT ![p] = r],
         call' \in [Proc -> Call], ok' \in [Proc -> BOOLEAN], text' \in [Proc -> Path],
         nCalls' \in 0..MaxCalls, nEnv' \in 0..MaxEnv,
         made' \in [Proc -> Ino \cup {NoIno}], dropped' \subseteq Name
  PROVE  LocalsOK'
<1>1. pc' \in [Proc -> Labels \cup Rest] /\ io' \in [Proc -> Io]
  BY DEF LocalsOK
<1>2. ASSUME NEW q \in Proc PROVE IoInv(q)'
  <2>1. CASE q = p
    BY <2>1 DEF LocalsOK, IoInv
  <2>2. CASE q # p
    <3>1. pc'[q] = pc[q] /\ io'[q] = io[q]
      BY <2>2 DEF LocalsOK
    <3>2. io[q].rid \in Nat /\ io[q].wid \in Nat
      BY Numbers DEF LocalsOK, Io
    <3> QED BY <3>1, <3>2, Numbers DEF LocalsOK, IoInv, Fits
  <2> QED BY <2>1, <2>2
<1> QED BY <1>1, <1>2 DEF LocalsOK

(* The two shapes of a step of a call, as FileCalls writes them.            *)
LEMMA GotoKeepsLocals ==
  ASSUME FsInv, LocalsOK, nextIno' \in Nat, nextIno' >= nextIno,
         NEW p \in Proc, NEW l \in Labels \cup Rest, NEW r \in Io,
         Goto(p, l), SetIo(p, r), Fits(l, r, nextIno'), UNCHANGED nEnv,
         made' \in [Proc -> Ino \cup {NoIno}], dropped' \subseteq Name
  PROVE  LocalsOK'
<1>1. /\ call' \in [Proc -> Call] /\ ok' \in [Proc -> BOOLEAN]
      /\ text' \in [Proc -> Path] /\ nCalls' \in 0..MaxCalls /\ nEnv' \in 0..MaxEnv
  BY DEF LocalsOK, Goto
<1>2. pc' = [pc EXCEPT ![p] = l] /\ io' = [io EXCEPT ![p] = r]
  BY DEF Goto, SetIo
<1> QED BY <1>1, <1>2, LocalsStep

(* A call that returns with locals that fit a finished call keeps the shape.*)
LEMMA ReturnKeepsLocals ==
  ASSUME FsInv, LocalsOK, nextIno' \in Nat, nextIno' >= nextIno,
         NEW p \in Proc, NEW b \in BOOLEAN, NEW r \in Io,
         Return(p, b), SetIo(p, r), Fits("done", r, nextIno'), UNCHANGED nEnv,
         made' \in [Proc -> Ino \cup {NoIno}], dropped' \subseteq Name
  PROVE  LocalsOK'
<1>1. /\ call' \in [Proc -> Call] /\ ok' \in [Proc -> BOOLEAN]
      /\ text' \in [Proc -> Path] /\ nCalls' \in 0..MaxCalls /\ nEnv' \in 0..MaxEnv
  BY DEF LocalsOK, Return
<1>2. pc' = [pc EXCEPT ![p] = "done"] /\ io' = [io EXCEPT ![p] = r] /\ "done" \in Labels \cup Rest
  BY DEF Return, SetIo, Rest
<1> QED BY <1>1, <1>2, LocalsStep

(* What is known of p before its step, and the forms "io is unchanged" and *)
(* "io is closed" take in the two lemmas above.                            *)
LEMMA AtStep ==
  ASSUME TypeInv, NEW p \in Proc
  PROVE  /\ FsInv /\ LocalsOK
         /\ io[p] \in Io /\ Fits(pc[p], io[p], nextIno)
         /\ call[p] \in Call /\ Src(p) \in Path /\ Dst(p) \in Path
         /\ call[p].overwrite \in BOOLEAN
         /\ made \in [Proc -> Ino \cup {NoIno}] /\ dropped \subseteq Name
         /\ UNCHANGED io => SetIo(p, io[p])
BY DEF TypeInv, LocalsOK, IoInv, Call, Src, Dst, SetIo

(* Closed descriptors fit a call that has returned and one that died.      *)
LEMMA ClosedFits ==
  ASSUME NEW n \in Nat, n >= 1, NEW l \in {"done", "dead"}
  PROVE  Fits(l, Closed, n)
BY DEF Fits, Closed, Reading, Writing, NoIno

(* Steps that leave the directory alone and at most close descriptors.     *)
LEMMA QuietSteps ==
  ASSUME TypeInv, NEW p \in Proc, UNCHANGED nEnv,
         CopyIsFile(p) \/ CopyStdStat(p) \/ CopyOpenSource(p) \/ CopyFstat(p)
         \/ CopyFchmod(p) \/ CopyLoopEnds(p) \/ CopyClose(p)
         \/ SetModtime(p) \/ ReadIsSymlink(p) \/ ReadLink(p) \/ Crash(p)
  PROVE  FsInv' /\ LocalsOK'
<1>1. UNCHANGED <<fsVars, made, dropped>>
  BY DEF CopyIsFile, CopyStdStat, CopyOpenSource, CopyFstat, CopyFchmod, CopyLoopEnds,
         CopyClose, SetModtime, ReadIsSymlink, ReadLink, Crash
<1>2. FsInv /\ LocalsOK /\ made' \in [Proc -> Ino \cup {NoIno}] /\ dropped' \subseteq Name
  BY <1>1, AtStep
<1>3. FsInv'
  BY <1>1, <1>2 DEF fsVars, FsInv, FsTypeOK
<1> SUFFICES LocalsOK'
  BY <1>3
<1>4. nextIno \in Nat /\ nextIno' = nextIno /\ nextIno' \in Nat /\ nextIno' >= nextIno
      /\ nextIno >= 1
  BY <1>1, <1>2, Numbers DEF fsVars
<1>5. io[p] \in Io /\ Fits(pc[p], io[p], nextIno) /\ (UNCHANGED io => SetIo(p, io[p]))
  BY AtStep
<1>6. ASSUME NEW l \in Labels \cup Rest, NEW r \in Io, Goto(p, l), SetIo(p, r),
             Fits(l, r, nextIno)
      PROVE  LocalsOK'
  <2>1. Fits(l, r, nextIno')
    BY <1>4, <1>6
  <2> QED BY <2>1, <1>2, <1>4, <1>6, GotoKeepsLocals
<1>7. ASSUME NEW b \in BOOLEAN, NEW r \in Io, Return(p, b), SetIo(p, r),
             Fits("done", r, nextIno)
      PROVE  LocalsOK'
  <2>1. Fits("done", r, nextIno')
    BY <1>4, <1>7
  <2> QED BY <2>1, <1>2, <1>4, <1>7, ReturnKeepsLocals
<1>8. ASSUME NEW b \in BOOLEAN, Return(p, b), SetIo(p, Closed) PROVE LocalsOK'
  BY <1>4, <1>7, <1>8, ClosedType, ClosedFits
<1>9. ASSUME UNCHANGED io, NEW b \in BOOLEAN, Return(p, b), pc[p] \notin Reading
      PROVE  LocalsOK'
  <2>1. Fits("done", io[p], nextIno)
    BY <1>5, <1>9 DEF Fits, Reading, Writing
  <2> QED BY <2>1, <1>5, <1>7, <1>9
<1>10. ASSUME UNCHANGED io, NEW l \in Labels \cup Rest, Goto(p, l),
              l \in Reading <=> pc[p] \in Reading, l \in Writing <=> pc[p] \in Writing
       PROVE  LocalsOK'
  <2>1. Fits(l, io[p], nextIno)
    BY <1>5, <1>10 DEF Fits
  <2> QED BY <2>1, <1>5, <1>6, <1>10
<1>11. CASE CopyIsFile(p)
  <2>1. PICK l \in {"remove_dst", "std_stat"} : Goto(p, l)
    BY <1>11 DEF CopyIsFile
  <2> QED BY <2>1, <1>10, <1>11 DEF CopyIsFile, Reading, Writing, Labels
<1>12. CASE CopyStdStat(p)
  <2>1. CASE StdCopyAllowed(Src(p), Dst(p), call[p].overwrite)
    <3> DEFINE r == [io[p] EXCEPT !.len = Len(inode[Lookup(Src(p))].data)]
    <3>1. Len(inode[Lookup(Src(p))].data) \in Nat
      BY <2>1, <1>2, Numbers DEF StdCopyAllowed, IsKind, Exists
    <3>2. r \in Io /\ Fits("open_src", r, nextIno)
      BY <3>1, <1>5, <1>12 DEF CopyStdStat, Io, Fits, Reading, Writing
    <3>3. Goto(p, "open_src") /\ SetIo(p, r)
      BY <2>1, <1>12 DEF CopyStdStat
    <3> QED BY <3>2, <3>3, <1>6 DEF Labels
  <2>2. CASE ~ StdCopyAllowed(Src(p), Dst(p), call[p].overwrite)
    <3>1. Return(p, FALSE) /\ UNCHANGED io /\ pc[p] \notin Reading
      BY <2>2, <1>12 DEF CopyStdStat, Reading
    <3> QED BY <3>1, <1>9
  <2> QED BY <2>1, <2>2
<1>13. CASE CopyOpenSource(p)
  <2>1. CASE Exists(Src(p))
    <3> DEFINE r == [io[p] EXCEPT !.rid = Lookup(Src(p))]
    <3>1. Lookup(Src(p)) \in Ino /\ Lookup(Src(p)) < nextIno /\ Lookup(Src(p)) # NoIno
      BY <2>1, <1>2, Numbers DEF Exists
    <3>2. r \in Io /\ Fits("fstat", r, nextIno) /\ Fits("open_dst", r, nextIno)
      BY <3>1, <1>5, <1>13 DEF CopyOpenSource, Io, Fits, Reading, Writing
    <3>3. PICK l \in {"fstat", "open_dst"} : Goto(p, l) /\ SetIo(p, r)
      BY <2>1, <1>13 DEF CopyOpenSource
    <3> QED BY <3>2, <3>3, <1>6 DEF Labels
  <2>2. CASE ~ Exists(Src(p))
    BY <2>2, <1>8, <1>13 DEF CopyOpenSource
  <2> QED BY <2>1, <2>2
<1>14. CASE CopyFstat(p)
  <2> DEFINE r == [io[p] EXCEPT !.len = Size(io[p].rid)]
  <2>1. io[p].rid \in Ino
    BY <1>5, <1>14 DEF CopyFstat, Io, Fits, Reading
  <2>2. Size(io[p].rid) \in Nat
    BY <2>1, <1>2, Numbers DEF Size
  <2>3. r \in Io /\ Fits("open_dst", r, nextIno)
    BY <2>2, <1>5, <1>14 DEF CopyFstat, Io, Fits, Reading, Writing
  <2>4. CASE Goto(p, "open_dst") /\ SetIo(p, r)
    BY <2>3, <2>4, <1>6 DEF Labels
  <2>5. CASE Return(p, FALSE) /\ CloseSource(p)
    BY <2>5, <1>8 DEF CloseSource
  <2> QED BY <2>4, <2>5, <1>14 DEF CopyFstat
<1>15. CASE CopyFchmod(p)
  <2>1. CASE Goto(p, "copy") /\ UNCHANGED io
    BY <2>1, <1>10, <1>15 DEF CopyFchmod, Reading, Writing, Labels
  <2>2. CASE Return(p, FALSE) /\ SetIo(p, Closed)
    BY <2>2, <1>8
  <2> QED BY <2>1, <2>2, <1>15 DEF CopyFchmod
<1>16. CASE CopyLoopEnds(p)
  BY <1>10, <1>16 DEF CopyLoopEnds, Reading, Writing, Labels
<1>17. CASE CopyClose(p)
  <2>1. SetIo(p, Closed) /\ (Return(p, TRUE) \/ Return(p, FALSE))
    BY <1>17 DEF CopyClose
  <2> QED BY <2>1, <1>8
<1>18. CASE SetModtime(p)
  BY <1>9, <1>10, <1>18 DEF SetModtime, Reading, Writing, Labels
<1>19. CASE ReadIsSymlink(p)
  BY <1>9, <1>10, <1>19 DEF ReadIsSymlink, Reading, Writing, Labels
<1>20. CASE ReadLink(p)
  <2>1. IsLink(Src(p)) => inode[entry[Src(p)]].to \in Path
    BY <1>2 DEF IsLink, Bound, FsInv, FsTypeOK, File
  <2>2. /\ call' \in [Proc -> Call] /\ ok' \in [Proc -> BOOLEAN]
        /\ text' \in [Proc -> Path] /\ nCalls' \in 0..MaxCalls /\ nEnv' \in 0..MaxEnv
    BY <1>2, <1>20, <2>1 DEF ReadLink, LocalsOK
  <2>3. /\ pc' = [pc EXCEPT ![p] = "done"] /\ "done" \in Labels \cup Rest
        /\ io' = [io EXCEPT ![p] = io[p]]
    BY <1>5, <1>20 DEF ReadLink, Rest, SetIo
  <2>4. Fits("done", io[p], nextIno')
    BY <1>4, <1>5, <1>20 DEF ReadLink, Fits, Reading, Writing
  <2> QED BY <2>2, <2>3, <2>4, <1>2, <1>4, <1>5, LocalsStep
<1>21. CASE Crash(p)
  <2>1. Goto(p, "dead") /\ SetIo(p, Closed) /\ Fits("dead", Closed, nextIno)
    BY <1>4, <1>21, ClosedFits DEF Crash
  <2> QED BY <2>1, <1>6, ClosedType DEF Rest
<1> QED BY <1>11, <1>12, <1>13, <1>14, <1>15, <1>16, <1>17, <1>18, <1>19, <1>20, <1>21

(* Steps that unbind or rename: the files stay as they are.                *)
LEMMA UnbindingSteps ==
  ASSUME TypeInv, NEW p \in Proc, UNCHANGED nEnv,
         CopyRemoveDest(p) \/ Remove(p) \/ Rename(p)
  PROVE  FsInv' /\ LocalsOK'
<1>1. FsInv /\ LocalsOK /\ io[p] \in Io /\ Fits(pc[p], io[p], nextIno) /\ SetIo(p, io[p])
      /\ made' \in [Proc -> Ino \cup {NoIno}] /\ dropped \subseteq Name
  BY AtStep DEF CopyRemoveDest, Remove, Rename
<1>2. nextIno' = nextIno /\ nextIno' \in Nat /\ nextIno' >= nextIno
  <2>1. nextIno' = nextIno
    BY DEF CopyRemoveDest, Remove, Rename, Unbind, RenameEffect, fsVars
  <2> QED BY <2>1, <1>1, Numbers
<1>3. FsInv'
  <2>1. CASE UNCHANGED fsVars
    BY <2>1, <1>1 DEF fsVars, FsInv, FsTypeOK
  <2>2. CASE Removable(Dst(p)) /\ Unbind(Dst(p))
    BY <2>2, <1>1, UnbindKeepsFsInv DEF Removable, Bound
  <2>3. CASE Removable(Src(p)) /\ Unbind(Src(p))
    BY <2>3, <1>1, UnbindKeepsFsInv DEF Removable, Bound
  <2>4. CASE Renamable(Src(p), Dst(p)) /\ RenameEffect(Src(p), Dst(p))
    BY <2>4, <1>1, RenameKeepsFsInv
  <2> QED BY <2>1, <2>2, <2>3, <2>4 DEF CopyRemoveDest, Remove, Rename
<1>4. dropped' \subseteq Name
  BY <1>1 DEF CopyRemoveDest, Remove, Rename, Drop, Removable, Bound
<1>5. Fits("std_stat", io[p], nextIno') /\ Fits("done", io[p], nextIno')
  BY <1>1, <1>2 DEF CopyRemoveDest, Remove, Rename, Fits, Reading, Writing
<1>6. CASE CopyRemoveDest(p)
  <2>1. Goto(p, "std_stat") /\ "std_stat" \in Labels \cup Rest
    BY <1>6 DEF CopyRemoveDest, Labels
  <2>2. LocalsOK'
    BY <2>1, <1>1, <1>2, <1>4, <1>5, GotoKeepsLocals
  <2> QED BY <2>2, <1>3
<1>7. CASE Remove(p) \/ Rename(p)
  <2>1. PICK b \in BOOLEAN : Return(p, b)
    BY <1>7 DEF Remove, Rename
  <2>2. LocalsOK'
    BY <2>1, <1>1, <1>2, <1>4, <1>5, ReturnKeepsLocals
  <2> QED BY <2>2, <1>3
<1> QED BY <1>6, <1>7

(* New files, symlinks and unused inodes are files of the model.           *)
LEMMA FileTypes ==
  /\ NewFile \in File
  /\ \A t \in Path : NewLink(t) \in File
BY UnusedType, NewLinkType DEF NewFile, File, Unused, Kind

(* Opening for writing either binds a new file or empties one that exists. *)
LEMMA OpenKeepsFsInv ==
  ASSUME FsInv, NEW n, NEW x \in BOOLEAN,
         \/ OpenCreates(n, x) /\ Bind(End(n), NewFile)
         \/ OpenTruncates(n, x) /\ SetData(Lookup(n), <<>>)
         \/ UNCHANGED fsVars
  PROVE  FsInv' /\ nextIno' \in Nat /\ nextIno' >= nextIno
<1>1. CASE OpenCreates(n, x) /\ Bind(End(n), NewFile)
  <2>1. End(n) \in Name /\ nextIno <= MaxIno
    BY <1>1, EndType DEF OpenCreates, Path
  <2>2. FsInv'
    BY <2>1, <1>1, FileTypes, BindKeepsFsInv
  <2> QED BY <2>2, <1>1, Numbers DEF Bind
<1>2. CASE OpenTruncates(n, x) /\ SetData(Lookup(n), <<>>)
  <2>1. Lookup(n) \in Ino /\ Lookup(n) < nextIno
    BY <1>2, Numbers DEF OpenTruncates, IsKind, Exists
  <2>2. <<>> \in Seq(Block)
    BY EmptySeq
  <2>3. FsInv'
    BY <2>1, <2>2, <1>2, SetDataKeepsFsInv
  <2> QED BY <2>3, <1>2, Numbers DEF SetData
<1>3. CASE UNCHANGED fsVars
  BY <1>3, Numbers DEF fsVars, FsInv, FsTypeOK
<1> QED BY <1>1, <1>2, <1>3

(* Steps that open for writing, or create a symlink.                       *)
LEMMA CreatingSteps ==
  ASSUME TypeInv, NEW p \in Proc, UNCHANGED nEnv,
         CopyOpenDest(p) \/ TouchOfstream(p) \/ CreateSymlink(p)
  PROVE  FsInv' /\ LocalsOK'
<1>1. FsInv /\ LocalsOK /\ io[p] \in Io /\ Fits(pc[p], io[p], nextIno)
      /\ (UNCHANGED io => SetIo(p, io[p])) /\ Src(p) \in Path /\ Dst(p) \in Path
      /\ made \in [Proc -> Ino \cup {NoIno}] /\ dropped' \subseteq Name
  BY AtStep DEF CopyOpenDest, TouchOfstream, CreateSymlink
<1>2. nextIno \in Nat /\ nextIno >= 1
  BY <1>1, Numbers
<1>3. Excl(p) \in BOOLEAN
  BY AtStep DEF Excl
<1>4. FsInv' /\ nextIno' \in Nat /\ nextIno' >= nextIno
  <2>1. CASE CopyOpenDest(p)
    BY <2>1, <1>1, <1>3, OpenKeepsFsInv DEF CopyOpenDest
  <2>2. CASE TouchOfstream(p)
    BY <2>2, <1>1, OpenKeepsFsInv DEF TouchOfstream
  <2>3. CASE CreateSymlink(p) /\ UNCHANGED fsVars
    BY <2>3, <1>1, <1>2 DEF fsVars, FsInv, FsTypeOK
  <2>4. CASE Bind(Dst(p), NewLink(Src(p))) /\ Dst(p) # NoName /\ nextIno <= MaxIno
    <3>1. Dst(p) \in Name /\ NewLink(Src(p)) \in File
      BY <2>4, <1>1, FileTypes DEF Path
    <3>2. FsInv'
      BY <3>1, <2>4, <1>1, BindKeepsFsInv
    <3> QED BY <3>2, <2>4, <1>2 DEF Bind
  <2> QED BY <2>1, <2>2, <2>3, <2>4 DEF CreateSymlink
<1>5. made' \in [Proc -> Ino \cup {NoIno}]
  <2>1. NoteMade(p) /\ nextIno <= MaxIno => made' \in [Proc -> Ino \cup {NoIno}]
    BY <1>1, <1>2, InoAssumption DEF NoteMade, Ino
  <2> QED BY <2>1, <1>1 DEF CopyOpenDest, TouchOfstream, CreateSymlink, OpenCreates
<1>6. ASSUME NEW i \in Ino, i < nextIno', Opened(p, i), pc[p] = "open_dst"
      PROVE  LocalsOK'
  <2> DEFINE r == [io[p] EXCEPT !.wid = i, !.remaining = io[p].len, !.ret = io[p].len]
  <2>1. r \in Io
    <3>1. io[p].len \in Nat /\ io[p].len \in Int
      BY <1>1 DEF Io
    <3> QED BY <3>1, <1>1, <1>6 DEF Io
  <2>2. i # NoIno /\ io[p].rid \in Nat
    BY <1>1, Numbers, InoAssumption DEF Ino, NoIno, Io
  <2>3. Fits("copy", r, nextIno') /\ Fits("fchmod", r, nextIno')
    BY <2>2, <1>1, <1>2, <1>4, <1>6 DEF Fits, Reading, Writing, Io
  <2>4. PICK l \in {"copy", "fchmod"} : Goto(p, l) /\ SetIo(p, r)
    BY <1>6 DEF Opened
  <2>5. l \in Labels \cup Rest /\ Fits(l, r, nextIno')
    BY <2>3, <2>4 DEF Labels
  <2> QED BY <2>1, <2>4, <2>5, <1>1, <1>4, <1>5, GotoKeepsLocals
<1>7. CASE CopyOpenDest(p)
  <2>1. pc[p] = "open_dst"
    BY <1>7 DEF CopyOpenDest
  <2>2. CASE OpenCreates(Dst(p), Excl(p)) /\ Bind(End(Dst(p)), NewFile) /\ Opened(p, nextIno)
    <3>1. nextIno \in Ino /\ nextIno < nextIno'
      BY <2>2, <1>2, InoAssumption DEF OpenCreates, Bind, Ino
    <3> QED BY <3>1, <2>1, <2>2, <1>4, <1>6
  <2>3. CASE OpenTruncates(Dst(p), Excl(p)) /\ SetData(Lookup(Dst(p)), <<>>)
             /\ Opened(p, Lookup(Dst(p)))
    <3>1. Lookup(Dst(p)) \in Ino /\ Lookup(Dst(p)) < nextIno'
      BY <2>3, <1>1, Numbers DEF OpenTruncates, IsKind, Exists, SetData
    <3> QED BY <3>1, <2>1, <2>3, <1>4, <1>6
  <2>4. CASE Return(p, FALSE) /\ CloseSource(p)
    <3>1. nextIno' >= 1
      BY <1>2, <1>4
    <3>2. Fits("done", Closed, nextIno')
      BY <3>1, <1>4, ClosedFits
    <3>3. LocalsOK'
      BY <3>2, <2>4, <1>1, <1>4, <1>5, ClosedType, ReturnKeepsLocals DEF CloseSource
    <3> QED BY <3>3, <1>4
  <2> QED BY <2>2, <2>3, <2>4, <1>7 DEF CopyOpenDest
<1>8. CASE TouchOfstream(p) \/ CreateSymlink(p)
  <2>1. PICK b \in BOOLEAN : Return(p, b)
    BY <1>8 DEF TouchOfstream, CreateSymlink
  <2>2. SetIo(p, io[p])
    BY <1>1, <1>8 DEF TouchOfstream, CreateSymlink
  <2>3. Fits("done", io[p], nextIno')
    <3>1. pc[p] \notin Reading
      BY <1>8 DEF TouchOfstream, CreateSymlink, Reading
    <3>2. io[p].rid = NoIno /\ io[p].wid = NoIno /\ io[p].remaining = 0 /\ nextIno' >= 1
      BY <3>1, <1>1, <1>2, <1>4 DEF Fits, Reading, Writing
    <3> QED BY <3>2, <1>1, <1>4 DEF Fits, Reading, Writing, NoIno
  <2>4. LocalsOK'
    BY <2>1, <2>2, <2>3, <1>1, <1>4, <1>5, ReturnKeepsLocals
  <2> QED BY <2>4, <1>4
<1> QED BY <1>7, <1>8

(* An iteration of the copy loop writes blocks and counts down.            *)
LEMMA ChunkStep ==
  ASSUME TypeInv, NEW p \in Proc, UNCHANGED nEnv, CopyChunk(p)
  PROVE  FsInv' /\ LocalsOK'
<1> DEFINE r == io[p]
           out(k) == SubSeq(inode[r.rid].data, Offset(r) + 1, Offset(r) + k)
           w(k) == WriteAt(inode[r.wid].data, Offset(r), out(k))
<1>1. FsInv /\ LocalsOK /\ r \in Io /\ Fits("copy", r, nextIno) /\ Goto(p, "copy")
      /\ made' \in [Proc -> Ino \cup {NoIno}] /\ dropped' \subseteq Name
  BY AtStep DEF CopyChunk
<1>2. r.rid \in Ino /\ r.wid \in Ino /\ r.wid < nextIno
  BY <1>1 DEF Fits, Reading, Writing, Io
<1>3. r.len \in Nat /\ r.remaining \in Nat /\ r.remaining <= r.len /\ Offset(r) \in Nat
  BY <1>1 DEF Io, Fits, Offset
<1>4. inode[r.rid].data \in Seq(Block) /\ Len(inode[r.rid].data) \in Nat
      /\ inode[r.wid].data \in Seq(Block)
  BY <1>1, <1>2, Numbers
<1>5. Available(r) \in Nat /\ AtMost(r) \in Nat /\ AtMost(r) <= r.remaining
      /\ (AtMost(r) > 0 => Offset(r) + AtMost(r) <= Len(inode[r.rid].data))
  <2> DEFINE n == Len(inode[r.rid].data)
             o == Offset(r)
  <2>1. n \in Nat /\ o \in Nat /\ r.remaining \in Nat
    BY <1>3, <1>4
  <2>2. Available(r) = IF n > o THEN n - o ELSE 0
    BY DEF Available
  <2>3. AtMost(r) = IF Available(r) < r.remaining THEN Available(r) ELSE r.remaining
    BY DEF AtMost
  <2> HIDE DEF n, o
  <2>4. /\ Available(r) \in Nat /\ AtMost(r) \in Nat /\ AtMost(r) <= r.remaining
        /\ AtMost(r) > 0 => o + AtMost(r) <= n
    BY <2>1, <2>2, <2>3
  <2> QED BY <2>4 DEF n, o
<1>6. nextIno \in Nat
  BY <1>1, Numbers
<1>7. ASSUME FsInv', nextIno' = nextIno, NEW q \in Io, SetIo(p, q), Fits("copy", q, nextIno)
      PROVE  FsInv' /\ LocalsOK'
  <2>1. nextIno' \in Nat /\ nextIno' >= nextIno /\ Fits("copy", q, nextIno')
        /\ "copy" \in Labels \cup Rest
    BY <1>6, <1>7 DEF Labels
  <2>2. LocalsOK'
    BY <2>1, <1>1, <1>7, GotoKeepsLocals DEF CopyChunk
  <2> QED BY <2>2, <1>7
<1>8. ASSUME NEW k \in 1..AtMost(r), SetData(r.wid, w(k)),
             SetIo(p, [r EXCEPT !.remaining = @ - k, !.ret = k])
      PROVE  FsInv' /\ LocalsOK'
  <2>1. k \in Nat /\ k >= 1 /\ k <= r.remaining /\ Offset(r) + k <= Len(inode[r.rid].data)
    BY <1>3, <1>4, <1>5, <1>8
  <2>2. out(k) \in Seq(Block)
    <3>1. \A j \in (Offset(r) + 1)..(Offset(r) + k) : j \in 1..Len(inode[r.rid].data)
      BY <2>1, <1>3, <1>4
    <3>2. Offset(r) + 1 \in Nat /\ Offset(r) + k \in Nat
      BY <2>1, <1>3
    <3> QED BY <3>1, <3>2, <2>1, <1>3, <1>4, SubSeqProperties
  <2>3. w(k) \in Seq(Block)
    BY <2>2, <1>3, <1>4, WriteAtType
  <2>4. FsInv'
    BY <2>3, <1>1, <1>2, <1>8, SetDataKeepsFsInv
  <2> DEFINE q == [r EXCEPT !.remaining = @ - k, !.ret = k]
  <2>5. r.remaining - k \in Nat /\ r.remaining - k <= r.len /\ k \in Int
    BY <2>1, <1>3
  <2>6. q \in Io
    BY <2>5, <1>1 DEF Io
  <2>7. Fits("copy", q, nextIno)
    BY <2>5, <1>1 DEF Fits, Reading, Writing, Io
  <2>8. nextIno' = nextIno
    BY <1>8 DEF SetData
  <2> QED BY <2>4, <2>6, <2>7, <2>8, <1>7, <1>8
<1>9. ASSUME NEW x \in {0, -1}, SetIo(p, [r EXCEPT !.ret = x]), UNCHANGED fsVars
      PROVE  FsInv' /\ LocalsOK'
  <2> DEFINE q == [r EXCEPT !.ret = x]
  <2>1. q \in Io /\ Fits("copy", q, nextIno)
    BY <1>1, <1>9 DEF Io, Fits, Reading, Writing
  <2>2. FsInv' /\ nextIno' = nextIno
    BY <1>1, <1>9 DEF fsVars, FsInv, FsTypeOK
  <2> QED BY <2>1, <2>2, <1>7, <1>9
<1> QED BY <1>8, <1>9 DEF CopyChunk

(* No step of anyone else disturbs the locals of a call.                   *)
LEMMA EnvWriteStep ==
  ASSUME TypeInv, NEW i \in Ino, NEW d \in EnvData, EnvWrite(i, d)
  PROVE  TypeInv'
<1>1. FsInv /\ LocalsOK /\ dirty' \in [Proc -> BOOLEAN] /\ nextIno' = nextIno
  BY DirtyType DEF TypeInv, EnvWrite, SetData
<1>2. i < nextIno
  BY <1>1 DEF EnvWrite, FsInv
<1>3. FsInv'
  BY <1>1, <1>2, EnvAssumption, SetDataKeepsFsInv DEF EnvWrite
<1>4. nEnv' \in 0..MaxEnv
  BY <1>1, BoundsAssumption DEF EnvWrite, LocalsOK
<1>5. LocalsOK'
  BY <1>1, <1>4 DEF EnvWrite, callVars, LocalsOK, IoInv
<1> QED BY <1>1, <1>3, <1>5 DEF TypeInv

(* Starting a call keeps TypeInv.                                          *)
LEMMA BeginStep ==
  ASSUME TypeInv, NEW p \in Proc, NEW c \in Calls, Begin(p, c)
  PROVE  TypeInv'
<1>1. FsInv /\ LocalsOK /\ c \in Call /\ io[p] \in Io /\ Fits(pc[p], io[p], nextIno)
  BY AtStep, CallsAssumption
<1>2. FsInv' /\ nextIno' = nextIno /\ nextIno' \in Nat /\ nextIno' >= nextIno
  BY <1>1, Numbers DEF Begin, fsVars, FsInv, FsTypeOK
<1>3. /\ call' \in [Proc -> Call] /\ ok' \in [Proc -> BOOLEAN]
      /\ text' \in [Proc -> Path] /\ nCalls' \in 0..MaxCalls /\ nEnv' \in 0..MaxEnv
      /\ made' \in [Proc -> Ino \cup {NoIno}] /\ dropped' \subseteq Name
  BY <1>1, BoundsAssumption DEF Begin, LocalsOK, Path
<1>4. FirstStep(c) \in Labels \ Reading
  BY <1>1 DEF FirstStep, Call, Op, Labels, Reading
<1>5. Fits(FirstStep(c), io[p], nextIno')
  BY <1>1, <1>2, <1>4 DEF Begin, Fits, Reading, Writing
<1>6. pc' = [pc EXCEPT ![p] = FirstStep(c)] /\ io' = [io EXCEPT ![p] = io[p]]
  BY <1>1 DEF Begin, LocalsOK
<1>7. LocalsOK'
  BY <1>1, <1>2, <1>3, <1>4, <1>5, <1>6, LocalsStep
<1>8. dirty' \in [Proc -> BOOLEAN]
  BY DEF Begin, TypeInv
<1> QED BY <1>2, <1>7, <1>8 DEF TypeInv

(* TypeInv is inductive.                                                   *)
LEMMA NextTypeInv == TypeInv /\ [Next]_vars => TypeInv'
<1> SUFFICES ASSUME TypeInv, [Next]_vars PROVE TypeInv'
  OBVIOUS
<1>1. ASSUME NEW p \in Proc, NEW c \in Calls, Begin(p, c) PROVE TypeInv'
  BY <1>1, BeginStep
<1>2. ASSUME NEW p \in Proc, Step(p) PROVE TypeInv'
  <2>1. dirty' \in [Proc -> BOOLEAN]
    BY <1>2, DirtyType DEF TypeInv, Step
  <2>2. FsInv' /\ LocalsOK'
    BY <1>2, QuietSteps, UnbindingSteps, CreatingSteps, ChunkStep DEF Step
  <2> QED BY <2>1, <2>2 DEF TypeInv
<1>3. ASSUME NEW p \in Proc, Die(p) PROVE TypeInv'
  BY <1>3, QuietSteps DEF Die, TypeInv
<1>4. ASSUME NEW i \in Ino, NEW d \in EnvData, EnvWrite(i, d) PROVE TypeInv'
  BY <1>4, EnvWriteStep
<1>5. CASE UNCHANGED vars
  BY <1>5 DEF vars, fsVars, callVars, history, TypeInv, FsInv, FsTypeOK, LocalsOK, IoInv
<1> QED BY <1>1, <1>2, <1>3, <1>4, <1>5 DEF Next

(* In every reachable state the directory is well formed and the locals of *)
(* each call fit the system call it makes next.                            *)
THEOREM TypeInvariant == Spec => []TypeInv
BY InitTypeInv, NextTypeInv, PTL DEF Spec

(* Whatever the processes call and whatever fails or dies under them, the  *)
(* directory and the locals of every call stay in their types: no counter  *)
(* of the copy loop goes below zero and no descriptor dangles.             *)
THEOREM TypeCorrect == Spec => []TypeOK
<1>1. TypeInv => TypeOK
  BY TypeInvImplies
<1> QED BY <1>1, TypeInvariant, PTL

(* Every way out of fs_copy_file has closed both descriptors.              *)
THEOREM DescriptorsAlwaysClosed == Spec => []DescriptorsClosed
<1>1. TypeInv => DescriptorsClosed
  BY TypeInvImplies
<1> QED BY <1>1, TypeInvariant, PTL
-----------------------------------------------------------------------------
(***************************************************************************)
(* Copies without overwrite.  Neither property is inductive.  That a copy  *)
(* only writes to the file it made needs that its descriptor stays on that *)
(* file; that two winners would be one needs that the name stays bound to  *)
(* the file of the winner until it is dropped, and that no two calls made  *)
(* the same file.                                                          *)
(***************************************************************************)
Plain(p) == call[p].op = "copy_file" /\ ~ call[p].overwrite

OverwriteLabels == {"is_file", "remove_dst"}
CopyLabels      == {"std_stat", "open_src"} \cup Reading

(* A call is at a step of its own function; only an overwriting copy is at *)
(* the steps that remove dest first.                                       *)
LabelOf(p) ==
  /\ pc[p] \in OverwriteLabels => call[p].op = "copy_file" /\ call[p].overwrite
  /\ pc[p] \in CopyLabels => call[p].op = "copy_file"
  /\ pc[p] \in Labels \ (OverwriteLabels \cup CopyLabels) => call[p].op # "copy_file"

(* What is known of the files the calls made.                              *)
OwnFile(p) == Plain(p) /\ pc[p] \in Writing => made[p] # NoIno /\ io[p].wid = made[p]
Won(p)     == Plain(p) /\ pc[p] = "done" /\ ok[p] => made[p] # NoIno
Kept(p)    == Plain(p) /\ made[p] # NoIno /\ Dst(p) \notin dropped =>
                Dst(p) \in Name /\ entry[Dst(p)] = made[p]

MadeOnce ==
  /\ \A p \in Proc : made[p] < nextIno
  /\ \A p, q \in Proc : made[p] = made[q] /\ made[p] # NoIno => p = q

ClobberInv ==
  /\ TypeInv
  /\ MadeOnce
  /\ \A p \in Proc : LabelOf(p) /\ OwnFile(p) /\ Won(p) /\ Kept(p)

(* A step never unbinds or rebinds a name without dropping it.             *)
EntriesKept ==
  /\ dropped \subseteq dropped'
  /\ \A n \in Name : entry[n] # NoIno /\ n \notin dropped' => entry'[n] = entry[n]

(* The steps of p, by what they do to the directory and to made.           *)
Quiet(p)    == UNCHANGED <<fsVars, made, dropped>>
Unbinds(p)  == /\ UNCHANGED <<inode, nextIno, made>>
               /\ dropped \subseteq dropped'
               /\ \A n \in Name : n \notin dropped' => entry'[n] = entry[n]
Empties(p)  == \E i \in Ino : \E d : SetData(i, d) /\ UNCHANGED <<made, dropped>>
Makes(p)    == \E n \in Name : \E file :
                 ~ Bound(n) /\ Bind(n, file) /\ NoteMade(p) /\ UNCHANGED dropped

(* A step of p, or its death, leaves the directory alone, unbinds names it *)
(* drops, changes the data of one file, or binds a name to a new file that *)
(* p made.                                                                 *)
LEMMA StepKinds ==
  ASSUME TypeInv, NEW p \in Proc, Step(p) \/ Die(p)
  PROVE  Quiet(p) \/ Unbinds(p) \/ Empties(p) \/ Makes(p)
<1>1. FsInv /\ Src(p) \in Path /\ Dst(p) \in Path /\ io[p] \in Io
      /\ Fits(pc[p], io[p], nextIno)
  BY AtStep
<1>2. \A n : Exists(n) => Lookup(n) \in Ino
  BY <1>1, Numbers DEF Exists
<1>3. ASSUME NEW n, NEW x, OpenTruncates(n, x), SetData(Lookup(n), <<>>),
             UNCHANGED <<made, dropped>>
      PROVE  Empties(p)
  BY <1>2, <1>3 DEF OpenTruncates, IsKind, Empties
<1>4. ASSUME NEW n, NEW x, OpenCreates(n, x), Bind(End(n), NewFile), NoteMade(p),
             UNCHANGED dropped
      PROVE  Makes(p)
  BY <1>4, EndType DEF OpenCreates, Makes
<1>5. CASE CopyRemoveDest(p)
  BY <1>1, <1>5 DEF CopyRemoveDest, Quiet, Unbinds, Unbind, Drop, Removable, Bound, fsVars,
                    FsInv, FsTypeOK
<1>6. CASE Remove(p)
  BY <1>1, <1>6 DEF Remove, Quiet, Unbinds, Unbind, Drop, Removable, Bound, fsVars,
                    FsInv, FsTypeOK
<1>7. CASE Rename(p)
  BY <1>7 DEF Rename, Quiet, Unbinds, RenameEffect, Drop, fsVars
<1>8. CASE CopyOpenDest(p)
  BY <1>3, <1>4, <1>8 DEF CopyOpenDest, Quiet
<1>9. CASE TouchOfstream(p)
  BY <1>3, <1>4, <1>9 DEF TouchOfstream, Quiet
<1>10. CASE CreateSymlink(p)
  BY <1>1, <1>10 DEF CreateSymlink, Quiet, Makes, Path
<1>11. CASE CopyChunk(p)
  <2>1. io[p].wid \in Ino
    BY <1>1, <1>11 DEF CopyChunk, Fits, Writing, Io
  <2> QED BY <2>1, <1>11 DEF CopyChunk, Quiet, Empties
<1>12. CASE CopyIsFile(p) \/ CopyStdStat(p) \/ CopyOpenSource(p) \/ CopyFstat(p)
            \/ CopyFchmod(p) \/ CopyLoopEnds(p) \/ CopyClose(p)
            \/ SetModtime(p) \/ ReadIsSymlink(p) \/ ReadLink(p) \/ Crash(p)
  BY <1>12 DEF CopyIsFile, CopyStdStat, CopyOpenSource, CopyFstat, CopyFchmod,
               CopyLoopEnds, CopyClose, SetModtime, ReadIsSymlink, ReadLink, Crash, Quiet
<1> QED BY <1>5, <1>6, <1>7, <1>8, <1>9, <1>10, <1>11, <1>12 DEF Step, Die

(* A step of p changes neither the calls nor what the others are at.       *)
Frame(p) ==
  /\ call' = call
  /\ \A q \in Proc \ {p} : pc'[q] = pc[q] /\ ok'[q] = ok[q] /\ io'[q] = io[q]
                           /\ made'[q] = made[q]

(* A step of p moves no other call and touches none of its locals.         *)
LEMMA StepFrame ==
  ASSUME TypeInv, NEW p \in Proc, Step(p) \/ Die(p)
  PROVE  Frame(p)
<1>1. LocalsOK
  BY DEF TypeInv
<1>2. ASSUME NEW l, Goto(p, l)
      PROVE  call' = call /\ \A q \in Proc \ {p} : pc'[q] = pc[q] /\ ok'[q] = ok[q]
  BY <1>1, <1>2 DEF Goto, LocalsOK
<1>3. ASSUME NEW b, Return(p, b)
      PROVE  call' = call /\ \A q \in Proc \ {p} : pc'[q] = pc[q] /\ ok'[q] = ok[q]
  BY <1>1, <1>3 DEF Return, LocalsOK
<1>4. call' = call /\ \A q \in Proc \ {p} : pc'[q] = pc[q] /\ ok'[q] = ok[q]
  <2>1. CASE ReadLink(p)
    BY <2>1, <1>1 DEF ReadLink, LocalsOK
  <2>2. CASE CopyChunk(p)
    BY <2>2, <1>2 DEF CopyChunk
  <2>3. CASE CopyClose(p)
    BY <2>3, <1>3 DEF CopyClose
  <2>4. CASE CopyOpenDest(p)
    BY <2>4, <1>2, <1>3 DEF CopyOpenDest, Opened
  <2> QED BY <2>1, <2>2, <2>3, <2>4, <1>2, <1>3
      DEF Step, Die, CopyIsFile, CopyRemoveDest, CopyStdStat, CopyOpenSource, CopyFstat,
          CopyFchmod, CopyLoopEnds, SetModtime, TouchOfstream, Remove, Rename,
          CreateSymlink, ReadIsSymlink, Crash
<1>5. ASSUME NEW q \in Proc \ {p} PROVE io'[q] = io[q]
  <2>1. ASSUME NEW r, SetIo(p, r) PROVE io'[q] = io[q]
    BY <2>1, <1>1 DEF SetIo, LocalsOK
  <2>2. CASE CopyChunk(p)
    BY <2>1, <2>2 DEF CopyChunk
  <2> QED BY <2>1, <2>2
      DEF Step, Die, CopyIsFile, CopyRemoveDest, CopyStdStat, CopyOpenSource, CopyFstat,
          CopyOpenDest, Opened, CloseSource, CopyFchmod, CopyLoopEnds, CopyClose,
          SetModtime, TouchOfstream, Remove, Rename, CreateSymlink, ReadIsSymlink,
          ReadLink, Crash
<1>6. ASSUME NEW q \in Proc \ {p} PROVE made'[q] = made[q]
  BY <1>1, StepKinds DEF Quiet, Unbinds, Empties, Makes, NoteMade, LocalsOK
<1> QED BY <1>4, <1>5, <1>6 DEF Frame

(* A step of p unbinds or rebinds a name only by dropping it.              *)
LEMMA EntriesStep ==
  ASSUME TypeInv, NEW p \in Proc, Step(p) \/ Die(p)
  PROVE  EntriesKept
<1>1. FsInv
  BY DEF TypeInv
<1>2. CASE Makes(p)
  BY <1>1, <1>2 DEF Makes, Bind, Bound, EntriesKept, FsInv, FsTypeOK
<1> QED BY <1>2, StepKinds DEF Quiet, Unbinds, Empties, SetData, EntriesKept, fsVars

(* Two calls never made the same file: a new file has a new inode.         *)
LEMMA MadeOnceStep ==
  ASSUME TypeInv, MadeOnce, NEW p \in Proc, Step(p) \/ Die(p)
  PROVE  MadeOnce'
<1>1. FsInv /\ made \in [Proc -> Ino \cup {NoIno}] /\ nextIno \in Nat
  BY Numbers DEF TypeInv, LocalsOK
<1>2. \A q \in Proc : made[q] \in Nat
  BY <1>1, Numbers
<1>3. CASE Makes(p)
  <2>1. nextIno' = nextIno + 1 /\ made' = [made EXCEPT ![p] = nextIno]
    BY <1>3 DEF Makes, Bind, NoteMade
  <2>2. \A q \in Proc : made'[q] = IF q = p THEN nextIno ELSE made[q]
    BY <1>1, <2>1
  <2>3. \A q \in Proc : made'[q] < nextIno'
    BY <1>1, <1>2, <2>1, <2>2 DEF MadeOnce
  <2>4. \A q \in Proc : made[q] # nextIno
    BY <1>1, <1>2 DEF MadeOnce
  <2>5. ASSUME NEW q \in Proc, NEW s \in Proc, made'[q] = made'[s], made'[q] # NoIno
        PROVE  q = s
    BY <2>2, <2>4, <2>5 DEF MadeOnce
  <2> QED BY <2>3, <2>5 DEF MadeOnce
<1> QED BY <1>3, StepKinds DEF Quiet, Unbinds, Empties, SetData, MadeOnce, fsVars

(* What the invariant says of one call.                                    *)
PartOf(q) == LabelOf(q) /\ OwnFile(q) /\ Won(q) /\ Kept(q)

(* A step of p keeps the part of every other call.                         *)
LEMMA OtherPart ==
  ASSUME NEW p, NEW q \in Proc \ {p}, PartOf(q), Frame(p), EntriesKept
  PROVE  PartOf(q)'
<1>1. call'[q] = call[q] /\ pc'[q] = pc[q] /\ ok'[q] = ok[q] /\ io'[q] = io[q]
      /\ made'[q] = made[q]
  BY DEF Frame
<1>2. LabelOf(q)' /\ OwnFile(q)' /\ Won(q)'
  BY <1>1 DEF PartOf, LabelOf, OwnFile, Won, Plain
<1>3. Kept(q)'
  BY <1>1 DEF PartOf, Kept, Plain, Dst, EntriesKept
<1> QED BY <1>2, <1>3 DEF PartOf

(* p's own part when its step makes no file: it is at l, or has returned.  *)
LEMMA OwnPart ==
  ASSUME TypeInv, NEW p \in Proc, PartOf(p), EntriesKept, UNCHANGED made, call' = call,
         LabelOf(p)', OwnFile(p)',
         pc'[p] = "done" /\ ok'[p] => pc[p] = "close" \/ ~ Plain(p)
  PROVE  PartOf(p)'
<1>1. Kept(p)'
  BY DEF PartOf, Kept, Plain, Dst, EntriesKept
<1>2. Won(p)'
  BY DEF PartOf, Won, OwnFile, Plain, Writing
<1> QED BY <1>1, <1>2 DEF PartOf

(* Steps of a copy up to the opening of dest, and those of a crash.        *)
LEMMA BeforeOpen ==
  ASSUME TypeInv, NEW p \in Proc, PartOf(p), EntriesKept,
         CopyIsFile(p) \/ CopyRemoveDest(p) \/ CopyStdStat(p) \/ CopyOpenSource(p)
         \/ CopyFstat(p) \/ Crash(p)
  PROVE  PartOf(p)'
<1>1. LocalsOK
  BY DEF TypeInv
<1>2. UNCHANGED made /\ call' = call
  BY DEF CopyIsFile, CopyRemoveDest, CopyStdStat, CopyOpenSource, CopyFstat, Crash,
         Goto, Return
<1>3. \/ pc'[p] \in {"remove_dst", "std_stat", "open_src", "fstat", "open_dst"}
         /\ pc[p] \in OverwriteLabels \cup CopyLabels
         /\ (pc'[p] \in OverwriteLabels => pc[p] \in OverwriteLabels)
      \/ pc'[p] = "done" /\ ~ ok'[p]
      \/ pc'[p] = "dead"
  BY <1>1 DEF CopyIsFile, CopyRemoveDest, CopyStdStat, CopyOpenSource, CopyFstat, Crash,
              Goto, Return, LocalsOK, OverwriteLabels, CopyLabels, Reading
<1>4. LabelOf(p)' /\ OwnFile(p)'
  BY <1>2, <1>3 DEF PartOf, LabelOf, OwnFile, OverwriteLabels, CopyLabels, Reading, Writing,
                    Labels
<1>5. pc'[p] = "done" => ~ ok'[p]
  BY <1>3
<1> QED BY <1>2, <1>4, <1>5, OwnPart

(* Opening dest: a plain copy opens it only by making it.                  *)
LEMMA AtOpen ==
  ASSUME TypeInv, NEW p \in Proc, PartOf(p), EntriesKept, CopyOpenDest(p)
  PROVE  PartOf(p)'
<1>1. LocalsOK /\ FsInv /\ call' = call /\ io[p] \in Io
  BY AtStep DEF CopyOpenDest, Opened, Goto, Return
<1>2. call[p].op = "copy_file"
  BY DEF PartOf, LabelOf, CopyOpenDest, CopyLabels, Reading
<1>3. ASSUME NEW i, Opened(p, i)
      PROVE  pc'[p] \in {"copy", "fchmod"} /\ io'[p].wid = i
  BY <1>1, <1>3 DEF Opened, Goto, SetIo, LocalsOK, Io
<1>4. CASE OpenCreates(Dst(p), Excl(p)) /\ Bind(End(Dst(p)), NewFile) /\ NoteMade(p)
           /\ Opened(p, nextIno) /\ UNCHANGED dropped
  <2>1. made'[p] = nextIno /\ nextIno # NoIno
    BY <1>1, <1>4, Numbers DEF NoteMade, LocalsOK, NoIno
  <2>2. LabelOf(p)' /\ OwnFile(p)' /\ Won(p)'
    BY <1>1, <1>2, <1>3, <1>4, <2>1
    DEF LabelOf, OwnFile, Won, OverwriteLabels, CopyLabels, Reading, Labels
  <2>3. Plain(p) => Dst(p) \in Name /\ entry'[Dst(p)] = nextIno
    <3>1. Plain(p) => End(Dst(p)) = Dst(p) /\ Dst(p) \in Name
      BY <1>4, NameAssumption DEF Plain, Excl, OpenCreates, End, IsLink, Bound
    <3>2. entry' = [entry EXCEPT ![End(Dst(p))] = nextIno]
      BY <1>4 DEF Bind
    <3> QED BY <1>1, <3>1, <3>2 DEF FsInv, FsTypeOK
  <2>4. Kept(p)'
    BY <1>1, <2>1, <2>3 DEF Kept, Plain, Dst
  <2> QED BY <2>2, <2>4 DEF PartOf
<1>5. CASE OpenTruncates(Dst(p), Excl(p)) /\ Opened(p, Lookup(Dst(p))) /\ UNCHANGED made
  <2>1. ~ Plain(p)
    BY <1>5 DEF Plain, Excl, OpenTruncates
  <2>2. LabelOf(p)' /\ OwnFile(p)'
    BY <1>1, <1>2, <1>3, <1>5, <2>1
    DEF LabelOf, OwnFile, Plain, OverwriteLabels, CopyLabels, Reading, Labels
  <2> QED BY <1>1, <1>5, <2>1, <2>2, OwnPart
<1>6. CASE Return(p, FALSE) /\ UNCHANGED made
  <2>1. pc'[p] = "done" /\ ~ ok'[p]
    BY <1>1, <1>6 DEF Return, LocalsOK
  <2>2. LabelOf(p)' /\ OwnFile(p)'
    BY <2>1 DEF LabelOf, OwnFile, OverwriteLabels, CopyLabels, Reading, Writing, Labels
  <2> QED BY <1>1, <1>6, <2>1, <2>2, OwnPart
<1> QED BY <1>4, <1>5, <1>6 DEF CopyOpenDest

(* Writing and closing: the descriptor stays on the file that was made.    *)
LEMMA AfterOpen ==
  ASSUME TypeInv, NEW p \in Proc, PartOf(p), EntriesKept,
         CopyFchmod(p) \/ CopyChunk(p) \/ CopyLoopEnds(p) \/ CopyClose(p)
  PROVE  PartOf(p)'
<1>1. LocalsOK /\ io[p] \in Io /\ UNCHANGED made /\ pc[p] \in Writing
  BY AtStep DEF CopyFchmod, CopyChunk, CopyLoopEnds, CopyClose, Writing
<1>2. call' = call
  BY DEF CopyFchmod, CopyChunk, CopyLoopEnds, CopyClose, Goto, Return
<1>3. \/ pc'[p] \in Writing
      \/ pc'[p] = "done" /\ (ok'[p] => pc[p] = "close")
  BY <1>1 DEF CopyFchmod, CopyChunk, CopyLoopEnds, CopyClose, Goto, Return, LocalsOK, Writing
<1>4. pc'[p] \in Writing => io'[p].wid = io[p].wid
  <2>1. CASE CopyChunk(p)
    BY <2>1, <1>1 DEF CopyChunk, SetIo, LocalsOK, Io
  <2>2. CASE CopyFchmod(p) \/ CopyLoopEnds(p) \/ CopyClose(p)
    BY <2>2, <1>1 DEF CopyFchmod, CopyLoopEnds, CopyClose, Return, LocalsOK, Writing
  <2> QED BY <2>1, <2>2
<1>5. LabelOf(p)'
  BY <1>1, <1>2, <1>3
  DEF PartOf, LabelOf, OverwriteLabels, CopyLabels, Reading, Writing, Labels
<1>6. OwnFile(p)'
  BY <1>1, <1>2, <1>3, <1>4 DEF PartOf, OwnFile, Plain, Writing
<1>7. pc'[p] = "done" /\ ok'[p] => pc[p] = "close"
  BY <1>3 DEF Writing
<1> QED BY <1>1, <1>2, <1>5, <1>6, <1>7, OwnPart

(* The steps of the other calls: p is no copy, before and after.           *)
LEMMA NoCopy ==
  ASSUME TypeInv, NEW p \in Proc, PartOf(p),
         SetModtime(p) \/ TouchOfstream(p) \/ Remove(p) \/ Rename(p)
         \/ CreateSymlink(p) \/ ReadIsSymlink(p) \/ ReadLink(p)
  PROVE  PartOf(p)'
<1>1. LocalsOK /\ call' = call
  BY DEF TypeInv, SetModtime, TouchOfstream, Remove, Rename, CreateSymlink, ReadIsSymlink,
         ReadLink, Goto, Return
<1>2. ~ Plain(p) /\ call[p].op # "copy_file"
  <2>1. pc[p] \in {"utime", "ofstream", "unlink", "rename", "symlink", "is_symlink",
                   "readlink"}
    BY DEF SetModtime, TouchOfstream, Remove, Rename, CreateSymlink, ReadIsSymlink, ReadLink
  <2> QED BY <2>1 DEF PartOf, LabelOf, Plain, Labels, OverwriteLabels, CopyLabels, Reading
<1>3. pc'[p] \in {"ofstream", "readlink", "done"}
  BY <1>1 DEF LocalsOK, SetModtime, TouchOfstream, Remove, Rename, CreateSymlink,
              ReadIsSymlink, ReadLink, Goto, Return
<1>4. LabelOf(p)'
  BY <1>1, <1>2, <1>3 DEF LabelOf, OverwriteLabels, CopyLabels, Reading, Labels
<1>5. OwnFile(p)' /\ Won(p)' /\ Kept(p)'
  BY <1>1, <1>2 DEF OwnFile, Won, Kept, Plain
<1> QED BY <1>4, <1>5 DEF PartOf

(* Whatever step p takes, its own part of the invariant holds after it.    *)
LEMMA StepPart ==
  ASSUME TypeInv, NEW p \in Proc, PartOf(p), Step(p) \/ Die(p)
  PROVE  PartOf(p)'
<1>1. EntriesKept
  BY EntriesStep
<1>2. CASE CopyIsFile(p) \/ CopyRemoveDest(p) \/ CopyStdStat(p) \/ CopyOpenSource(p)
           \/ CopyFstat(p) \/ Crash(p)
  BY <1>1, <1>2, BeforeOpen
<1>3. CASE CopyOpenDest(p)
  BY <1>1, <1>3, AtOpen
<1>4. CASE CopyFchmod(p) \/ CopyChunk(p) \/ CopyLoopEnds(p) \/ CopyClose(p)
  BY <1>1, <1>4, AfterOpen
<1>5. CASE SetModtime(p) \/ TouchOfstream(p) \/ Remove(p) \/ Rename(p)
           \/ CreateSymlink(p) \/ ReadIsSymlink(p) \/ ReadLink(p)
  BY <1>5, NoCopy
<1> QED BY <1>2, <1>3, <1>4, <1>5 DEF Step, Die

(* The invariant holds before any call is made.                            *)
LEMMA InitClobberInv == Init => ClobberInv
<1> SUFFICES ASSUME Init PROVE ClobberInv
  OBVIOUS
<1>1. TypeInv
  BY InitTypeInv
<1>2. nextIno \in Nat /\ nextIno >= 1
  BY <1>1, Numbers DEF TypeInv
<1>3. MadeOnce
  BY <1>2 DEF Init, MadeOnce, NoIno
<1>4. ASSUME NEW p \in Proc PROVE PartOf(p)
  BY DEF Init, PartOf, LabelOf, OwnFile, Won, Kept, Plain, NoCall, OverwriteLabels,
         CopyLabels, Reading, Writing, Labels
<1> QED BY <1>1, <1>3, <1>4 DEF ClobberInv, PartOf

(* A call that begins holds its part of the invariant, and the others keep *)
(* theirs.                                                                 *)
LEMMA BeginPart ==
  ASSUME ClobberInv, NEW p \in Proc, NEW c \in Calls, Begin(p, c)
  PROVE  MadeOnce' /\ \A q \in Proc : PartOf(q)'
<1>1. TypeInv /\ LocalsOK /\ FsInv /\ c \in Call /\ nextIno \in Nat
  BY CallsAssumption, Numbers DEF ClobberInv, TypeInv
<1>2. made'[p] = NoIno /\ \A q \in Proc \ {p} : made'[q] = made[q]
  BY <1>1 DEF Begin, LocalsOK
<1>3. MadeOnce'
  BY <1>1, <1>2, Numbers DEF ClobberInv, MadeOnce, Begin, fsVars, NoIno
<1>4. call'[p] = c /\ pc'[p] = FirstStep(c)
  BY <1>1 DEF Begin, LocalsOK
<1>5. FirstStep(c) \in Labels \ Reading
      /\ (FirstStep(c) \in OverwriteLabels => c.op = "copy_file" /\ c.overwrite)
      /\ (FirstStep(c) \in CopyLabels => c.op = "copy_file")
      /\ (c.op = "copy_file" => FirstStep(c) \in OverwriteLabels \cup CopyLabels)
  BY <1>1
  DEF FirstStep, Call, Op, Labels, Reading, OverwriteLabels, CopyLabels
<1>6. PartOf(p)'
  <2>1. LabelOf(p)'
    BY <1>4, <1>5 DEF LabelOf
  <2>2. OwnFile(p)' /\ Won(p)'
    BY <1>4, <1>5 DEF OwnFile, Won, Writing, Reading, Labels
  <2>3. Kept(p)'
    BY <1>2 DEF Kept
  <2> QED BY <2>1, <2>2, <2>3 DEF PartOf
<1>7. ASSUME NEW q \in Proc \ {p} PROVE PartOf(q)'
  <2>1. PartOf(q) /\ call'[q] = call[q] /\ pc'[q] = pc[q] /\ ok'[q] = ok[q]
        /\ io'[q] = io[q] /\ made'[q] = made[q]
    BY <1>1, <1>2 DEF ClobberInv, PartOf, Begin, LocalsOK
  <2> QED BY <2>1 DEF PartOf, LabelOf, OwnFile, Won, Kept, Plain, Dst, Begin, fsVars
<1> QED BY <1>3, <1>6, <1>7

(* ClobberInv is inductive.                                                *)
LEMMA NextClobberInv == ClobberInv /\ [Next]_vars => ClobberInv'
<1> SUFFICES ASSUME ClobberInv, [Next]_vars PROVE ClobberInv'
  OBVIOUS
<1>1. TypeInv /\ MadeOnce /\ (\A q \in Proc : PartOf(q)) /\ TypeInv'
  BY NextTypeInv DEF ClobberInv, PartOf
<1> SUFFICES MadeOnce' /\ \A q \in Proc : PartOf(q)'
  BY <1>1 DEF ClobberInv, PartOf
<1>2. ASSUME NEW p \in Proc, NEW c \in Calls, Begin(p, c)
      PROVE  MadeOnce' /\ \A q \in Proc : PartOf(q)'
  BY <1>2, BeginPart
<1>3. ASSUME NEW p \in Proc, Step(p) \/ Die(p)
      PROVE  MadeOnce' /\ \A q \in Proc : PartOf(q)'
  <2>1. EntriesKept /\ Frame(p) /\ MadeOnce' /\ PartOf(p)'
    BY <1>1, <1>3, EntriesStep, StepFrame, MadeOnceStep, StepPart
  <2>2. ASSUME NEW q \in Proc \ {p} PROVE PartOf(q)'
    BY <1>1, <2>1, OtherPart
  <2> QED BY <2>1, <2>2
<1>4. ASSUME UNCHANGED <<call, pc, io, ok, made, dropped, entry, nextIno>>
      PROVE  MadeOnce' /\ \A q \in Proc : PartOf(q)'
  BY <1>1, <1>4 DEF MadeOnce, PartOf, LabelOf, OwnFile, Won, Kept, Plain, Dst
<1>5. ASSUME NEW i \in Ino, NEW d \in EnvData, EnvWrite(i, d)
      PROVE  MadeOnce' /\ \A q \in Proc : PartOf(q)'
  BY <1>4, <1>5 DEF EnvWrite, SetData, callVars
<1>6. CASE UNCHANGED vars
  BY <1>4, <1>6 DEF vars, fsVars, callVars, history
<1> QED BY <1>2, <1>3, <1>5, <1>6 DEF Next

(* In every reachable state a copy without overwrite has open for writing  *)
(* only the file it made, succeeds only if it made one, and finds its      *)
(* destination bound to that file until someone drops the name.            *)
THEOREM ClobberInvariant == Spec => []ClobberInv
BY InitClobberInv, NextClobberInv, PTL DEF Spec

(* Of several copies without overwrite to one path that nobody removed or  *)
(* renamed, at most one is told that it succeeded, however many processes  *)
(* there are: O_EXCL decides, in either build.                             *)
THEOREM OneWinner == Spec => []ExclusiveWinner
<1>1. ClobberInv => ExclusiveWinner
  <2> SUFFICES ASSUME ClobberInv, NEW p \in Proc, NEW q \in Proc,
                      Returned(p, "copy_file", TRUE), ~ call[p].overwrite,
                      Returned(q, "copy_file", TRUE), ~ call[q].overwrite,
                      Dst(p) = Dst(q), Dst(p) \notin dropped
               PROVE  p = q
    BY DEF ExclusiveWinner
  <2>1. made[p] # NoIno /\ entry[Dst(p)] = made[p]
    BY DEF ClobberInv, Won, Kept, Returned, Plain
  <2>2. made[q] # NoIno /\ entry[Dst(q)] = made[q]
    BY DEF ClobberInv, Won, Kept, Returned, Plain
  <2> QED BY <2>1, <2>2 DEF ClobberInv, MadeOnce
<1> QED BY <1>1, ClobberInvariant, PTL

(* The step of a plain copy that does not create its file or write to it   *)
(* changes nothing at all.                                                 *)
LEMMA PlainSteps ==
  ASSUME ClobberInv, NEW p \in Proc, Plain(p), Step(p) \/ Die(p)
  PROVE  \/ UNCHANGED <<entry, inode>>
         \/ made[p] # NoIno /\ \E d : SetData(made[p], d)
         \/ \E n \in Name : \E file : ~ Bound(n) /\ Bind(n, file)
<1>1. PartOf(p) /\ TypeInv
  BY DEF ClobberInv, PartOf
<1>2. CASE CopyChunk(p)
  BY <1>1, <1>2 DEF CopyChunk, PartOf, OwnFile, Writing, fsVars
<1>3. CASE CopyOpenDest(p)
  <2>1. \A n : End(n) # NoName => End(n) \in Name
    BY EndType
  <2> QED BY <1>3, <2>1 DEF CopyOpenDest, OpenCreates, OpenTruncates, Excl, Plain, fsVars
<1>4. ~ CopyRemoveDest(p) /\ ~ TouchOfstream(p) /\ ~ Remove(p) /\ ~ Rename(p)
      /\ ~ CreateSymlink(p)
  BY <1>1 DEF PartOf, LabelOf, Plain, CopyRemoveDest, TouchOfstream, Remove, Rename,
              CreateSymlink, OverwriteLabels, CopyLabels, Reading, Labels
<1> QED BY <1>2, <1>3, <1>4
    DEF Step, Die, CopyIsFile, CopyStdStat, CopyOpenSource, CopyFstat, CopyFchmod,
        CopyLoopEnds, CopyClose, SetModtime, ReadIsSymlink, ReadLink, Crash, fsVars

(* A copy without overwrite never changes, replaces or unbinds what was    *)
(* there, whatever others do between its steps: it writes only to the file *)
(* it made itself.                                                         *)
THEOREM NeverClobbers == Spec => NoClobber
<1> DEFINE Harmless(p) ==
      /\ \A n \in Name : Bound(n) => entry'[n] = entry[n]
      /\ \A i \in Ino : inode[i].kind # "none" /\ i # made[p] => inode'[i] = inode[i]
<1>1. ASSUME ClobberInv, Next, NEW p \in Proc, Moves(p, "copy_file"), ~ call[p].overwrite
      PROVE  Harmless(p)
  <2>1. LocalsOK /\ FsInv /\ Plain(p)
    BY <1>1 DEF ClobberInv, TypeInv, Moves, Plain
  <2>2. Step(p) \/ Die(p)
    <3>1. ASSUME NEW q \in Proc, NEW c \in Calls, Begin(q, c) PROVE FALSE
      <4>1. q # p
        BY <1>1, <3>1 DEF Begin, Moves, Busy, Labels
      <4> QED BY <1>1, <2>1, <3>1, <4>1 DEF Begin, Moves, LocalsOK
    <3>2. ASSUME NEW q \in Proc \ {p}, Step(q) \/ Die(q) PROVE FALSE
      BY <1>1, <3>2, StepFrame DEF ClobberInv, Frame, Moves
    <3>3. ASSUME NEW i \in Ino, NEW d \in EnvData, EnvWrite(i, d) PROVE FALSE
      BY <1>1, <3>3 DEF EnvWrite, callVars, Moves
    <3> QED BY <1>1, <3>1, <3>2, <3>3 DEF Next
  <2>3. CASE UNCHANGED <<entry, inode>>
    BY <2>3
  <2>4. ASSUME NEW d, made[p] # NoIno, SetData(made[p], d) PROVE Harmless(p)
    BY <2>1, <2>4 DEF SetData, FsInv, FsTypeOK
  <2>5. ASSUME NEW n \in Name, NEW file, ~ Bound(n), Bind(n, file) PROVE Harmless(p)
    <3>1. \A m \in Name : Bound(m) => entry'[m] = entry[m]
      BY <2>1, <2>5 DEF Bind, Bound, FsInv, FsTypeOK
    <3>2. ASSUME NEW i \in Ino, inode[i].kind # "none" PROVE inode'[i] = inode[i]
      <4>1. nextIno \in Nat /\ i \in Nat
        BY <2>1, Numbers
      <4>2. i # nextIno
        BY <2>1, <3>2, <4>1 DEF FsInv, Unused
      <4> QED BY <2>1, <2>5, <4>2 DEF Bind, FsInv, FsTypeOK
    <3> QED BY <3>1, <3>2
  <2> QED BY <1>1, <2>1, <2>2, <2>3, <2>4, <2>5, PlainSteps
<1>2. ClobberInv /\ [Next]_vars =>
        [\A p \in Proc : Moves(p, "copy_file") /\ ~ call[p].overwrite => Harmless(p)]_vars
  BY <1>1
<1> QED BY <1>2, ClobberInvariant, PTL DEF Spec, NoClobber
-----------------------------------------------------------------------------
(***************************************************************************)
(* Calls that nobody disturbs, for any number of processes, names, files   *)
(* and calls, either build and any faults: what they answer is true of the *)
(* directory, a copy that succeeds has copied every block, and a touch of  *)
(* the C build takes nothing away.                                         *)
(*                                                                         *)
(* The history variable dirty says that what a call looks at has changed   *)
(* under it.  As long as it has not, what the call has seen in its earlier *)
(* steps is still so: that is the invariant, one part for each place a     *)
(* call can be at.  The steps of others keep it because they leave the     *)
(* view of the call alone, the steps of the call itself establish it.      *)
(***************************************************************************)
(* The places at which each of the short calls can be.                     *)
OpOf(p) ==
  /\ pc[p] = "utime" => call[p].op \in {"touch", "set_modtime"}
  /\ pc[p] = "ofstream" => call[p].op = "touch"
  /\ pc[p] = "unlink" => call[p].op = "remove"
  /\ pc[p] = "rename" => call[p].op = "rename"
  /\ pc[p] = "symlink" => call[p].op = "create_symlink"
  /\ pc[p] \in {"is_symlink", "readlink"} => call[p].op = "read_symlink"

(* A copy knows the files behind its descriptors.  Its source, if it is a  *)
(* regular file of its own, has the length that was read, and dest holds   *)
(* what has been copied so far.                                            *)
Apart(p) == io[p].rid # io[p].wid /\ inode[io[p].rid].kind = "reg"

CopySeen(p) ==
  /\ pc[p] = "open_src" /\ ~ BuiltC(p) =>
       IsKind(Src(p), "reg") /\ io[p].len = Len(inode[Lookup(Src(p))].data)
  /\ pc[p] \in Reading => io[p].rid = Lookup(Src(p))
  /\ pc[p] \in Writing => io[p].wid = Lookup(Dst(p))
  /\ pc[p] \in Reading \ {"fstat"} /\ Apart(p) => io[p].len = Len(inode[io[p].rid].data)
  /\ pc[p] \in Writing /\ Apart(p) =>
       /\ inode[io[p].wid].data = SubSeq(inode[io[p].rid].data, 1, Offset(io[p]))
       /\ io[p].ret = 0 => io[p].remaining = 0
  /\ pc[p] = "close" => ~ LoopGoesOn(io[p])

(* The other calls of two steps know what they asked in the first.         *)
OtherSeen(p) ==
  /\ Busy(p) => text[p] = NoName
  /\ pc[p] = "ofstream" /\ BuiltC(p) => ~ MaySetTime(p)
  /\ pc[p] = "readlink" => IsLink(Src(p))

(* What CopyFaithful and AnswersHold say of one call.                      *)
CopyAnswer(p) ==
  Returned(p, "copy_file", TRUE) =>
    /\ Exists(Src(p)) /\ Exists(Dst(p))
    /\ IsKind(Src(p), "reg") =>
         inode[Lookup(Dst(p))].data = inode[Lookup(Src(p))].data

OtherAnswer(p) ==
  /\ Returned(p, "touch", TRUE) => Exists(Src(p))
  /\ Returned(p, "remove", TRUE) => ~ Bound(Src(p))
  /\ Returned(p, "rename", TRUE) => Bound(Dst(p))
  /\ Returned(p, "create_symlink", TRUE) =>
       IsLink(Dst(p)) /\ inode[entry[Dst(p)]].to = Src(p)
  /\ Returned(p, "read_symlink", TRUE) =>
       IsLink(Src(p)) /\ text[p] = inode[entry[Src(p)]].to
  /\ Returned(p, "read_symlink", FALSE) => ~ IsLink(Src(p)) /\ text[p] = NoName

Seen(p) == CopySeen(p) /\ OtherSeen(p) /\ CopyAnswer(p) /\ OtherAnswer(p)

UndisturbedInv ==
  /\ ClobberInv
  /\ \A p \in Proc : OpOf(p) /\ (~ dirty[p] => Seen(p))

(* The invariant says what the runs check of the answers.                  *)
LEMMA SeenImplies == UndisturbedInv => CopyFaithful /\ AnswersHold
BY DEF UndisturbedInv, Seen, CopyAnswer, OtherAnswer, CopyFaithful, AnswersHold
-----------------------------------------------------------------------------
(***************************************************************************)
(* Where paths lead.  Following symlinks depends on nothing but what the   *)
(* symlinks of the directory say.                                          *)
(***************************************************************************)
SameLinks ==
  \A m : /\ IsLink(m)' <=> IsLink(m)
         /\ IsLink(m) => (inode[entry[m]].to)' = inode[entry[m]].to

(* As long as the symlinks stay, every path ends at the same name.         *)
LEMMA EndKept ==
  ASSUME SameLinks, NEW n
  PROVE  End(n)' = End(n)
<1>1. \A w : [k \in 0..Cardinality(Name) |->
               IF k = 0 THEN n
               ELSE LET m == w[k - 1] IN IF IsLink(m) THEN inode[entry[m]].to ELSE m]'
           = [k \in 0..Cardinality(Name) |->
               IF k = 0 THEN n
               ELSE LET m == w[k - 1] IN IF IsLink(m) THEN inode[entry[m]].to ELSE m]
  BY DEF SameLinks
<1>2. Follow(n)' = Follow(n)
  BY <1>1, Zenon DEF Follow
<1>3. /\ IsLink(n)' <=> IsLink(n)
      /\ IsLink(Follow(n))' <=> IsLink(Follow(n))
  BY <1>2 DEF SameLinks
<1> QED BY <1>2, <1>3 DEF End, SameLinks

(* A directory that stays as it is leads every path where it did.          *)
LEMMA LookupKept ==
  ASSUME SameLinks, UNCHANGED entry, NEW n
  PROVE  Lookup(n)' = Lookup(n)
<1>1. End(n)' = End(n)
  BY EndKept
<1> QED BY <1>1 DEF Lookup, Bound

(* An unchanged file system has the same symlinks.                         *)
LEMMA SameLinksIfUnchanged ==
  ASSUME UNCHANGED fsVars
  PROVE  SameLinks
BY DEF SameLinks, IsLink, Bound, fsVars

(* The files keep what open, stat and readlink ask of them: only contents  *)
(* change, and only an inode not handed out yet becomes something else.    *)
KindsKept ==
  \A i \in Ino : i < nextIno =>
    /\ inode'[i].kind = inode[i].kind
    /\ inode'[i].to = inode[i].to
    /\ inode'[i].access = inode[i].access

(* Writing to a file changes nothing but its contents.                     *)
LEMMA SetDataKept ==
  ASSUME FsInv, NEW i \in Ino, NEW d, SetData(i, d)
  PROVE  /\ SameLinks /\ KindsKept
         /\ \A n : Lookup(n)' = Lookup(n)
         /\ inode'[i].data = d
         /\ \A j \in Ino \ {i} : inode'[j] = inode[j]
<1>1. \A j \in Ino : inode'[j] = IF j = i THEN [inode[i] EXCEPT !.data = d] ELSE inode[j]
  BY DEF SetData, FsInv, FsTypeOK
<1>2. \A j \in Ino : inode[j] \in File
  BY DEF FsInv, FsTypeOK
<1>3. \A j \in Ino : /\ inode'[j].kind = inode[j].kind /\ inode'[j].to = inode[j].to
                     /\ inode'[j].access = inode[j].access
  BY <1>1, <1>2 DEF File
<1>4. inode'[i].data = d
  BY <1>1, <1>2 DEF File
<1>5. UNCHANGED entry
  BY DEF SetData
<1>6. SameLinks
  BY <1>3, <1>5 DEF SameLinks, IsLink, Bound, FsInv, FsTypeOK, NoIno
<1> QED BY <1>1, <1>3, <1>4, <1>5, <1>6, LookupKept DEF KindsKept

(* A new file leaves every path where it was, but those that end at the    *)
(* name it gets: they lead to the file now.                                *)
LEMMA BindKept ==
  ASSUME FsInv, NEW m \in Name, ~ Bound(m), nextIno \in Ino, Bind(m, NewFile)
  PROVE  /\ SameLinks
         /\ \A n : Lookup(n)' = IF End(n) = m THEN nextIno ELSE Lookup(n)
         /\ inode'[nextIno] = NewFile
<1>1. /\ \A n \in Name : entry'[n] = IF n = m THEN nextIno ELSE entry[n]
      /\ \A j \in Ino : inode'[j] = IF j = nextIno THEN NewFile ELSE inode[j]
  BY DEF Bind, FsInv, FsTypeOK
<1>2. NewFile.kind = "reg"
  BY DEF NewFile, Unused
<1>3. \A n \in Name : entry[n] # nextIno
  BY Numbers DEF FsInv, FsTypeOK
<1>4. SameLinks
  <2>1. ASSUME NEW n \in Name \ {m}, Bound(n)
        PROVE  entry'[n] = entry[n] /\ inode'[entry'[n]] = inode[entry[n]]
    BY <1>1, <1>3, <2>1 DEF Bound, FsInv, FsTypeOK
  <2>2. ~ IsLink(m) /\ ~ IsLink(m)'
    BY <1>1, <1>2 DEF IsLink, Bound
  <2>3. ASSUME NEW n
        PROVE  (IsLink(n)' <=> IsLink(n)) /\ (IsLink(n) => inode'[entry'[n]].to = inode[entry[n]].to)
    <3>1. CASE n = m
      BY <2>2, <3>1
    <3>2. CASE n \in Name \ {m}
      BY <1>1, <2>1, <3>2 DEF IsLink, Bound
    <3>3. CASE n \notin Name
      BY <3>3 DEF IsLink, Bound
    <3> QED BY <3>1, <3>2, <3>3
  <2> QED BY <2>3 DEF SameLinks
<1>5. ASSUME NEW n PROVE Lookup(n)' = IF End(n) = m THEN nextIno ELSE Lookup(n)
  <2>1. End(n)' = End(n)
    BY <1>4, EndKept
  <2>2. nextIno # NoIno
    BY InoAssumption DEF Ino, NoIno
  <2> QED BY <1>1, <2>1, <2>2 DEF Lookup, Bound
<1> QED BY <1>1, <1>4, <1>5
-----------------------------------------------------------------------------
(***************************************************************************)
(* The steps of others.                                                    *)
(***************************************************************************)
(* A step of p, or its death, leaves every file of the kind it was.        *)
LEMMA KindsStep ==
  ASSUME TypeInv, NEW p \in Proc, Step(p) \/ Die(p)
  PROVE  KindsKept
<1>1. FsInv
  BY DEF TypeInv
<1>2. CASE Quiet(p) \/ Unbinds(p)
  BY <1>2 DEF Quiet, Unbinds, KindsKept, fsVars
<1>3. CASE Empties(p)
  BY <1>1, <1>3, SetDataKept DEF Empties
<1>4. CASE Makes(p)
  <2>1. PICK n \in Name : \E file : Bind(n, file)
    BY <1>4 DEF Makes
  <2>2. \A i \in Ino : i # nextIno => inode'[i] = inode[i]
    BY <1>1, <2>1 DEF Bind, FsInv, FsTypeOK
  <2>3. \A i \in Ino : i < nextIno => i # nextIno
    BY <1>1, Numbers
  <2> QED BY <2>2, <2>3 DEF KindsKept
<1> QED BY <1>2, <1>3, <1>4, StepKinds

(* What call p looks at is the same before and after a step.               *)
Locals(p) == <<call[p], pc[p], io[p], ok[p], text[p]>>

SameView(p) ==
  /\ Locals(p)' = Locals(p)
  /\ EntryOf(Src(p))' = EntryOf(Src(p)) /\ Lookup(Src(p))' = Lookup(Src(p))
  /\ EntryOf(Dst(p))' = EntryOf(Dst(p)) /\ Lookup(Dst(p))' = Lookup(Dst(p))
  /\ \A i \in {Lookup(Src(p)), Lookup(Dst(p)), io[p].rid, io[p].wid} \ {NoIno} :
       inode'[i] = inode[i]

(* It is if the file system stays as it is.                                *)
LEMMA SameViewIfUnchanged ==
  ASSUME NEW p \in Proc, Locals(p)' = Locals(p), UNCHANGED fsVars
  PROVE  SameView(p)
<1>1. \A n : Lookup(n)' = Lookup(n)
  BY SameLinksIfUnchanged, LookupKept DEF fsVars
<1>2. call'[p] = call[p]
  BY DEF Locals
<1>3. Src(p)' = Src(p) /\ Dst(p)' = Dst(p)
  BY <1>2 DEF Src, Dst
<1> QED BY <1>1, <1>3 DEF SameView, EntryOf, fsVars

(* And it is if the step of another has not made p dirty.                  *)
LEMMA SameViewIfClean ==
  ASSUME NEW p \in Proc, Locals(p)' = Locals(p), dirty \in [Proc -> BOOLEAN],
         NEW S, p \notin S, DisturbOthers(S), ~ dirty'[p]
  PROVE  ~ dirty[p] /\ SameView(p)
<1>1. CASE UNCHANGED fsVars
  BY <1>1, SameViewIfUnchanged DEF DisturbOthers
<1>2. CASE ~ UNCHANGED fsVars
  <2>1. dirty' = [q \in Proc |-> dirty[q] \/ (q \notin S /\ View(q)' # View(q))]
    BY <1>2 DEF DisturbOthers
  <2>2. ~ dirty[p] /\ View(p)' = View(p)
    BY <2>1
  <2>3. call'[p] = call[p] /\ io'[p] = io[p]
    BY DEF Locals
  <2> DEFINE files == {Lookup(Src(p)), Lookup(Dst(p)), io[p].rid, io[p].wid} \ {NoIno}
             f == [i \in files |-> inode[i]]
             paths == <<EntryOf(Src(p)), EntryOf(Dst(p)), Lookup(Src(p)), Lookup(Dst(p))>>
  <2>4. View(p) = <<paths, f>>
    BY DEF View
  <2>5. View(p)' = <<paths', f'>>
    BY DEF View
  <2>6. paths' = paths /\ f' = f
    BY <2>2, <2>4, <2>5
  <2>7. EntryOf(Src(p))' = EntryOf(Src(p)) /\ EntryOf(Dst(p))' = EntryOf(Dst(p))
        /\ Lookup(Src(p))' = Lookup(Src(p)) /\ Lookup(Dst(p))' = Lookup(Dst(p))
    BY <2>6
  <2>8. DOMAIN f = files /\ \A i \in files : f[i] = inode[i]
    OBVIOUS
  <2>9. DOMAIN f' = files' /\ \A i \in files' : f'[i] = inode'[i]
    OBVIOUS
  <2>10. \A i \in files : inode'[i] = inode[i]
    <3> HIDE DEF f, files
    <3> QED BY <2>6, <2>8, <2>9
  <2> QED BY <2>2, <2>7, <2>10 DEF SameView
<1> QED BY <1>1, <1>2

(* A name that stays bound to the same inode stays the same symlink.       *)
LEMMA LinkKept ==
  ASSUME FsInv, KindsKept, NEW n \in Path, EntryOf(n)' = EntryOf(n)
  PROVE  /\ Bound(n)' <=> Bound(n)
         /\ IsLink(n)' <=> IsLink(n)
         /\ IsLink(n) => (inode[entry[n]].to)' = inode[entry[n]].to
<1>1. CASE n \in Name
  <2>1. entry'[n] = entry[n]
    BY <1>1 DEF EntryOf
  <2>2. entry[n] # NoIno => entry[n] \in Ino /\ entry[n] < nextIno
    BY <1>1 DEF FsInv, FsTypeOK
  <2> QED BY <1>1, <2>1, <2>2 DEF IsLink, Bound, KindsKept
<1>2. CASE n \notin Name
  BY <1>2 DEF IsLink, Bound
<1> QED BY <1>1, <1>2

(* What p knows holds as long as what it looks at stays.                   *)
LEMMA SeenKept ==
  ASSUME TypeInv, KindsKept, NEW p \in Proc, Seen(p), SameView(p)
  PROVE  Seen(p)'
<1>1. /\ call'[p] = call[p] /\ pc'[p] = pc[p] /\ io'[p] = io[p] /\ ok'[p] = ok[p]
      /\ text'[p] = text[p]
  BY DEF SameView, Locals
<1>2. Src(p)' = Src(p) /\ Dst(p)' = Dst(p) /\ (BuiltC(p)' <=> BuiltC(p)) /\ (Busy(p)' <=> Busy(p))
  BY <1>1 DEF Src, Dst, BuiltC, Busy
<1>3. FsInv /\ io[p] \in Io /\ Fits(pc[p], io[p], nextIno) /\ Src(p) \in Path /\ Dst(p) \in Path
  BY AtStep
<1>4. Lookup(Src(p))' = Lookup(Src(p)) /\ Lookup(Dst(p))' = Lookup(Dst(p))
  BY DEF SameView
<1>5. /\ Exists(Src(p))' <=> Exists(Src(p))
      /\ Exists(Dst(p))' <=> Exists(Dst(p))
      /\ Exists(Src(p)) => inode'[Lookup(Src(p))] = inode[Lookup(Src(p))]
      /\ Exists(Dst(p)) => inode'[Lookup(Dst(p))] = inode[Lookup(Dst(p))]
  BY <1>4 DEF Exists, SameView
<1>6. IsKind(Src(p), "reg")' <=> IsKind(Src(p), "reg")
  BY <1>4, <1>5 DEF IsKind
<1>7. CopySeen(p)'
  <2>1. pc[p] \in Reading => inode'[io[p].rid] = inode[io[p].rid]
    BY <1>3 DEF SameView, Fits
  <2>2. pc[p] \in Writing => inode'[io[p].wid] = inode[io[p].wid]
    BY <1>3 DEF SameView, Fits
  <2>3. pc[p] \in Reading => (Apart(p)' <=> Apart(p))
    BY <1>1, <2>1 DEF Apart
  <2>4. pc[p] \in Writing => pc[p] \in Reading
    BY DEF Reading, Writing
  <2>5. (Offset(io[p]))' = Offset(io[p]) /\ (LoopGoesOn(io[p])' <=> LoopGoesOn(io[p]))
    BY <1>1 DEF Offset, LoopGoesOn
  <2>6. CopySeen(p)
    BY DEF Seen
  <2>7. pc[p] = "open_src" /\ ~ BuiltC(p) =>
          IsKind(Src(p), "reg")' /\ io[p].len = Len(inode'[Lookup(Src(p))'].data)
    BY <1>4, <1>5, <1>6, <2>6 DEF CopySeen, IsKind
  <2> QED BY <1>1, <1>2, <1>4, <2>1, <2>2, <2>3, <2>4, <2>5, <2>6, <2>7 DEF CopySeen
<1>8. CopyAnswer(p)'
  BY <1>1, <1>2, <1>4, <1>5, <1>6 DEF Seen, CopyAnswer, Returned
<1>9. /\ Bound(Src(p))' <=> Bound(Src(p))
      /\ IsLink(Src(p))' <=> IsLink(Src(p))
      /\ IsLink(Src(p)) => (inode[entry[Src(p)]].to)' = inode[entry[Src(p)]].to
  BY <1>2, <1>3, LinkKept DEF SameView
<1>10. /\ Bound(Dst(p))' <=> Bound(Dst(p))
       /\ IsLink(Dst(p))' <=> IsLink(Dst(p))
       /\ IsLink(Dst(p)) => (inode[entry[Dst(p)]].to)' = inode[entry[Dst(p)]].to
  BY <1>2, <1>3, LinkKept DEF SameView
<1>11. OtherSeen(p)'
  <2>1. MaySetTime(p)' <=> MaySetTime(p)
    BY <1>2, <1>4, <1>5 DEF MaySetTime
  <2> QED BY <1>1, <1>2, <1>9, <2>1 DEF Seen, OtherSeen
<1>12. OtherAnswer(p)'
  BY <1>1, <1>2, <1>5, <1>9, <1>10 DEF Seen, OtherAnswer, Returned
<1> QED BY <1>7, <1>8, <1>11, <1>12 DEF Seen
-----------------------------------------------------------------------------
(***************************************************************************)
(* The steps of the call itself.  First the shapes of what it knows after  *)
(* a step: nothing yet, a copy on its way, or an answer.                   *)
(***************************************************************************)
(* Before a call has opened anything it knows nothing.                     *)
LEMMA SeenNothing ==
  ASSUME NEW p \in Proc, text'[p] = NoName,
         pc'[p] \notin Reading \cup {"open_src", "ofstream", "readlink", "done"}
  PROVE  Seen(p)'
BY DEF Seen, CopySeen, OtherSeen, CopyAnswer, OtherAnswer, Returned, Reading, Writing, Busy

(* A copy with its source open knows about its files.                      *)
LEMMA SeenReading ==
  ASSUME NEW p \in Proc, text'[p] = NoName, pc'[p] \in Reading, CopySeen(p)'
  PROVE  Seen(p)'
BY DEF Seen, OtherSeen, CopyAnswer, OtherAnswer, Returned, Reading

(* A copy that fails answers nothing that could be wrong.                  *)
LEMMA SeenCopyFails ==
  ASSUME NEW p \in Proc, pc'[p] = "done", call'[p].op = "copy_file", ~ ok'[p]
  PROVE  Seen(p)'
BY DEF Seen, CopySeen, OtherSeen, CopyAnswer, OtherAnswer, Returned, Reading, Writing, Busy, Labels

(* The other calls know what they answer.                                  *)
LEMMA SeenAnswer ==
  ASSUME NEW p \in Proc, pc'[p] = "done", call'[p].op # "copy_file", OtherAnswer(p)'
  PROVE  Seen(p)'
BY DEF Seen, CopySeen, OtherSeen, CopyAnswer, Returned, Reading, Writing, Busy, Labels

(* What Goto and Return do to the locals of p.                             *)
LEMMA GotoLocals ==
  ASSUME LocalsOK, NEW p \in Proc, NEW l, Goto(p, l)
  PROVE  pc'[p] = l /\ call' = call /\ ok' = ok /\ text' = text
BY DEF Goto, LocalsOK

(* ... and what it returns.                                                *)
LEMMA ReturnLocals ==
  ASSUME LocalsOK, NEW p \in Proc, NEW b, Return(p, b)
  PROVE  pc'[p] = "done" /\ ok'[p] = b /\ call' = call /\ text' = text
BY DEF Return, LocalsOK

(* ... and its descriptors and counters.                                   *)
LEMMA SetIoLocals ==
  ASSUME LocalsOK, NEW p \in Proc, NEW r, SetIo(p, r)
  PROVE  io'[p] = r
BY DEF SetIo, LocalsOK

(* Paths lead where they led when the file system has not changed.         *)
LEMMA QuietLookups ==
  ASSUME UNCHANGED fsVars
  PROVE  /\ inode' = inode /\ entry' = entry
         /\ \A n : Lookup(n)' = Lookup(n) /\ (Exists(n)' <=> Exists(n))
                 /\ (IsLink(n)' <=> IsLink(n))
                 /\ \A k : IsKind(n, k)' <=> IsKind(n, k)
<1>1. inode' = inode /\ entry' = entry
  BY DEF fsVars
<1>2. \A n : Lookup(n)' = Lookup(n)
  BY <1>1, SameLinksIfUnchanged, LookupKept
<1> QED BY <1>1, <1>2 DEF Exists, IsKind, IsLink, Bound

(* The steps of a copy before it has its source open.                      *)
LEMMA SeenFirst ==
  ASSUME TypeInv, NEW p \in Proc, PartOf(p), Seen(p),
         CopyIsFile(p) \/ CopyRemoveDest(p) \/ CopyStdStat(p)
  PROVE  Seen(p)'
<1>1. LocalsOK /\ io[p] \in Io /\ Fits(pc[p], io[p], nextIno)
  BY AtStep
<1>2. call[p].op = "copy_file" /\ text[p] = NoName
  BY DEF CopyIsFile, CopyRemoveDest, CopyStdStat, PartOf, LabelOf, OverwriteLabels,
         CopyLabels, Seen, OtherSeen, Busy, Labels
<1>3. CASE CopyIsFile(p) \/ CopyRemoveDest(p)
  <2>1. PICK l \in {"remove_dst", "std_stat"} : Goto(p, l)
    BY <1>3 DEF CopyIsFile, CopyRemoveDest
  <2>2. pc'[p] = l /\ text' = text
    BY <1>1, <2>1, GotoLocals
  <2> QED BY <1>2, <2>2, SeenNothing DEF Reading
<1>4. CASE CopyStdStat(p) /\ Return(p, FALSE)
  BY <1>1, <1>2, <1>4, ReturnLocals, SeenCopyFails
<1>5. CASE CopyStdStat(p) /\ StdCopyAllowed(Src(p), Dst(p), call[p].overwrite)
  <2> DEFINE n == Len(inode[Lookup(Src(p))].data)
  <2>1. Goto(p, "open_src") /\ SetIo(p, [io[p] EXCEPT !.len = n]) /\ UNCHANGED fsVars
    BY <1>5 DEF CopyStdStat
  <2>2. pc'[p] = "open_src" /\ call' = call /\ text' = text /\ io'[p].len = n
    BY <1>1, <2>1, GotoLocals, SetIoLocals DEF Io
  <2>3. IsKind(Src(p), "reg")' /\ Lookup(Src(p))' = Lookup(Src(p)) /\ inode' = inode
    <3>1. IsKind(Src(p), "reg")
      BY <1>5 DEF StdCopyAllowed
    <3>2. Src(p)' = Src(p)
      BY <2>2 DEF Src
    <3> QED BY <2>1, <3>1, <3>2, QuietLookups
  <2>4. CopySeen(p)'
    BY <2>2, <2>3 DEF CopySeen, Reading, Writing
  <2> QED BY <1>2, <2>2, <2>4
      DEF Seen, OtherSeen, CopyAnswer, OtherAnswer, Returned
<1> QED BY <1>3, <1>4, <1>5 DEF CopyStdStat

(* Opening the source, and asking for its size.                            *)
LEMMA SeenSource ==
  ASSUME TypeInv, NEW p \in Proc, PartOf(p), Seen(p), CopyOpenSource(p) \/ CopyFstat(p)
  PROVE  Seen(p)'
<1>1. LocalsOK /\ FsInv /\ io[p] \in Io /\ Fits(pc[p], io[p], nextIno)
  BY AtStep
<1>2. call[p].op = "copy_file" /\ text[p] = NoName
  BY DEF CopyOpenSource, CopyFstat, PartOf, LabelOf, CopyLabels, Reading, Seen, OtherSeen,
         Busy, Labels
<1>3. UNCHANGED fsVars
  BY DEF CopyOpenSource, CopyFstat
<1>4. inode' = inode /\ \A n : Lookup(n)' = Lookup(n)
  BY <1>3, QuietLookups
<1>5. CASE Return(p, FALSE)
  BY <1>1, <1>2, <1>5, ReturnLocals, SeenCopyFails
<1>6. CASE CopyOpenSource(p) /\ Exists(Src(p))
  <2>1. PICK l \in {"fstat", "open_dst"} :
          /\ Goto(p, l) /\ SetIo(p, [io[p] EXCEPT !.rid = Lookup(Src(p))])
          /\ l = IF BuiltC(p) THEN "fstat" ELSE "open_dst"
    BY <1>6 DEF CopyOpenSource
  <2>2. /\ pc'[p] = l /\ call' = call /\ text' = text
        /\ io'[p].rid = Lookup(Src(p)) /\ io'[p].len = io[p].len
    BY <1>1, <2>1, GotoLocals, SetIoLocals DEF Io
  <2>3. Lookup(Src(p))' = Lookup(Src(p)) /\ (BuiltC(p)' <=> BuiltC(p))
    BY <1>4, <2>2 DEF Src, BuiltC
  <2>4. l = "open_dst" => io[p].len = Len(inode[Lookup(Src(p))].data)
    BY <1>6, <2>1 DEF CopyOpenSource, Seen, CopySeen
  <2>5. CopySeen(p)'
    BY <1>4, <2>2, <2>3, <2>4 DEF CopySeen, Reading, Writing
  <2> QED BY <1>2, <2>2, <2>5, SeenReading DEF Reading
<1>7. CASE CopyFstat(p) /\ Goto(p, "open_dst")
           /\ SetIo(p, [io[p] EXCEPT !.len = Size(io[p].rid)])
  <2>1. /\ pc'[p] = "open_dst" /\ call' = call /\ text' = text
        /\ io'[p].rid = io[p].rid /\ io'[p].len = Size(io[p].rid)
    BY <1>1, <1>7, GotoLocals, SetIoLocals DEF Io
  <2>2. Lookup(Src(p))' = io[p].rid
    <3>1. Lookup(Src(p))' = Lookup(Src(p))
      BY <1>4, <2>1 DEF Src
    <3> QED BY <1>7, <3>1 DEF CopyFstat, Seen, CopySeen, Reading
  <2>3. CopySeen(p)'
    BY <1>4, <2>1, <2>2 DEF CopySeen, Reading, Writing, Apart, Size
  <2> QED BY <1>2, <2>1, <2>3, SeenReading DEF Reading
<1> QED BY <1>5, <1>6, <1>7 DEF CopyOpenSource, CopyFstat
(* A copy that has just opened dest has copied nothing.                    *)
LEMMA SeenOpened ==
  ASSUME TypeInv, NEW p \in Proc, NEW i \in Ino, Seen(p), pc[p] = "open_dst", Opened(p, i),
         Lookup(Src(p))' = io[p].rid, Lookup(Dst(p))' = i,
         inode'[i].data = <<>>,
         io[p].rid # i => inode'[io[p].rid] = inode[io[p].rid]
  PROVE  Seen(p)'
<1>1. LocalsOK /\ io[p] \in Io /\ Fits(pc[p], io[p], nextIno)
  BY AtStep
<1>2. PICK l \in {"copy", "fchmod"} : Goto(p, l)
  BY DEF Opened
<1>3. /\ pc'[p] = l /\ text' = text
      /\ io'[p].rid = io[p].rid /\ io'[p].wid = i /\ io'[p].len = io[p].len
      /\ io'[p].remaining = io[p].len /\ io'[p].ret = io[p].len
  <2>1. pc'[p] = l /\ text' = text
    BY <1>1, <1>2, GotoLocals
  <2>2. io'[p] = [io[p] EXCEPT !.wid = i, !.remaining = io[p].len, !.ret = io[p].len]
    BY <1>1, SetIoLocals DEF Opened
  <2> QED BY <1>1, <2>1, <2>2 DEF Io
<1>4. io[p].rid # io[p].wid
  BY <1>1 DEF Fits, Reading, Writing
<1>5. Apart(p)' => /\ inode'[io[p].rid] = inode[io[p].rid]
                   /\ io[p].len = Len(inode[io[p].rid].data)
  BY <1>3, <1>4 DEF Apart, Seen, CopySeen, Reading
<1>6. Offset(io'[p]) = 0
  BY <1>1, <1>3 DEF Offset, Io
<1>7. SubSeq(inode'[io[p].rid].data, 1, 0) = <<>>
  BY SubSeqEmpty
<1>8. CopySeen(p)'
  BY <1>3, <1>5, <1>6, <1>7 DEF CopySeen, Reading, Writing
<1>9. text[p] = NoName
  BY DEF Seen, OtherSeen, Busy, Labels
<1> QED BY <1>3, <1>8, <1>9, SeenReading DEF Reading

(* Opening dest: it is a new file, or one that is emptied.                 *)
LEMMA SeenDest ==
  ASSUME TypeInv, NEW p \in Proc, PartOf(p), Seen(p), CopyOpenDest(p)
  PROVE  Seen(p)'
<1>1. LocalsOK /\ FsInv /\ io[p] \in Io /\ Fits(pc[p], io[p], nextIno) /\ pc[p] = "open_dst"
  BY AtStep DEF CopyOpenDest
<1>2. call[p].op = "copy_file"
  BY <1>1 DEF PartOf, LabelOf, CopyLabels, Reading
<1>3. io[p].rid = Lookup(Src(p)) /\ io[p].rid \in Ino /\ io[p].rid < nextIno
  BY <1>1 DEF Seen, CopySeen, Fits, Reading, Io
<1>4. CASE Return(p, FALSE)
  BY <1>1, <1>2, <1>4, ReturnLocals, SeenCopyFails
<1>5. call' = call => Src(p)' = Src(p) /\ Dst(p)' = Dst(p)
  BY DEF Src, Dst
<1>6. \A i : Opened(p, i) => call' = call
  BY DEF Opened, Goto
<1>7. CASE OpenCreates(Dst(p), Excl(p)) /\ Bind(End(Dst(p)), NewFile) /\ Opened(p, nextIno)
  <2> DEFINE m == End(Dst(p))
  <2>1. m \in Name /\ ~ Bound(m) /\ nextIno \in Ino
    BY <1>1, <1>7, EndType, Numbers, InoAssumption DEF OpenCreates, Ino
  <2>2. /\ \A n : Lookup(n)' = IF End(n) = m THEN nextIno ELSE Lookup(n)
        /\ inode'[nextIno] = NewFile
    BY <1>1, <1>7, <2>1, BindKept
  <2>3. End(Src(p)) # m
    BY <1>1, <1>3, <2>1, LookupType, InoAssumption DEF FsInv, Exists, Ino, NoIno
  <2>4. Lookup(Src(p))' = io[p].rid /\ Lookup(Dst(p))' = nextIno
    BY <1>3, <1>5, <1>6, <1>7, <2>2, <2>3
  <2>5. inode'[nextIno].data = <<>>
    BY <2>2 DEF NewFile, Unused
  <2>6. io[p].rid # nextIno => inode'[io[p].rid] = inode[io[p].rid]
    BY <1>1, <1>3, <1>7 DEF Bind, FsInv, FsTypeOK
  <2> QED BY <1>1, <1>7, <2>1, <2>4, <2>5, <2>6, SeenOpened
<1>8. CASE OpenTruncates(Dst(p), Excl(p)) /\ SetData(Lookup(Dst(p)), <<>>)
           /\ Opened(p, Lookup(Dst(p)))
  <2> DEFINE i == Lookup(Dst(p))
  <2>1. i \in Ino
    BY <1>1, <1>8, Numbers DEF OpenTruncates, IsKind, Exists
  <2>2. /\ \A n : Lookup(n)' = Lookup(n)
        /\ inode'[i].data = <<>>
        /\ \A j \in Ino \ {i} : inode'[j] = inode[j]
    BY <1>1, <1>8, <2>1, SetDataKept
  <2>3. Lookup(Src(p))' = io[p].rid /\ Lookup(Dst(p))' = i
    BY <1>3, <1>5, <1>6, <1>8, <2>2
  <2> QED BY <1>1, <1>3, <1>8, <2>1, <2>2, <2>3, SeenOpened
<1> QED BY <1>4, <1>7, <1>8 DEF CopyOpenDest

-----------------------------------------------------------------------------
(* Writing the next blocks of s behind those that are already copied.      *)
LEMMA WriteNext ==
  ASSUME NEW s \in Seq(Block), NEW o \in Nat, NEW k \in Nat \ {0}, o + k <= Len(s)
  PROVE  WriteAt(SubSeq(s, 1, o), o, SubSeq(s, o + 1, o + k)) = SubSeq(s, 1, o + k)
<1>1. Len(s) \in Nat /\ \A j \in 1..Len(s) : s[j] \in Block
  BY LenProperties, ElementOfSeq
<1> DEFINE t == SubSeq(s, 1, o)
           c == SubSeq(s, o + 1, o + k)
           u == SubSeq(s, 1, o + k)
<1>2. /\ t \in Seq(Block) /\ Len(t) = o
      /\ \A j \in 1..o : t[j] = s[j]
  <2>1. \A j \in 1..o : s[j] \in Block
    BY <1>1
  <2>2. /\ t \in Seq(Block) /\ Len(t) = IF 1 <= o THEN o - 1 + 1 ELSE 0
        /\ \A j \in 1..(o - 1 + 1) : t[j] = s[1 + j - 1]
    BY <2>1, SubSeqProperties
  <2> QED BY <2>2
<1>3. /\ c \in Seq(Block) /\ Len(c) = k
      /\ \A j \in 1..k : c[j] = s[o + j]
  <2>1. \A j \in (o + 1)..(o + k) : s[j] \in Block
    BY <1>1
  <2>2. o + 1 \in Int /\ o + k \in Int
    OBVIOUS
  <2>3. /\ c \in Seq(Block)
        /\ Len(c) = IF o + 1 <= o + k THEN (o + k) - (o + 1) + 1 ELSE 0
        /\ \A j \in 1..((o + k) - (o + 1) + 1) : c[j] = s[(o + 1) + j - 1]
    BY <2>1, <2>2, SubSeqProperties
  <2> QED BY <2>3
<1>4. /\ u \in Seq(Block) /\ Len(u) = o + k
      /\ \A j \in 1..(o + k) : u[j] = s[j]
  <2>1. \A j \in 1..(o + k) : s[j] \in Block
    BY <1>1
  <2>2. /\ u \in Seq(Block) /\ Len(u) = IF 1 <= o + k THEN o + k - 1 + 1 ELSE 0
        /\ \A j \in 1..(o + k - 1 + 1) : u[j] = s[1 + j - 1]
    BY <2>1, SubSeqProperties
  <2> QED BY <2>2
<1> HIDE DEF t, c, u
<1> DEFINE w == WriteAt(t, o, c)
<1>5. w = [j \in 1..(o + k) |->
             IF j > o /\ j <= o + k THEN c[j - o] ELSE IF j <= o THEN t[j] ELSE Hole]
  BY <1>2, <1>3 DEF WriteAt
<1>6. w \in Seq(Block)
  BY <1>2, <1>3, WriteAtType
<1>7. Len(w) = o + k
  BY <1>5, <1>6, LenProperties
<1>8. ASSUME NEW j \in 1..(o + k) PROVE w[j] = u[j]
  <2>1. CASE j > o
    <3>1. w[j] = c[j - o] /\ j - o \in 1..k
      BY <1>5, <2>1
    <3>2. c[j - o] = s[o + (j - o)] /\ o + (j - o) = j
      BY <1>3, <3>1
    <3> QED BY <1>4, <3>1, <3>2
  <2>2. CASE ~ (j > o)
    <3>1. w[j] = t[j] /\ j \in 1..o
      BY <1>5, <2>2
    <3> QED BY <1>2, <1>4, <3>1
  <2> QED BY <2>1, <2>2
<1>9. w = u
  BY <1>4, <1>6, <1>7, <1>8, SeqEqual
<1> QED BY <1>9 DEF t, c, u

(* All of a sequence.                                                      *)
LEMMA SubSeqAll ==
  ASSUME NEW s \in Seq(Block)
  PROVE  SubSeq(s, 1, Len(s)) = s
<1>1. Len(s) \in Nat /\ \A j \in 1..Len(s) : s[j] \in Block
  BY LenProperties, ElementOfSeq
<1> DEFINE n == Len(s)
<1>2. /\ SubSeq(s, 1, n) \in Seq(Block)
      /\ Len(SubSeq(s, 1, n)) = IF 1 <= n THEN n - 1 + 1 ELSE 0
      /\ \A j \in 1..(n - 1 + 1) : SubSeq(s, 1, n)[j] = s[1 + j - 1]
  BY <1>1, SubSeqProperties
<1>3. Len(SubSeq(s, 1, n)) = n /\ \A j \in 1..n : SubSeq(s, 1, n)[j] = s[j]
  BY <1>1, <1>2
<1> QED BY <1>2, <1>3, SeqEqual
(* An iteration of the copy loop: dest holds the next blocks, too.         *)
LEMMA SeenChunk ==
  ASSUME TypeInv, NEW p \in Proc, PartOf(p), Seen(p), CopyChunk(p)
  PROVE  Seen(p)'
<1> DEFINE r == io[p]
           s == inode[r.rid].data
           o == Offset(r)
<1>1. LocalsOK /\ FsInv /\ r \in Io /\ Fits("copy", r, nextIno) /\ LoopGoesOn(r)
      /\ Goto(p, "copy") /\ pc[p] = "copy"
  BY AtStep DEF CopyChunk
<1>2. pc'[p] = "copy" /\ call' = call /\ text' = text
  BY <1>1, GotoLocals
<1>3. /\ r.rid \in Ino /\ r.wid \in Ino
      /\ r.rid = Lookup(Src(p)) /\ r.wid = Lookup(Dst(p))
      /\ text[p] = NoName
      /\ Apart(p) => /\ r.len = Len(s) /\ inode[r.wid].data = SubSeq(s, 1, o)
                     /\ r.ret = 0 => r.remaining = 0
  BY <1>1 DEF Seen, CopySeen, OtherSeen, Busy, Labels, Reading, Writing, Fits, Io
<1>4. Src(p)' = Src(p) /\ Dst(p)' = Dst(p)
  BY <1>2 DEF Src, Dst
<1>5. /\ r.len \in Nat /\ r.remaining \in Nat /\ r.remaining > 0 /\ r.remaining <= r.len
      /\ o \in Nat /\ o = r.len - r.remaining
  BY <1>1 DEF Io, Fits, Offset, LoopGoesOn
<1>6. s \in Seq(Block) /\ Len(s) \in Nat
  BY <1>1, <1>3, Numbers
<1>7. ASSUME NEW k \in 1..AtMost(r), r.rid # r.wid,
             SetData(r.wid, WriteAt(inode[r.wid].data, o, SubSeq(s, o + 1, o + k))),
             SetIo(p, [r EXCEPT !.remaining = @ - k, !.ret = k])
      PROVE  Seen(p)'
  <2>1. /\ \A n : Lookup(n)' = Lookup(n)
        /\ inode'[r.wid].data = WriteAt(inode[r.wid].data, o, SubSeq(s, o + 1, o + k))
        /\ inode'[r.rid] = inode[r.rid]
    BY <1>1, <1>3, <1>7, SetDataKept
  <2>2. io'[p] = [r EXCEPT !.remaining = @ - k, !.ret = k]
    BY <1>1, <1>7, SetIoLocals
  <2>3. /\ io'[p].rid = r.rid /\ io'[p].wid = r.wid /\ io'[p].len = r.len
        /\ io'[p].remaining = r.remaining - k /\ io'[p].ret = k
    BY <1>1, <2>2 DEF Io
  <2>4. k \in Nat \ {0}
    <3>1. AtMost(r) \in Nat
      BY <1>5, <1>6 DEF AtMost, Available
    <3> QED BY <3>1
  <2>5. Apart(p) => o + k <= Len(s)
    <3> DEFINE n == Len(s)
    <3>1. AtMost(r) <= r.remaining /\ AtMost(r) \in Nat
      BY <1>5, <1>6 DEF AtMost, Available
    <3>2. Apart(p) => r.len = n
      BY <1>3
    <3> HIDE DEF n, o
    <3>3. k <= r.remaining
      BY <3>1, <1>5
    <3> QED BY <3>2, <3>3, <1>5, <2>4 DEF n
  <2>6. Offset(io'[p]) = o + k
    BY <1>5, <2>3, <2>4 DEF Offset
  <2>7. Apart(p)' => Apart(p)
    BY <2>1, <2>3 DEF Apart
  <2>8. Apart(p) => inode'[r.wid].data = SubSeq(s, 1, o + k)
    BY <1>3, <1>5, <1>6, <2>1, <2>4, <2>5, WriteNext
  <2>9. Lookup(Src(p))' = r.rid /\ Lookup(Dst(p))' = r.wid
    BY <1>3, <1>4, <2>1
  <2>10. io'[p].ret # 0
    BY <2>3, <2>4
  <2>11. CopySeen(p)'
    BY <1>2, <1>3, <2>1, <2>3, <2>6, <2>7, <2>8, <2>9, <2>10 DEF CopySeen, Reading, Writing
  <2> QED BY <1>2, <1>3, <2>11, SeenReading DEF Reading
<1>8. ASSUME NEW x \in {0, -1}, SetIo(p, [r EXCEPT !.ret = x]), UNCHANGED fsVars,
             x = 0 => ~ Apart(p)
      PROVE  Seen(p)'
  <2>1. inode' = inode /\ \A n : Lookup(n)' = Lookup(n)
    BY <1>8, QuietLookups
  <2>2. /\ io'[p].rid = r.rid /\ io'[p].wid = r.wid /\ io'[p].len = r.len
        /\ io'[p].remaining = r.remaining /\ io'[p].ret = x
    BY <1>1, <1>8, SetIoLocals DEF Io
  <2>3. Offset(io'[p]) = o /\ (Apart(p)' <=> Apart(p))
    BY <2>1, <2>2 DEF Offset, Apart
  <2>4. Lookup(Src(p))' = r.rid /\ Lookup(Dst(p))' = r.wid
    BY <1>3, <1>4, <2>1
  <2>5. CopySeen(p)'
    BY <1>2, <1>3, <1>8, <2>1, <2>2, <2>3, <2>4 DEF CopySeen, Reading, Writing
  <2> QED BY <1>2, <1>3, <2>5, SeenReading DEF Reading
<1>9. Available(r) = 0 => ~ Apart(p)
  <2>1. Apart(p) => Len(s) > o
    <3> DEFINE n == Len(s)
    <3>1. Apart(p) => r.len = n
      BY <1>3
    <3> HIDE DEF n
    <3>2. Apart(p) => n > o
      BY <3>1, <1>5
    <3> QED BY <3>2 DEF n
  <2> QED BY <1>5, <1>6, <2>1 DEF Available
<1>10. CASE UNCHANGED fsVars
  <2>1. \/ SetIo(p, [r EXCEPT !.ret = 0]) /\ Available(r) = 0
        \/ SetIo(p, [r EXCEPT !.ret = -1])
        \/ \E k \in 1..AtMost(r) :
             /\ r.rid # r.wid
             /\ SetData(r.wid, WriteAt(inode[r.wid].data, o, SubSeq(s, o + 1, o + k)))
             /\ SetIo(p, [r EXCEPT !.remaining = @ - k, !.ret = k])
    BY DEF CopyChunk
  <2>2. CASE SetIo(p, [r EXCEPT !.ret = 0]) /\ Available(r) = 0
    BY <1>8, <1>9, <1>10, <2>2
  <2>3. CASE SetIo(p, [r EXCEPT !.ret = -1])
    <3>1. -1 # 0
      OBVIOUS
    <3> QED BY <1>8, <1>10, <2>3, <3>1
  <2> QED BY <1>7, <2>1, <2>2, <2>3
<1>11. CASE ~ UNCHANGED fsVars
  <2>1. \E k \in 1..AtMost(r) :
             /\ r.rid # r.wid
             /\ SetData(r.wid, WriteAt(inode[r.wid].data, o, SubSeq(s, o + 1, o + k)))
             /\ SetIo(p, [r EXCEPT !.remaining = @ - k, !.ret = k])
    BY <1>11 DEF CopyChunk
  <2> QED BY <1>7, <2>1
<1> QED BY <1>10, <1>11

(* The copy gives dest its permissions, and leaves the loop.               *)
LEMMA SeenLoop ==
  ASSUME TypeInv, NEW p \in Proc, PartOf(p), Seen(p), CopyFchmod(p) \/ CopyLoopEnds(p)
  PROVE  Seen(p)'
<1>1. LocalsOK /\ pc[p] \in {"fchmod", "copy"}
  BY AtStep DEF CopyFchmod, CopyLoopEnds
<1>2. call[p].op = "copy_file" /\ text[p] = NoName
  BY <1>1 DEF PartOf, LabelOf, CopyLabels, Reading, Seen, OtherSeen, Busy, Labels
<1>3. CASE Return(p, FALSE)
  BY <1>1, <1>2, <1>3, ReturnLocals, SeenCopyFails
<1>4. ASSUME NEW l \in {"copy", "close"}, Goto(p, l), UNCHANGED <<fsVars, io>>,
             l = "close" => ~ LoopGoesOn(io[p])
      PROVE  Seen(p)'
  <2>1. pc'[p] = l /\ call' = call /\ text' = text
    BY <1>1, <1>4, GotoLocals
  <2>2. Lookup(Src(p))' = Lookup(Src(p)) /\ Lookup(Dst(p))' = Lookup(Dst(p)) /\ inode' = inode
    <3>1. Src(p)' = Src(p) /\ Dst(p)' = Dst(p)
      BY <2>1 DEF Src, Dst
    <3> QED BY <1>4, <3>1, QuietLookups
  <2>3. CopySeen(p)'
    BY <1>1, <1>4, <2>1, <2>2 DEF Seen, CopySeen, Apart, Reading, Writing
  <2> QED BY <1>2, <2>1, <2>3, SeenReading DEF Reading
<1> QED BY <1>3, <1>4 DEF CopyFchmod, CopyLoopEnds

(* A copy that returns true has copied all there was.                      *)
LEMMA SeenClose ==
  ASSUME TypeInv, NEW p \in Proc, PartOf(p), Seen(p), CopyClose(p)
  PROVE  Seen(p)'
<1> DEFINE r == io[p]
<1>1. LocalsOK /\ FsInv /\ r \in Io /\ Fits("close", r, nextIno) /\ pc[p] = "close"
  BY AtStep DEF CopyClose
<1>2. call[p].op = "copy_file"
  BY <1>1 DEF PartOf, LabelOf, CopyLabels, Reading
<1>3. CASE Return(p, FALSE)
  BY <1>1, <1>2, <1>3, ReturnLocals, SeenCopyFails
<1>4. CASE Return(p, TRUE) /\ r.ret >= 0 /\ UNCHANGED fsVars
  <2>1. pc'[p] = "done" /\ call' = call
    BY <1>1, <1>4, ReturnLocals
  <2>2. inode' = inode /\ Lookup(Src(p))' = Lookup(Src(p)) /\ Lookup(Dst(p))' = Lookup(Dst(p))
    <3>1. Src(p)' = Src(p) /\ Dst(p)' = Dst(p)
      BY <2>1 DEF Src, Dst
    <3> QED BY <1>4, <3>1, QuietLookups
  <2>3. /\ r.rid = Lookup(Src(p)) /\ r.wid = Lookup(Dst(p)) /\ r.rid # NoIno /\ r.wid # NoIno
        /\ r.rid \in Ino
        /\ ~ LoopGoesOn(r)
        /\ Apart(p) => /\ r.len = Len(inode[r.rid].data)
                       /\ inode[r.wid].data = SubSeq(inode[r.rid].data, 1, Offset(r))
                       /\ r.ret = 0 => r.remaining = 0
    BY <1>1 DEF Seen, CopySeen, Reading, Writing, Fits, Io
  <2>4. Apart(p) => Offset(r) = r.len
    BY <1>1, <1>4, <2>3 DEF Offset, LoopGoesOn, Io
  <2>5. inode[r.rid].data \in Seq(Block)
    BY <1>1, <2>3, Numbers
  <2>6. Apart(p) => inode[r.wid].data = inode[r.rid].data
    BY <2>3, <2>4, <2>5, SubSeqAll
  <2>7. CopyAnswer(p)'
    BY <2>2, <2>3, <2>6 DEF CopyAnswer, Exists, IsKind, Apart
  <2> QED BY <1>2, <2>1, <2>7
      DEF Seen, CopySeen, OtherSeen, OtherAnswer, Returned, Busy, Labels, Reading, Writing
<1> QED BY <1>3, <1>4 DEF CopyClose, Copied
-----------------------------------------------------------------------------
(* A call that sets a time sets it, or learns that there is none to set.   *)
LEMMA SeenModtime ==
  ASSUME TypeInv, NEW p \in Proc, OpOf(p), Seen(p), SetModtime(p)
  PROVE  Seen(p)'
<1>1. LocalsOK /\ UNCHANGED fsVars /\ pc[p] = "utime"
  BY AtStep DEF SetModtime
<1>2. call[p].op \in {"touch", "set_modtime"} /\ text[p] = NoName
  BY <1>1 DEF OpOf, Seen, OtherSeen, Busy, Labels
<1>3. call' = call => /\ Exists(Src(p))' <=> Exists(Src(p))
                      /\ Lookup(Src(p))' = Lookup(Src(p))
                      /\ BuiltC(p)' <=> BuiltC(p)
                      /\ inode' = inode
  <2>1. call' = call => Src(p)' = Src(p) /\ (BuiltC(p)' <=> BuiltC(p))
    BY DEF Src, BuiltC
  <2> QED BY <1>1, <2>1, QuietLookups
<1>4. CASE MaySetTime(p)
  <2>1. pc'[p] = "done" /\ ok'[p] /\ call' = call /\ text' = text /\ Exists(Src(p))
    BY <1>1, <1>4, ReturnLocals DEF SetModtime, MaySetTime
  <2>2. OtherAnswer(p)'
    BY <1>2, <1>3, <2>1 DEF OtherAnswer, Returned
  <2> QED BY <1>2, <2>1, <2>2, SeenAnswer
<1>5. CASE ~ MaySetTime(p) /\ call[p].op = "touch"
  <2>1. pc'[p] = "ofstream" /\ call' = call /\ text' = text
    BY <1>1, <1>5, GotoLocals DEF SetModtime
  <2>2. ~ MaySetTime(p)'
    BY <1>3, <1>5, <2>1 DEF MaySetTime
  <2> QED BY <1>2, <2>1, <2>2
      DEF Seen, CopySeen, OtherSeen, CopyAnswer, OtherAnswer, Returned, Reading, Writing
<1>6. CASE ~ MaySetTime(p) /\ call[p].op # "touch"
  <2>1. pc'[p] = "done" /\ call' = call /\ text' = text
    BY <1>1, <1>6, ReturnLocals DEF SetModtime
  <2>2. OtherAnswer(p)'
    BY <1>2, <1>6, <2>1 DEF OtherAnswer, Returned
  <2> QED BY <1>2, <2>1, <2>2, SeenAnswer
<1> QED BY <1>4, <1>5, <1>6

(* The fallback of touch: afterwards there is a file, if it returns true.  *)
LEMMA SeenOfstream ==
  ASSUME TypeInv, NEW p \in Proc, OpOf(p), Seen(p), TouchOfstream(p)
  PROVE  Seen(p)'
<1>1. LocalsOK /\ FsInv /\ pc[p] = "ofstream"
  BY AtStep DEF TouchOfstream
<1>2. call[p].op = "touch"
  BY <1>1 DEF OpOf
<1>3. PICK b \in BOOLEAN : Return(p, b)
  BY DEF TouchOfstream
<1>4. pc'[p] = "done" /\ ok'[p] = b /\ call' = call
  BY <1>1, <1>3, ReturnLocals
<1>5. Src(p)' = Src(p)
  BY <1>4 DEF Src
<1>6. CASE Return(p, FALSE)
  <2>1. ~ ok'[p]
    BY <1>1, <1>6, ReturnLocals
  <2>2. OtherAnswer(p)'
    BY <1>2, <1>4, <2>1 DEF OtherAnswer, Returned
  <2> QED BY <1>2, <1>4, <2>2, SeenAnswer
<1>7. CASE OpenCreates(Src(p), FALSE) /\ Bind(End(Src(p)), NewFile)
  <2>1. End(Src(p)) \in Name /\ ~ Bound(End(Src(p))) /\ nextIno \in Ino
    BY <1>1, <1>7, EndType, Numbers, InoAssumption DEF OpenCreates, Ino
  <2>2. Lookup(Src(p))' = nextIno
    BY <1>1, <1>5, <1>7, <2>1, BindKept
  <2>3. Exists(Src(p))'
    BY <2>1, <2>2, InoAssumption DEF Exists, Ino, NoIno
  <2>4. OtherAnswer(p)'
    BY <1>2, <1>4, <2>3 DEF OtherAnswer, Returned
  <2> QED BY <1>2, <1>4, <2>4, SeenAnswer
<1>8. CASE OpenTruncates(Src(p), FALSE) /\ SetData(Lookup(Src(p)), <<>>)
  <2>1. Lookup(Src(p)) \in Ino /\ Exists(Src(p))
    BY <1>1, <1>8, Numbers DEF OpenTruncates, IsKind, Exists
  <2>2. Lookup(Src(p))' = Lookup(Src(p))
    BY <1>1, <1>5, <1>8, <2>1, SetDataKept
  <2>3. Exists(Src(p))'
    BY <2>1, <2>2 DEF Exists
  <2>4. OtherAnswer(p)'
    BY <1>2, <1>4, <2>3 DEF OtherAnswer, Returned
  <2> QED BY <1>2, <1>4, <2>4, SeenAnswer
<1> QED BY <1>6, <1>7, <1>8 DEF TouchOfstream

(* The calls that are one system call.                                     *)
LEMMA SeenSingle ==
  ASSUME TypeInv, NEW p \in Proc, OpOf(p), Seen(p),
         Remove(p) \/ Rename(p) \/ CreateSymlink(p)
  PROVE  Seen(p)'
<1>1. LocalsOK /\ FsInv /\ Src(p) \in Path /\ Dst(p) \in Path /\ nextIno \in Nat /\ nextIno >= 1
      /\ nextIno <= MaxIno + 1
  BY AtStep, Numbers
<1>2. PICK b \in BOOLEAN : Return(p, b)
  BY DEF Remove, Rename, CreateSymlink
<1>3. pc'[p] = "done" /\ ok'[p] = b /\ call' = call
  BY <1>1, <1>2, ReturnLocals
<1>4. Src(p)' = Src(p) /\ Dst(p)' = Dst(p)
  BY <1>3 DEF Src, Dst
<1>5. call[p].op \in {"remove", "rename", "create_symlink"}
  BY DEF OpOf, Remove, Rename, CreateSymlink
<1>6. ASSUME Return(p, FALSE) PROVE OtherAnswer(p)'
  <2>1. ~ ok'[p]
    BY <1>1, <1>6, ReturnLocals
  <2> QED BY <1>3, <1>5, <2>1 DEF OtherAnswer, Returned
<1>7. CASE Remove(p) /\ Unbind(Src(p)) /\ Bound(Src(p))
  <2>1. call[p].op = "remove"
    BY <1>7 DEF Remove, OpOf
  <2>2. ~ Bound(Src(p))'
    BY <1>1, <1>4, <1>7 DEF Unbind, Bound, FsInv, FsTypeOK
  <2> QED BY <1>3, <1>5, <2>1, <2>2, SeenAnswer DEF OtherAnswer, Returned
<1>8. CASE Rename(p) /\ Renamable(Src(p), Dst(p)) /\ RenameEffect(Src(p), Dst(p))
  <2>1. call[p].op = "rename"
    BY <1>8 DEF Rename, OpOf
  <2>2. Bound(Dst(p))'
    BY <1>1, <1>4, <1>8 DEF Renamable, RenameEffect, Bound, FsInv, FsTypeOK
  <2> QED BY <1>3, <1>5, <2>1, <2>2, SeenAnswer DEF OtherAnswer, Returned
<1>9. CASE CreateSymlink(p) /\ Dst(p) # NoName /\ nextIno <= MaxIno
           /\ Bind(Dst(p), NewLink(Src(p)))
  <2>1. call[p].op = "create_symlink"
    BY <1>9 DEF CreateSymlink, OpOf
  <2>2. Dst(p) \in Name /\ nextIno \in Ino /\ nextIno # NoIno
    BY <1>1, <1>9, InoAssumption DEF Path, Ino, NoIno
  <2>3. entry'[Dst(p)] = nextIno /\ inode'[nextIno] = NewLink(Src(p))
    BY <1>1, <1>9, <2>2 DEF Bind, FsInv, FsTypeOK
  <2>4. NewLink(Src(p)).kind = "lnk" /\ NewLink(Src(p)).to = Src(p)
    BY DEF NewLink, Unused
  <2>5. IsLink(Dst(p))' /\ (inode[entry[Dst(p)]].to)' = Src(p)'
    BY <1>4, <2>2, <2>3, <2>4 DEF IsLink, Bound
  <2> QED BY <1>3, <1>5, <2>1, <2>5, SeenAnswer DEF OtherAnswer, Returned
<1>10. CASE Return(p, FALSE)
  BY <1>3, <1>5, <1>6, <1>10, SeenAnswer
<1> QED BY <1>7, <1>8, <1>9, <1>10 DEF Remove, Rename, CreateSymlink, Removable

(* fs_read_symlink: the link that was there is still there to be read.     *)
LEMMA SeenReadLink ==
  ASSUME TypeInv, NEW p \in Proc, OpOf(p), Seen(p), ReadIsSymlink(p) \/ ReadLink(p)
  PROVE  Seen(p)'
<1>1. LocalsOK /\ UNCHANGED fsVars /\ pc[p] \in {"is_symlink", "readlink"}
  BY AtStep DEF ReadIsSymlink, ReadLink
<1>2. call[p].op = "read_symlink" /\ text[p] = NoName
  BY <1>1 DEF OpOf, Seen, OtherSeen, Busy, Labels
<1>3. call' = call /\ Src(p)' = Src(p)
  BY DEF ReadIsSymlink, ReadLink, Goto, Return, Src
<1>4. /\ inode' = inode /\ entry' = entry
      /\ IsLink(Src(p))' <=> IsLink(Src(p))
  BY <1>1, <1>3, QuietLookups
<1>5. CASE ReadIsSymlink(p) /\ IsSymlink(Src(p))
  <2>1. pc'[p] = "readlink" /\ text' = text
    BY <1>1, <1>5, GotoLocals DEF ReadIsSymlink
  <2>2. IsLink(Src(p))'
    BY <1>4, <1>5 DEF IsSymlink
  <2> QED BY <1>2, <2>1, <2>2
      DEF Seen, CopySeen, OtherSeen, CopyAnswer, OtherAnswer, Returned, Reading, Writing
<1>6. CASE ReadIsSymlink(p) /\ ~ IsSymlink(Src(p))
  <2>1. pc'[p] = "done" /\ ok'[p] = FALSE /\ text' = text
    BY <1>1, <1>6, ReturnLocals DEF ReadIsSymlink
  <2>2. ~ IsLink(Src(p))'
    BY <1>4, <1>6 DEF IsSymlink
  <2>3. OtherAnswer(p)'
    BY <1>2, <1>3, <2>1, <2>2 DEF OtherAnswer, Returned
  <2> QED BY <1>2, <1>3, <2>1, <2>3, SeenAnswer
<1>7. CASE ReadLink(p)
  <2>1. IsLink(Src(p)) /\ IsLink(Src(p))'
    BY <1>4, <1>7 DEF ReadLink, Seen, OtherSeen
  <2>2. pc'[p] = "done" /\ ok'[p] = TRUE /\ text'[p] = inode[entry[Src(p)]].to
    BY <1>1, <1>7, <2>1 DEF ReadLink, LocalsOK
  <2>3. OtherAnswer(p)'
    BY <1>2, <1>3, <1>4, <2>1, <2>2 DEF OtherAnswer, Returned
  <2> QED BY <1>2, <1>3, <2>2, <2>3, SeenAnswer
<1> QED BY <1>5, <1>6, <1>7

(* Whatever step p takes, it knows afterwards what its place requires.     *)
LEMMA SeenStep ==
  ASSUME TypeInv, NEW p \in Proc, PartOf(p), OpOf(p), Seen(p), Step(p) \/ Crash(p)
  PROVE  Seen(p)'
<1>1. CASE Crash(p)
  <2>1. LocalsOK /\ Goto(p, "dead") /\ text[p] = NoName
    BY <1>1 DEF TypeInv, Crash, Seen, OtherSeen
  <2>2. pc'[p] = "dead" /\ text' = text
    BY <2>1, GotoLocals
  <2> QED BY <2>1, <2>2, SeenNothing DEF Reading
<1> QED BY <1>1, SeenFirst, SeenSource, SeenDest, SeenChunk, SeenLoop, SeenClose, SeenModtime,
           SeenOfstream, SeenSingle, SeenReadLink DEF Step
-----------------------------------------------------------------------------
(***************************************************************************)
(* The invariant.                                                          *)
(***************************************************************************)
(* A step of p moves it to a place of the same function.                   *)
LEMMA OpOfStep ==
  ASSUME TypeInv, NEW p \in Proc, PartOf(p), OpOf(p), Step(p) \/ Crash(p)
  PROVE  OpOf(p)'
<1>1. LocalsOK
  BY DEF TypeInv
<1>2. call' = call
  BY StepFrame DEF Frame, Step, Die, CopyIsFile, CopyRemoveDest, CopyStdStat, CopyOpenSource,
     CopyFstat, CopyOpenDest, Opened, CopyFchmod, CopyChunk, CopyLoopEnds, CopyClose,
     SetModtime, TouchOfstream, Remove, Rename, CreateSymlink, ReadIsSymlink, ReadLink,
     Crash, Goto, Return
<1>3. \/ pc'[p] \in OverwriteLabels \cup CopyLabels \cup {"done", "dead"}
      \/ pc'[p] = "ofstream" /\ call[p].op = "touch"
      \/ pc'[p] = "readlink" /\ pc[p] = "is_symlink"
  <2>1. CASE CopyIsFile(p) \/ CopyRemoveDest(p) \/ CopyStdStat(p) \/ CopyOpenSource(p)
             \/ CopyFstat(p) \/ CopyFchmod(p) \/ CopyLoopEnds(p) \/ CopyClose(p) \/ Crash(p)
    BY <1>1, <2>1 DEF CopyIsFile, CopyRemoveDest, CopyStdStat, CopyOpenSource, CopyFstat,
       CopyFchmod, CopyLoopEnds, CopyClose, Crash, Goto, Return, LocalsOK, OverwriteLabels,
       CopyLabels, Reading
  <2>2. CASE CopyOpenDest(p) \/ CopyChunk(p)
    BY <1>1, <2>2 DEF CopyOpenDest, Opened, CopyChunk, Goto, Return, LocalsOK,
       OverwriteLabels, CopyLabels, Reading
  <2>3. CASE SetModtime(p) \/ TouchOfstream(p) \/ Remove(p) \/ Rename(p)
             \/ CreateSymlink(p) \/ ReadIsSymlink(p) \/ ReadLink(p)
    BY <1>1, <2>3 DEF SetModtime, TouchOfstream, Remove, Rename, CreateSymlink,
       ReadIsSymlink, ReadLink, Goto, Return, LocalsOK
  <2> QED BY <2>1, <2>2, <2>3 DEF Step
<1> QED BY <1>2, <1>3 DEF OpOf, OverwriteLabels, CopyLabels, Reading

(* A step of p leaves every local of every other call as it is.            *)
LEMMA OtherLocals ==
  ASSUME TypeInv, NEW p \in Proc, Step(p) \/ Die(p), NEW q \in Proc \ {p}
  PROVE  Locals(q)' = Locals(q)
<1>1. LocalsOK
  BY DEF TypeInv
<1>2. text'[q] = text[q]
  BY <1>1 DEF Step, Die, CopyIsFile, CopyRemoveDest, CopyStdStat, CopyOpenSource, CopyFstat,
     CopyOpenDest, Opened, CopyFchmod, CopyChunk, CopyLoopEnds, CopyClose, SetModtime,
     TouchOfstream, Remove, Rename, CreateSymlink, ReadIsSymlink, ReadLink, Crash, Goto,
     Return, LocalsOK
<1>3. call'[q] = call[q] /\ pc'[q] = pc[q] /\ ok'[q] = ok[q] /\ io'[q] = io[q]
  BY StepFrame DEF Frame
<1> QED BY <1>2, <1>3 DEF Locals

(* What the invariant says of one call beyond ClobberInv.                  *)
Knows(p) == OpOf(p) /\ (~ dirty[p] => Seen(p))

(* A call whose locals stay keeps its part, whatever others do in a step   *)
(* that leaves files of their kind: either it is dirty after the step or   *)
(* nothing it looks at has changed.                                        *)
LEMMA KnowsKept ==
  ASSUME TypeInv, NEW q \in Proc, Knows(q), Locals(q)' = Locals(q), KindsKept,
         ~ dirty'[q] => ~ dirty[q] /\ SameView(q)
  PROVE  Knows(q)'
<1>1. call'[q] = call[q] /\ pc'[q] = pc[q]
  BY DEF Locals
<1>2. OpOf(q)'
  BY <1>1 DEF Knows, OpOf
<1>3. ~ dirty'[q] => Seen(q)'
  BY SeenKept DEF Knows
<1> QED BY <1>2, <1>3 DEF Knows

(* A file system that stays as it is keeps the kinds of its files.         *)
LEMMA KindsIfUnchanged ==
  ASSUME UNCHANGED fsVars
  PROVE  KindsKept
BY DEF KindsKept, fsVars

(* The invariant holds before any call is made.                            *)
LEMMA InitUndisturbedInv == Init => UndisturbedInv
<1> SUFFICES ASSUME Init PROVE UndisturbedInv
  OBVIOUS
<1>1. ClobberInv
  BY InitClobberInv
<1>2. ASSUME NEW p \in Proc PROVE OpOf(p) /\ Seen(p)
  <2>1. pc[p] = "idle"
    BY DEF Init
  <2> QED BY <2>1 DEF OpOf, Seen, CopySeen, OtherSeen, CopyAnswer, OtherAnswer, Returned,
       Reading, Writing, Busy, Labels
<1> QED BY <1>1, <1>2 DEF UndisturbedInv

(* A call that begins knows nothing and is asked for nothing yet; the      *)
(* others keep what they know.                                             *)
LEMMA BeginKnows ==
  ASSUME TypeInv, \A q \in Proc : Knows(q), NEW p \in Proc, NEW c \in Calls, Begin(p, c),
         NEW q \in Proc
  PROVE  Knows(q)'
<1>1. LocalsOK /\ dirty \in [Proc -> BOOLEAN] /\ c \in Call /\ UNCHANGED fsVars
  BY CallsAssumption DEF TypeInv, Begin
<1>2. CASE q = p
  <2>1. call'[p] = c /\ pc'[p] = FirstStep(c) /\ text'[p] = NoName
    BY <1>1 DEF Begin, LocalsOK
  <2>2. OpOf(p)' /\ FirstStep(c) \notin Reading \cup {"ofstream", "readlink", "done"}
        /\ (FirstStep(c) = "open_src" => c.build = "c")
    BY <1>1, <2>1 DEF OpOf, FirstStep, Call, Op, Reading
  <2>3. Seen(p)'
    BY <2>1, <2>2 DEF Seen, CopySeen, OtherSeen, CopyAnswer, OtherAnswer, Returned, BuiltC,
       Reading, Writing
  <2> QED BY <1>2, <2>2, <2>3 DEF Knows
<1>3. CASE q # p
  <2>1. Locals(q)' = Locals(q) /\ dirty'[q] = dirty[q]
    BY <1>1, <1>3 DEF Begin, Locals, LocalsOK
  <2> QED BY <1>1, <2>1, SameViewIfUnchanged, KindsIfUnchanged, KnowsKept
<1> QED BY <1>2, <1>3

(* A step of p, or its death, keeps what every call knows.                 *)
LEMMA StepKnows ==
  ASSUME TypeInv, NEW p \in Proc, PartOf(p), Knows(p), Step(p) \/ Die(p),
         NEW q \in Proc, Knows(q)
  PROVE  Knows(q)'
<1>1. dirty \in [Proc -> BOOLEAN]
  BY DEF TypeInv
<1>2. CASE q = p
  <2>1. Step(p) \/ Crash(p)
    BY DEF Die
  <2>2. dirty'[p] = dirty[p]
    BY <1>1 DEF Step, Die, DisturbOthers
  <2> QED BY <1>2, <2>1, <2>2, OpOfStep, SeenStep DEF Knows
<1>3. CASE q # p
  <2>1. Locals(q)' = Locals(q) /\ KindsKept
    BY <1>3, OtherLocals, KindsStep
  <2>2. ASSUME ~ dirty'[q] PROVE ~ dirty[q] /\ SameView(q)
    <3>1. CASE Step(p)
      <4>1. DisturbOthers({p}) /\ q \notin {p}
        BY <1>3, <3>1 DEF Step
      <4> QED BY <1>1, <2>1, <2>2, <4>1, SameViewIfClean
    <3>2. CASE Die(p)
      <4>1. UNCHANGED fsVars /\ dirty' = dirty
        BY <3>2 DEF Die, Crash
      <4> QED BY <2>1, <2>2, <4>1, SameViewIfUnchanged
    <3> QED BY <3>1, <3>2
  <2> QED BY <2>1, <2>2, KnowsKept
<1> QED BY <1>2, <1>3

(* Another program that rewrites a file dirties the calls that look at it. *)
LEMMA EnvKnows ==
  ASSUME TypeInv, NEW i \in Ino, NEW d \in EnvData, EnvWrite(i, d), NEW q \in Proc, Knows(q)
  PROVE  Knows(q)'
<1>1. FsInv /\ dirty \in [Proc -> BOOLEAN] /\ SetData(i, d) /\ DisturbOthers({})
  BY DEF TypeInv, EnvWrite
<1>2. Locals(q)' = Locals(q)
  BY DEF EnvWrite, callVars, Locals
<1>3. KindsKept
  BY <1>1, SetDataKept
<1>4. ~ dirty'[q] => ~ dirty[q] /\ SameView(q)
  BY <1>1, <1>2, SameViewIfClean
<1> QED BY <1>2, <1>3, <1>4, KnowsKept

(* UndisturbedInv is inductive.                                            *)
LEMMA NextUndisturbedInv == UndisturbedInv /\ [Next]_vars => UndisturbedInv'
<1> SUFFICES ASSUME UndisturbedInv, [Next]_vars PROVE UndisturbedInv'
  OBVIOUS
<1>1. ClobberInv /\ ClobberInv' /\ TypeInv /\ \A q \in Proc : PartOf(q) /\ Knows(q)
  BY NextClobberInv DEF UndisturbedInv, ClobberInv, PartOf, Knows
<1> SUFFICES ASSUME NEW q \in Proc PROVE Knows(q)'
  BY <1>1 DEF UndisturbedInv, Knows
<1>2. ASSUME NEW p \in Proc, NEW c \in Calls, Begin(p, c) PROVE Knows(q)'
  BY <1>1, <1>2, BeginKnows
<1>3. ASSUME NEW p \in Proc, Step(p) \/ Die(p) PROVE Knows(q)'
  BY <1>1, <1>3, StepKnows
<1>4. ASSUME NEW i \in Ino, NEW d \in EnvData, EnvWrite(i, d) PROVE Knows(q)'
  BY <1>1, <1>4, EnvKnows
<1>5. CASE UNCHANGED vars
  <2>1. UNCHANGED fsVars /\ Locals(q)' = Locals(q) /\ dirty' = dirty
    BY <1>5 DEF vars, callVars, history, Locals
  <2> QED BY <1>1, <2>1, SameViewIfUnchanged, KindsIfUnchanged, KnowsKept
<1> QED BY <1>2, <1>3, <1>4, <1>5 DEF Next

(* In every reachable state a call that nobody has disturbed knows the     *)
(* files behind its descriptors, has copied exactly what its offset says,  *)
(* and answers what is so.                                                 *)
THEOREM UndisturbedInvariant == Spec => []UndisturbedInv
BY InitUndisturbedInv, NextUndisturbedInv, PTL DEF Spec

(* A copy that returns true has made dest hold what source holds, unless   *)
(* someone else changed one of the two meanwhile: in either build, with    *)
(* short writes, errors, and any number of processes.                      *)
THEOREM CopiesFaithful == Spec => []CopyFaithful
BY UndisturbedInvariant, SeenImplies, PTL

(* What touch, remove, rename, create_symlink and read_symlink answer is   *)
(* true of a directory nobody else changed meanwhile.                      *)
THEOREM AnswersAlwaysHold == Spec => []AnswersHold
BY UndisturbedInvariant, SeenImplies, PTL

(* A touch of the C build that nobody interferes with takes nothing away   *)
(* from a file: it comes to the output stream only with a path that has no *)
(* file the stream could empty.                                            *)
THEOREM UndisturbedTouchKeeps == Spec => UndisturbedTouchKeepsData
<1>1. ASSUME UndisturbedInv, Next, NEW p \in Proc, Moves(p, "touch"), BuiltC(p), ~ dirty[p],
             NEW i \in Ino
      PROVE  inode[i].kind = "reg" => inode'[i].data = inode[i].data
  <2>1. LocalsOK /\ FsInv /\ TypeInv /\ PartOf(p) /\ Seen(p) /\ OpOf(p)
    BY <1>1 DEF UndisturbedInv, ClobberInv, TypeInv, PartOf
  <2>2. Step(p) \/ Die(p)
    <3>1. ASSUME NEW q \in Proc, NEW c \in Calls, Begin(q, c) PROVE FALSE
      <4>1. q # p
        BY <1>1, <3>1 DEF Begin, Moves, Busy, Labels
      <4> QED BY <1>1, <2>1, <3>1, <4>1 DEF Begin, Moves, LocalsOK
    <3>2. ASSUME NEW q \in Proc \ {p}, Step(q) \/ Die(q) PROVE FALSE
      BY <1>1, <2>1, <3>2, StepFrame DEF Frame, Moves
    <3>3. ASSUME NEW j \in Ino, NEW d \in EnvData, EnvWrite(j, d) PROVE FALSE
      BY <1>1, <3>3 DEF EnvWrite, callVars, Moves
    <3> QED BY <1>1, <3>1, <3>2, <3>3 DEF Next
  <2>3. SetModtime(p) \/ TouchOfstream(p) \/ Crash(p)
    <3>1. pc[p] \notin OverwriteLabels \cup CopyLabels
             \cup {"unlink", "rename", "symlink", "is_symlink", "readlink"}
      BY <1>1, <2>1 DEF Moves, PartOf, LabelOf, OpOf
    <3> QED BY <2>2, <3>1
        DEF Step, Die, CopyIsFile, CopyRemoveDest, CopyStdStat, CopyOpenSource, CopyFstat,
            CopyOpenDest, CopyFchmod, CopyChunk, CopyLoopEnds, CopyClose, Remove, Rename,
            CreateSymlink, ReadIsSymlink, ReadLink, OverwriteLabels, CopyLabels, Reading
  <2>4. CASE UNCHANGED fsVars
    BY <2>4 DEF fsVars
  <2>5. CASE TouchOfstream(p) /\ OpenTruncates(Src(p), FALSE)
    <3>1. ~ MaySetTime(p)
      BY <1>1, <2>1, <2>5 DEF TouchOfstream, Seen, OtherSeen
    <3> QED BY <1>1, <2>5, <3>1 DEF OpenTruncates, IsKind, Writable, MaySetTime
  <2>6. CASE TouchOfstream(p) /\ Bind(End(Src(p)), NewFile)
    <3>1. inode[i].kind = "reg" => i # nextIno
      BY <2>1, Numbers DEF FsInv, Unused
    <3>2. i # nextIno => inode'[i] = inode[i]
      BY <2>1, <2>6 DEF Bind, FsInv, FsTypeOK
    <3> QED BY <3>1, <3>2
  <2> QED BY <2>3, <2>4, <2>5, <2>6 DEF SetModtime, TouchOfstream, Crash
<1>2. UndisturbedInv /\ [Next]_vars =>
        [\A p \in Proc : Moves(p, "touch") /\ BuiltC(p) /\ ~ dirty[p] =>
           \A i \in Ino : inode[i].kind = "reg" => inode'[i].data = inode[i].data]_vars
  BY <1>1
<1> QED BY <1>2, UndisturbedInvariant, PTL DEF Spec, UndisturbedTouchKeepsData
=============================================================================
