---------------------------- MODULE Permissions ----------------------------
(***************************************************************************)
(* fs_set_permissions, run by several processes on files whose modes and   *)
(* names other programs change meanwhile, and what the inquiries about     *)
(* permissions answer in each state.                                       *)
(*                                                                         *)
(* Setting a permission is a read of the mode and a write of the changed   *)
(* mode.  The "c" build does that once for all three permissions, the      *)
(* "cxx" build (std::filesystem) asks whether the path exists and then     *)
(* does it once for each permission it was asked to change.  One action is *)
(* the code up to and including its next system call.                      *)
(***************************************************************************)
EXTENDS Integers

CONSTANTS
  Proc,        \* processes calling the library
  Name,        \* paths
  File,        \* the files they may name
  NoFile,      \* what a path names that names nothing
  Kind,        \* file -> its kind
  Class,       \* file -> what the calling user is to it
  Starts,      \* the names and modes the processes may find
  Calls,       \* the calls they may make
  MaxCalls,    \* bounds the number of calls made in all
  EnvBits,     \* the bits of a mode that other programs change
  MaxEnv,      \* bounds the number of changes they make
  MayFail      \* TRUE: chmod may report an error that has no cause here

Who  == {"user", "group", "others"}
Perm == {"r", "w", "x"}
Bit  == Who \X Perm
Mode == SUBSET Bit

(* What readable, writable and executable ask for: add, remove, or keep.   *)
Wish == [Perm -> {-1, 0, 1}]
Call == [path : Name, want : Wish, build : {"cxx", "c"}]

Start == [entry : [Name -> File \cup {NoFile}], mode : [File -> Mode]]

ASSUME FileAssumption   == NoFile \notin File
ASSUME KindAssumption   == Kind \in [File -> {"reg", "dir", "sock", "fifo", "chr"}]
ASSUME ClassAssumption  == Class \in [File -> {"owner", "group", "others", "root"}]
ASSUME StartsAssumption == Starts \subseteq Start
ASSUME CallsAssumption  == Calls \subseteq Call /\ Calls # {}
ASSUME EnvAssumption    == EnvBits \subseteq Bit
ASSUME BoundsAssumption == MaxCalls \in Nat /\ MaxEnv \in Nat
ASSUME SwitchAssumption == MayFail \in BOOLEAN

VARIABLES
  entry,       \* what each path names
  mode,        \* the permission bits of each file
  call,        \* the call each process is in, or made last
  pc,          \* the system call it makes next
  m,           \* the mode it read
  todo,        \* cxx: the permissions it still has to change
  ok,          \* what it returned
  nCalls,      \* calls made so far
  nEnv,        \* changes by other programs so far
  start,       \* history: the mode of the file when the call began
  disturbed,   \* history: did anyone else change a mode or a name since?
  won,         \* history: the calls that returned true
  lost         \* history: the calls that returned false

vars == <<entry, mode, call, pc, m, todo, ok, nCalls, nEnv, start, disturbed, won, lost>>

TypeOK ==
  /\ entry \in [Name -> File \cup {NoFile}]
  /\ mode \in [File -> Mode]
  /\ call \in [Proc -> Call]
  /\ pc \in [Proc -> {"idle", "exists", "stat", "chmod", "done"}]
  /\ m \in [Proc -> Mode]
  /\ todo \in [Proc -> SUBSET Perm]
  /\ ok \in [Proc -> BOOLEAN]
  /\ nCalls \in 0..MaxCalls
  /\ nEnv \in 0..MaxEnv
  /\ start \in [Proc -> Mode]
  /\ disturbed \in [Proc -> BOOLEAN]
  /\ won \subseteq Call
  /\ lost \subseteq Call

Busy(p)     == pc[p] \in {"exists", "stat", "chmod"}
Target(p)   == entry[call[p].path]
BuiltC(p)   == call[p].build = "c"
Want(p)     == call[p].want
User(w)     == <<"user", w>>
UserBits    == {User(w) : w \in Perm}
ModeOf(f)   == IF f = NoFile THEN {} ELSE mode[f]

(***************************************************************************)
(* A definition marked "faulty variant" is no part of the specification:   *)
(* it is what the definition after it would be with a plausible bug, and   *)
(* PROJECT.json says which property it breaks.                             *)
(***************************************************************************)
(* Faulty variants: S_ISUID for S_IXUSR; group and others get what the     *)
(* user gets.                                                              *)
ChangeSetsId(old, want, ws) ==
  old \cup {<<"user", IF w = "x" THEN "s" ELSE w>> : w \in {v \in ws : want[v] = 1}}
ChangeForAll(old, want, ws) ==
  (old \cup {<<who, w>> : who \in Who, w \in {v \in ws : want[v] = 1}})
    \ {<<who, w>> : who \in Who, w \in {v \in ws : want[v] = -1}}

(* The mode old with the wishes about ws carried out for the user.         *)
Change(old, want, ws) ==
  (old \cup {User(w) : w \in {v \in ws : want[v] = 1}})
    \ {User(w) : w \in {v \in ws : want[v] = -1}}

(* Faulty variant: the cxx build never takes a permission away.            *)
AskedToAdd(want) == {w \in Perm : want[w] = 1}

(* The permissions a call is to change.                                    *)
Asked(want) == {w \in Perm : want[w] # 0}

(* The order in which the cxx build changes permissions.                   *)
First(ws) == IF "r" \in ws THEN {"r"} ELSE IF "w" \in ws THEN {"w"} ELSE ws

Disturb(p) ==
  disturbed' = IF entry' = entry /\ mode' = mode THEN disturbed
               ELSE [q \in Proc |-> disturbed[q] \/ q # p]

Return(p, b) ==
  /\ pc' = [pc EXCEPT ![p] = "done"]
  /\ ok' = [ok EXCEPT ![p] = b]
  /\ won' = IF b THEN won \cup {call[p]} ELSE won
  /\ lost' = IF b THEN lost ELSE lost \cup {call[p]}
  /\ m' = [m EXCEPT ![p] = {}]
  /\ todo' = [todo EXCEPT ![p] = {}]

Goto(p, label, read, ws) ==
  /\ pc' = [pc EXCEPT ![p] = label]
  /\ m' = [m EXCEPT ![p] = read]
  /\ todo' = [todo EXCEPT ![p] = ws]
  /\ UNCHANGED <<ok, won, lost>>

Begin(p, c) ==
  /\ pc[p] \in {"idle", "done"}
  /\ nCalls < MaxCalls
  /\ nCalls' = nCalls + 1
  /\ call' = [call EXCEPT ![p] = c]
  /\ IF c.build = "c" THEN Goto(p, "stat", {}, Perm)
     ELSE Goto(p, "exists", {}, Asked(c.want))
  /\ start' = [start EXCEPT ![p] = ModeOf(entry[c.path])]
  /\ disturbed' = [disturbed EXCEPT ![p] = FALSE]
  /\ UNCHANGED <<entry, mode, nEnv>>
-----------------------------------------------------------------------------
(* cxx: a path that does not exist is an error even if nothing is asked.   *)
CxxExists(p) ==
  /\ pc[p] = "exists"
  /\ IF Target(p) # NoFile /\ todo[p] # {} THEN Goto(p, "stat", {}, todo[p])
     ELSE Return(p, Target(p) # NoFile)
  /\ UNCHANGED <<entry, mode, call, nCalls, nEnv, start, disturbed>>

(* std::filesystem::permissions reads the mode, and reports an error.      *)
CxxStat(p) ==
  /\ pc[p] = "stat" /\ ~ BuiltC(p)
  /\ IF Target(p) # NoFile THEN Goto(p, "chmod", ModeOf(Target(p)), todo[p])
     ELSE Return(p, FALSE)
  /\ UNCHANGED <<entry, mode, call, nCalls, nEnv, start, disturbed>>

(* fs_st_mode returns 0 if stat fails, and the C build goes on with it.    *)
CStat(p) ==
  /\ pc[p] = "stat" /\ BuiltC(p)
  /\ Goto(p, "chmod", ModeOf(Target(p)), todo[p])
  /\ UNCHANGED <<entry, mode, call, nCalls, nEnv, start, disturbed>>

(* chmod(2): only for those the file belongs to.                           *)
Chmodable(f) == f # NoFile /\ Class[f] \in {"owner", "root"}

(* Faulty variant: the C build, too, goes one permission at a time.        *)
NowOne(p) == First(todo[p])

(* The permissions written by the next chmod: all of them, or one.         *)
Now(p) == IF BuiltC(p) THEN todo[p] ELSE First(todo[p])

ChmodDone(p) ==
  /\ pc[p] = "chmod"
  /\ Chmodable(Target(p))
  /\ mode' = [mode EXCEPT ![Target(p)] = Change(m[p], Want(p), Now(p))]
  /\ IF todo[p] = Now(p) THEN Return(p, TRUE)
     ELSE Goto(p, "stat", {}, todo[p] \ Now(p))
  /\ UNCHANGED <<entry, call, nCalls, nEnv, start>>
  /\ Disturb(p)

(* The C build returns false, the cxx build leaves the rest undone.        *)
ChmodFails(p) ==
  /\ pc[p] = "chmod"
  /\ ~ Chmodable(Target(p)) \/ MayFail
  /\ Return(p, FALSE)
  /\ UNCHANGED <<entry, mode, call, nCalls, nEnv, start, disturbed>>
-----------------------------------------------------------------------------
(* Another program changes a mode, or creates, replaces or removes a name. *)
EnvStep ==
  /\ nEnv < MaxEnv
  /\ nEnv' = nEnv + 1
  /\ disturbed' = [q \in Proc |-> TRUE]
  /\ UNCHANGED <<call, pc, m, todo, ok, nCalls, start, won, lost>>

EnvChmod(f, b) ==
  /\ mode' = [mode EXCEPT ![f] = IF b \in @ THEN @ \ {b} ELSE @ \cup {b}]
  /\ UNCHANGED entry
  /\ EnvStep

EnvRename(n, f) ==
  /\ entry' = [entry EXCEPT ![n] = f]
  /\ UNCHANGED mode
  /\ EnvStep

Init ==
  /\ \E s \in Starts : entry = s.entry /\ mode = s.mode
  /\ call = [p \in Proc |-> CHOOSE c \in Calls : TRUE]
  /\ pc = [p \in Proc |-> "idle"]
  /\ m = [p \in Proc |-> {}]
  /\ todo = [p \in Proc |-> {}]
  /\ ok = [p \in Proc |-> FALSE]
  /\ nCalls = 0 /\ nEnv = 0
  /\ start = [p \in Proc |-> {}]
  /\ disturbed = [p \in Proc |-> FALSE]
  /\ won = {} /\ lost = {}

Step(p) ==
  \/ CxxExists(p)
  \/ CxxStat(p)
  \/ CStat(p)
  \/ ChmodDone(p)
  \/ ChmodFails(p)

Next ==
  \/ \E p \in Proc : Step(p)
  \/ \E p \in Proc, c \in Calls : Begin(p, c)
  \/ \E f \in File, b \in EnvBits : EnvChmod(f, b)
  \/ \E n \in Name, f \in File \cup {NoFile} : EnvRename(n, f)

Spec == Init /\ [][Next]_vars
-----------------------------------------------------------------------------
(***************************************************************************)
(* The inquiries of inquire.cpp and fs_get_permissions: one system call    *)
(* each, so that an answer is a function of the state.                     *)
(***************************************************************************)
Exists(n) == entry[n] # NoFile

(* access(2): which of the three classes of bits count for the user.       *)
UserMay(f, w) ==
  CASE Class[f] = "root"   -> w # "x" \/ Kind[f] = "dir"
                              \/ \E who \in Who : <<who, w>> \in mode[f]
    [] Class[f] = "owner"  -> <<"user", w>> \in mode[f]
    [] Class[f] = "group"  -> <<"group", w>> \in mode[f]
    [] Class[f] = "others" -> <<"others", w>> \in mode[f]

(* fs_is_readable, fs_is_writable and fs_is_exe of the cxx build: any of   *)
(* the three bits will do.                                                 *)
CxxMay(n, w) == Exists(n) /\ \E who \in Who : <<who, w>> \in mode[entry[n]]

(* Faulty variant: the C build does the same.                              *)
CMayByBits(n, w) == CxxMay(n, w)

(* The C build asks access(2).                                             *)
CMay(n, w) == Exists(n) /\ UserMay(entry[n], w)

(* fs_get_permissions: the nine letters, or "" for what is not there.      *)
GetPermissions(n) == [given |-> Exists(n), letters |-> ModeOf(entry[n])]
-----------------------------------------------------------------------------
(* What a call may have done when it returns false: nothing or, in the cxx *)
(* build, the first of its changes.                                        *)
Partly(p) == IF BuiltC(p) THEN {{}} ELSE {{}, {"r"}, {"r", "w"}}

(***************************************************************************)
(* A call that nobody disturbed has changed the mode exactly as it was     *)
(* asked if it returns true, and then its path names something; if it      *)
(* returns false it has changed nothing (c), or the leading permissions    *)
(* only (cxx).  (permissions.cpp:26-95)                                    *)
(***************************************************************************)
AsAsked ==
  \A p \in Proc : (pc[p] = "done" /\ ~ disturbed[p]) =>
    IF ok[p] THEN Exists(call[p].path)
                  /\ mode[Target(p)] = Change(start[p], Want(p), Perm)
    ELSE \E ws \in Partly(p) : ModeOf(Target(p)) = Change(start[p], Want(p), ws)

(***************************************************************************)
(* What an owner's undisturbed call has set is what the inquiries of both  *)
(* builds and fs_get_permissions then answer; what it took away is denied  *)
(* by access(2), that is, by those of the C build.                         *)
(***************************************************************************)
SeenAsSet ==
  \A p \in Proc : (pc[p] = "done" /\ ok[p] /\ ~ disturbed[p]
                   /\ Class[Target(p)] = "owner") =>
    \A w \in Asked(Want(p)) : LET n == call[p].path IN
      /\ Want(p)[w] = 1 => CxxMay(n, w)
      /\ (Want(p)[w] = 1) <=> CMay(n, w)
      /\ (Want(p)[w] = 1) <=> User(w) \in GetPermissions(n).letters

(***************************************************************************)
(* Whatever calls race each other, none of them changes a permission of    *)
(* the group or of others: "only sets permission for user"                 *)
(* (permissions.cpp:61).  Only as long as no other program steps in: the   *)
(* mode a call writes back may be the mode of a file that the path no      *)
(* longer names or, in the c build, 0 because there was none.              *)
(***************************************************************************)
OnlyUserBits ==
  [][nEnv' = 0 => \A f \in File : mode'[f] \ UserBits = mode[f] \ UserBits]_vars

(* The calls begun so far, and those that found f.                         *)
Begun    == won \cup lost \cup {call[p] : p \in {q \in Proc : Busy(q)}}
WonOn(f) == {c \in won : entry[c.path] = f}
HasWish(f, w, v) == IF v = 1 THEN User(w) \in mode[f] ELSE User(w) \notin mode[f]

(***************************************************************************)
(* Racing calls may undo each other, even where they agree: in the cxx     *)
(* build, which writes one wish after the other, the mode that a call      *)
(* writes last may be older than what another has set meanwhile            *)
(* (permissions.cpp:44).  But a permission on which all calls agree stays  *)
(* as they want it from the first call that returned true, if those of the *)
(* cxx build write it first; the C build writes all of its wishes at once. *)
(***************************************************************************)
WritesFirst(c, w) == c.build = "c" \/ First(Asked(c.want)) = {w}

AgreedStays ==
  nEnv = 0 => \A w \in Perm, v \in {-1, 1} :
    (\A c \in Begun : WritesFirst(c, w) /\ c.want[w] = v) =>
      \A f \in File : WonOn(f) # {} => HasWish(f, w, v)
=============================================================================
