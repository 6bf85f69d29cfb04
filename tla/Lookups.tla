------------------------------ MODULE Lookups ------------------------------
(***************************************************************************)
(* One call of an inquiry, of a function of Accounts or of fs_which, and   *)
(* what other programs and other threads do meanwhile.                     *)
(*                                                                         *)
(* ever and always are what was true at some moment of the call and what   *)
(* was true during all of it; the properties say what an answer must have  *)
(* to do with them.                                                        *)
(***************************************************************************)
EXTENDS Which, Functions

CONSTANTS
  Worlds,      \* what calls find: the files, the environment, the buffers
  Calls,       \* the calls that are made
  Searches,    \* the values that other threads give $PATH
  Settings,    \* the values that they give the other variables
  MaxEnv       \* bounds the changes by others

Ops == {"is_empty", "equivalent", "which", "setenv", "get_homedir", "get_profile_dir",
        "user_config_dir", "get_tempdir", "get_username", "get_shell", "get_owner_name",
        "get_owner_group"}
Inquired == {"is_dir", "is_file", "is_fifo", "is_char_device", "exists"}

Call == [op : Ops \cup Inquired, build : Builds, path : Path, other : Path,
         var : STRING, value : Value,
         plain : BOOLEAN, all : BOOLEAN, given : Path \cup {NoPath}, parts : Seq(Path \cup {Gap})]
Holds == {o \in Obj : Kind[o] \in {"reg", "dir"}}
World == [entry : [Path -> Obj \cup {NoObj}], full : SUBSET Holds, environ : [Var -> Value],
          buffer : [Db -> Id], pathVar : Seq(Path \cup {Gap})]

ASSUME WorldsAssumption   == Worlds \subseteq World
ASSUME NumbersAssumption  == \A w \in Worlds : \A m, n \in Path :
  {w.entry[m], w.entry[n]} \subseteq Obj /\ Number[w.entry[m]] = Number[w.entry[n]] =>
    w.entry[m] = w.entry[n]
ASSUME CallsAssumption    == Calls \subseteq Call
ASSUME SearchesAssumption == Searches \subseteq Seq(Path \cup {Gap})
ASSUME SettingsAssumption == Settings \subseteq Value
ASSUME BoundAssumption    == MaxEnv \in Nat

VARIABLES
  nEnv,        \* changes by others so far
  ever,        \* history: what was true at some moment of the call
  always,      \* history: what was true at all of them
  looked       \* history: the databases other threads have asked meanwhile

vars == <<entry, full, call, pc, met, answer, environ, buffer, text, pathVar, search, at, found,
          nEnv, ever, always, looked>>

Program(b, n) == fs_is_file(b, n) /\ fs_is_exe(b, n)

Facts(b) ==
  {<<"names", n, entry[n]>> : n \in Path}
    \cup {<<"file", n>>    : n \in {q \in Path : fs_is_file(b, q)}}
    \cup {<<"exe", n>>     : n \in {q \in Path : fs_is_exe(b, q)}}
    \cup {<<"program", n>> : n \in {q \in Path : Program(b, q)}}
    \cup {<<"dir", n>>     : n \in {q \in Path : fs_is_dir(b, q)}}
    \cup {<<"empty", o>>   : o \in Obj \ full}
    \cup {<<"var", v, environ[v]>> : v \in Var}

Busy   == pc \notin {"idle", "done"}
Done(op) == pc = "done" /\ call.op = op

-----------------------------------------------------------------------------
(* The first system call of a call.                                        *)
FirstStep(c) ==
  CASE c.op \in Inquired             -> "ask"
    [] c.op = "is_empty"             -> "status"
    [] c.op = "equivalent"           -> "stat1"
    [] c.op = "which"                -> IF c.given = NoPath THEN "nameisfile" ELSE "given"
    [] c.op = "setenv"               -> "setenv"
    [] c.op = "user_config_dir"      -> "xdg"
    [] c.op = "get_homedir"          -> "home"
    [] c.op = "get_tempdir"          -> "tmpdir"
    [] c.op \in {"get_owner_name", "get_owner_group"}                 -> "owner"
    [] c.op \in {"get_profile_dir", "get_username", "get_shell"}      -> "lookup"

Begin ==
  /\ pc = "idle" /\ pc' = FirstStep(call)
  /\ ever' = Facts(call.build) /\ always' = Facts(call.build)
  /\ UNCHANGED <<entry, full, call, met, answer, environ, buffer, text, pathVar, search, at, found,
                 nEnv, looked>>

Remember ==
  /\ ever'   = ever \cup Facts(call.build)'
  /\ always' = always \cap Facts(call.build)'

Step ==
  /\ \/ InquiryStep /\ UNCHANGED <<accountVars, text, pathVar, whichVars>>
     \/ AccountStep /\ UNCHANGED <<pathVar, whichVars>>
     \/ WhichStep
  /\ Remember
  /\ UNCHANGED <<nEnv, looked>>

(***************************************************************************)
(* The others.  Changes that the call cannot notice are left out.          *)
(***************************************************************************)
Concerned ==
  CASE call.op = "which" ->
         {call.path, InRoot} \cup ({call.given} \cap Path)
           \cup (Path \cap (Range(pathVar) \cup Range(call.parts)))
    [] call.op = "get_tempdir" -> Path
    [] call.op = "equivalent"  -> {call.path, call.other}
    [] call.op \in Inquired \cup {"is_empty", "get_owner_name", "get_owner_group"} -> {call.path}
    [] OTHER -> {}

Other ==
  /\ Busy /\ nEnv < MaxEnv
  /\ nEnv' = nEnv + 1
  /\ UNCHANGED <<call, pc, met, answer, text, whichVars>>

(* A path gets another object, or none.  An inode number is free again     *)
(* when nothing has it.                                                    *)
EnvPut(n, o) ==
  /\ n \in Concerned /\ o # entry[n]
  /\ o # NoObj => Distinct(o)
  /\ entry' = [entry EXCEPT ![n] = o]
  /\ UNCHANGED <<full, accountVars, pathVar, looked>>

(* A file is written or emptied, a directory gets its first entry or loses *)
(* its last.                                                               *)
EnvFill(o) ==
  /\ call.op \in {"is_empty", "equivalent"}
  /\ full' = IF o \in full THEN full \ {o} ELSE full \cup {o}
  /\ UNCHANGED <<entry, accountVars, pathVar, looked>>

EnvSetenv(v, x) ==
  /\ call.op \in {"get_homedir", "user_config_dir", "get_tempdir", "setenv"}
  /\ OtherSetenv(v, x) /\ UNCHANGED <<treeVars, pathVar, looked>>

EnvSetPath(parts) ==
  /\ call.op = "which" /\ call.given = NoPath
  /\ pathVar' = parts /\ UNCHANGED <<treeVars, accountVars, looked>>

EnvLooksUp(db, i) ==
  /\ call.op \notin {"which", "is_empty", "equivalent"} \cup Inquired
  /\ OtherLooksUp(db, i) /\ looked' = looked \cup {db}
  /\ UNCHANGED <<treeVars, pathVar>>

Env ==
  /\ Other
  /\ \/ \E n \in Path, o \in Obj \cup {NoObj} : EnvPut(n, o)
     \/ \E o \in Holds : EnvFill(o)
     \/ \E v \in Var, x \in Settings : EnvSetenv(v, x)
     \/ \E parts \in Searches : EnvSetPath(parts)
     \/ \E db \in Db, i \in Id \cup {Torn} : EnvLooksUp(db, i)
  /\ Remember

Init ==
  /\ \E w \in Worlds :
       /\ entry = w.entry /\ full = w.full
       /\ environ = w.environ /\ buffer = w.buffer /\ pathVar = w.pathVar
  /\ call \in Calls
  /\ pc = "idle" /\ met = NoObj /\ answer = FALSE /\ text = Empty
  /\ search = <<>> /\ at = 0 /\ found = <<>>
  /\ nEnv = 0 /\ ever = {} /\ always = {} /\ looked = {}

Next == Begin \/ Step \/ Env
Spec == Init /\ [][Next]_vars

-----------------------------------------------------------------------------
Steps == {"idle", "done", "ask", "status", "size", "isfile", "opendir", "readdir", "stat1", "stat2",
          "setenv", "xdg", "home", "tmpdir", "tmpisdir", "owner", "lookup", "copy",
          "given", "nameisfile", "nameisexe", "part", "partisexe"}

(* The types of the variables, and where in its search path a call of      *)
(* fs_which may be.                                                        *)
TypeOK ==
  /\ entry \in [Path -> Obj \cup {NoObj}] /\ full \subseteq Holds
  /\ environ \in [Var -> Value]
  /\ buffer \in [Db -> Id \cup {Torn}]
  /\ pathVar \in Seq(Path \cup {Gap}) /\ search \in Seq(Path \cup {Gap})
  /\ call \in Calls /\ pc \in Steps
  /\ met \in Obj \cup {NoObj} /\ answer \in BOOLEAN
  /\ pc \in {"part", "partisexe"} => at \in DOMAIN search
  /\ found \in Seq(0..Len(search))
  /\ nEnv \in 0..MaxEnv /\ looked \subseteq Db

Names(n, o)  == <<"names", n, o>>
Kept(n, o)   == Names(n, o) \in always
Was(v, x)    == <<"var", v, x>> \in ever

(***************************************************************************)
(* fs_is_empty says that something is empty only if something was at the   *)
(* path and was empty during the call, and never denies it of what was     *)
(* there and empty all the time.  Two exceptions, both in the c build      *)
(* (size.cpp:70, size.cpp:115): it takes a file that is not there for one  *)
(* of size zero, so that what comes to the path in the middle of the call  *)
(* may be called empty; and it needs d_type to know "." for a directory.   *)
(***************************************************************************)
EmptyHeld ==
  Done("is_empty") =>
    /\ answer => \/ \E o \in Obj : Names(call.path, o) \in ever /\ <<"empty", o>> \in ever
                 \/ call.build = "c" /\ \A o \in Obj : ~Kept(call.path, o)
    /\ ~answer => \A o \in Obj :
         Kept(call.path, o) /\ <<"empty", o>> \in always =>
           \/ Kind[o] \notin {"reg", "dir"}
           \/ call.build = "c" /\ o \notin Typed

(* fs_equivalent stats one path after the other: about two paths that kept *)
(* what was at them all the time it is right, although inode numbers are   *)
(* given anew (equivalent.cpp:59).                                         *)
SameHeld ==
  Done("equivalent") => \A o1, o2 \in Obj :
    Kept(call.path, o1) /\ Kept(call.other, o2) => (answer <=> o1 = o2)

(* At each path at most one inquiry about the kind of what is there says   *)
(* yes, and the builds agree, except about sockets (inquire.cpp:126).      *)
KindsHold ==
  \A n \in Path :
    LET yes(b) == <<fs_is_dir(b, n), fs_is_file(b, n), fs_is_fifo(b, n), fs_is_char_device(b, n)>>
    IN /\ KindAt(n) # "sock" => yes("cxx") = yes("c")
       /\ \A b \in Builds : Cardinality({i \in 1..4 : yes(b)[i]}) <= 1

InquiriesHold == EmptyHeld /\ SameHeld /\ KindsHold

(***************************************************************************)
(* fs_which passes over no program: a path that was an executable file     *)
(* during all of the call is in the list of all programs, and the first    *)
(* one found is not behind it, whatever others do to the directories       *)
(* before and after it.                                                    *)
(***************************************************************************)
Here(k) == search[k] # Gap /\ <<"program", search[k]>> \in always
NothingPassedOver ==
  (Done("which") /\ search # <<>> /\ found # <<0>>) => \A k \in DOMAIN search :
    Here(k) => \E i \in DOMAIN found : found[i] <= k /\ (call.all => found[i] = k)

(* What fs_which finds was a file and was executable during the call, and  *)
(* is reported in the order of the search path.                            *)
Place(k) == IF k = 0 THEN call.path ELSE In(search[k])
FoundHeld ==
  \A i \in DOMAIN found :
    /\ {<<"file", Place(found[i])>>, <<"exe", Place(found[i])>>} \subseteq ever
    /\ \A j \in DOMAIN found : i < j => found[i] < found[j]

SearchHolds == NothingPassedOver /\ FoundHeld

(***************************************************************************)
(* What a directory or a name is taken from was so at some moment of the   *)
(* call; and what was there all the time is what the answer says.          *)
(***************************************************************************)
Nowhere(v)    == \E x \in {Unset, Empty} : Was(v, x)
FromVar(v, t) == t \notin {Unset, Empty} /\ Was(v, t)
FromHomeVar(t) == \E x \in Text : Was("HOME", x) /\ t = FromHome([x EXCEPT !.slash = FALSE])
Stated(db, i, f) ==
  IF Record[db][i] = NoRecord THEN Empty
  ELSE IF f = "dir" THEN FromHome([Record[db][i].dir EXCEPT !.slash = FALSE])
  ELSE Record[db][i][f]

(* $HOME, with no slash at its end, comes before the user database, and is *)
(* out of reach of what other threads do to that; $XDG_CONFIG_HOME comes   *)
(* before $HOME.                                                           *)
HomesHold ==
  \A op \in {"get_homedir", "user_config_dir"} : Done(op) =>
    \/ op = "user_config_dir" /\ FromVar("XDG_CONFIG_HOME", text)
    \/ /\ op = "user_config_dir" => Nowhere("XDG_CONFIG_HOME")
       /\ \/ FromHomeVar(text)
          \/ Nowhere("HOME") /\ ("pw" \in looked \/ text = Stated("pw", Self, "dir"))

(* The cxx build answers with a directory only; the c build answers with   *)
(* $TMPDIR whatever it names.  It answers with nothing only if there was   *)
(* no directory at the place to take, be it for a moment.                  *)
IsDirEver(t)   == <<"dir", t.dir>> \in ever
IsDirAlways(t) == <<"dir", t.dir>> \in always
TempdirHolds ==
  Done("get_tempdir") =>
    /\ text # Empty =>
         \/ FromVar("TMPDIR", text) /\ (call.build = "cxx" => IsDirEver(text))
         \/ call.build = "cxx" /\ Nowhere("TMPDIR") /\ FromVar("TMP", text) /\ IsDirEver(text)
         \/ Nowhere("TMPDIR") /\ text = Written(Tmp) /\ IsDirEver(text)
    /\ text = Empty =>
         \/ ~IsDirAlways(Written(Tmp))
         \/ \E v \in {"TMPDIR", "TMP"} :
              \/ call.build = "cxx" /\ Was(v, Empty)
              \/ call.build = "cxx" /\ \E x \in Text : Was(v, x) /\ ~IsDirAlways(x)

(* The names are those of the caller, or of who owned what was at the path *)
(* - as long as no other thread asks the same database meanwhile           *)
(* (home.cpp:28, owner.cpp:82, owner.cpp:123).                             *)
NamesHold ==
  \A op \in {"get_username", "get_shell", "get_profile_dir"} :
    Done(op) /\ Base \notin looked => text = Stated("pw", Self, Field)

OwnersHold ==
  \A op \in {"get_owner_name", "get_owner_group"} :
    Done(op) /\ Base \notin looked =>
      \/ text = Empty /\ Names(call.path, NoObj) \in ever
      \/ \E o \in Obj : /\ Names(call.path, o) \in ever
                        /\ text = Stated(Base, Holder[Base][o], "name")

AccountsHold == HomesHold /\ TempdirHolds /\ NamesHold /\ OwnersHold
=============================================================================
