------------------------------ MODULE Accounts ------------------------------
(***************************************************************************)
(* Home, configuration and temporary directories, and the names of users   *)
(* and groups: env.cpp, home.cpp, tempdir.cpp, extra/owner.cpp and         *)
(* extra/shell.cpp.                                                        *)
(*                                                                         *)
(* They read two things that all threads of a process share: the           *)
(* environment, and the buffer in which getpwuid(3) and getgrgid(3) return *)
(* their records.  That buffer is read after the call that filled it, and  *)
(* another thread's call may have filled it anew by then.                  *)
(***************************************************************************)
EXTENDS Inquiries

CONSTANTS
  Id,          \* user and group numbers
  Self,        \* the effective user
  Record,      \* the databases: "pw" and "gr" -> number -> record
  NoRecord,    \* what they have for a number they do not know
  Holder,      \* "pw" and "gr" -> object -> the number of its user or group
  Tmp,         \* the path "/tmp"
  Unset,       \* a variable that is not in the environment
  Empty,       \* the empty string
  Torn         \* a buffer that is being filled, and what is read from it

Db  == {"pw", "gr"}
Var == {"HOME", "XDG_CONFIG_HOME", "TMPDIR", "TMP"}

(* A directory as it is written: with a slash at its end or without, and   *)
(* perhaps the directory ".config" in it.                                  *)
Text  == [dir : Path, slash : BOOLEAN, config : BOOLEAN]
Value == Text \cup {Unset, Empty}

ASSUME SelfAssumption   == Self \in Id /\ Torn \notin Id
ASSUME HolderAssumption == Holder \in [Db -> [Obj -> Id]]
ASSUME TmpAssumption    == Tmp \in Path
ASSUME NothingAssumption == Unset \notin Text /\ Empty \notin Text

VARIABLES
  environ,     \* the environment of the process
  buffer,      \* the number whose record each static buffer holds
  text         \* the text the call has returned, or read so far

accountVars == <<environ, buffer>>

fs_getenv(v)     == IF environ[v] = Unset THEN Empty ELSE environ[v]
fs_drop_slash(t) == [t EXCEPT !.slash = FALSE]
Written(n)       == [dir |-> n, slash |-> FALSE, config |-> FALSE]

(* fs_setenv; a name that is empty or has a "=" in it is refused.          *)
fs_setenv(v, x) ==
  /\ environ' = IF v \in Var THEN [environ EXCEPT ![v] = x] ELSE environ
  /\ UNCHANGED buffer

Keeps == UNCHANGED <<accountVars, met, answer>>
Says(t) == text' = t /\ Goes("done") /\ Keeps
Onward(step) == Goes(step) /\ Keeps /\ UNCHANGED text

Setenv ==
  /\ Asks("setenv")
  /\ fs_setenv(call.var, call.value)
  /\ Answers(call.var \in Var)
  /\ UNCHANGED text

(* Faulty variant: a variable that is set to nothing counts.               *)
HasAnyway(v) == environ[v] # Unset

Has(v) == fs_getenv(v) # Empty

-----------------------------------------------------------------------------
(* What fs_user_config_dir makes of the home directory.                    *)
FromHome(t) == IF call.op = "user_config_dir" /\ t # Empty THEN [t EXCEPT !.config = TRUE] ELSE t

ReadXdgConfigHome ==
  /\ Asks("xdg")
  /\ IF Has("XDG_CONFIG_HOME") THEN Says(fs_getenv("XDG_CONFIG_HOME")) ELSE Onward("home")

(* fs_get_homedir; without $HOME it is fs_get_profile_dir.                 *)
ReadHome ==
  /\ Asks("home")
  /\ IF Has("HOME") THEN Says(FromHome(fs_drop_slash(fs_getenv("HOME")))) ELSE Onward("lookup")

(***************************************************************************)
(* fs_get_tempdir.  The cxx build is temp_directory_path of libstdc++: the *)
(* first of some variables that is set, be it empty, or "/tmp", and it has *)
(* to be a directory.  The c build takes what $TMPDIR says.                *)
(***************************************************************************)
ReadTmpdir ==
  /\ Asks("tmpdir")
  /\ \/ /\ call.build = "cxx"
        /\ text' = IF environ["TMPDIR"] # Unset THEN environ["TMPDIR"]
                   ELSE IF environ["TMP"] # Unset THEN environ["TMP"] ELSE Written(Tmp)
        /\ Goes("tmpisdir") /\ Keeps
     \/ call.build = "c" /\ Has("TMPDIR") /\ Says(fs_getenv("TMPDIR"))
     \/ /\ call.build = "c" /\ ~Has("TMPDIR")
        /\ text' = Written(Tmp)
        /\ Goes("tmpisdir") /\ Keeps

TmpIsDir ==
  /\ Asks("tmpisdir")
  /\ Says(IF text # Empty /\ fs_is_dir(call.build, text.dir) THEN text ELSE Empty)

-----------------------------------------------------------------------------
Base  == IF call.op = "get_owner_group" THEN "gr" ELSE "pw"
Field == CASE call.op \in {"get_homedir", "get_profile_dir", "user_config_dir"} -> "dir"
           [] call.op = "get_shell" -> "shell"
           [] OTHER -> "name"
Owned == call.op \in {"get_owner_name", "get_owner_group"}

(* The stat of fs_get_owner_name and fs_get_owner_group.                   *)
StatOwner ==
  /\ Asks("owner")
  /\ IF Missing(call.path) THEN Says(Empty)
     ELSE met' = entry[call.path] /\ Goes("lookup") /\ UNCHANGED <<accountVars, answer, text>>

(* Faulty variant: the owner of the file is looked up as the caller is.    *)
AlwaysSelf(db) == Self

(* geteuid(), or the number that stat has found.                           *)
Wanted(db) == IF Owned THEN Holder[db][met] ELSE Self

(* getpwuid(3) or getgrgid(3): the record goes into the static buffer.     *)
LookUp ==
  /\ Asks("lookup")
  /\ IF Record[Base][Wanted(Base)] = NoRecord THEN Says(Empty)
     ELSE /\ buffer' = [buffer EXCEPT ![Base] = Wanted(Base)]
          /\ Goes("copy") /\ UNCHANGED <<environ, met, answer, text>>

ReadFrom(db, f) ==
  IF buffer[db] = Torn THEN Torn
  ELSE IF f = "dir" THEN FromHome(fs_drop_slash(Record[db][buffer[db]].dir))
  ELSE Record[db][buffer[db]][f]

(* The answer is copied out of the buffer, whatever that holds by now.     *)
CopyField == Asks("copy") /\ Says(ReadFrom(Base, Field))

(* Another thread sets a variable, or asks either database.                *)
OtherSetenv(v, x) == fs_setenv(v, x)
OtherLooksUp(db, i) ==
  /\ i \in {j \in Id : Record[db][j] # NoRecord} \cup {Torn}
  /\ buffer' = [buffer EXCEPT ![db] = i]
  /\ UNCHANGED environ

AccountStep ==
  \/ Setenv \/ ReadXdgConfigHome \/ ReadHome \/ ReadTmpdir \/ TmpIsDir
  \/ StatOwner \/ LookUp \/ CopyField
=============================================================================
