---------------------------- MODULE Resolutions ----------------------------
(***************************************************************************)
(* One call of a function of Resolve or of the case probe, among threads   *)
(* that change the working directory of the process and programs that      *)
(* change the tree; and what its answer must have to do with the moments   *)
(* of the call.                                                            *)
(***************************************************************************)
EXTENDS CaseProbe

CONSTANTS
  Trees,       \* what calls find: child, disk and cwd
  Calls,       \* the calls that are made
  Stays,       \* where other threads take the working directory
  Changes,     \* what other programs do: <<directory, name, what is put there>>
  MaxEnv       \* bounds the changes by others

Ops  == {"get_cwd", "set_cwd", "realpath", "canonical", "resolve", "relative_to", "proximate_to",
         "is_case_sensitive"}
Call == [op : Ops, build : {"cxx", "c"}, strict : BOOLEAN, path : Path \cup {Nothing}, base : Path]
Tree == [child : [Dir -> [Name -> Node \cup {None}]], disk : {"sensitive", "folds", "tells"},
         cwd : Dir]

(* Every directory is found where it is said to be, and nowhere else.      *)
InPlace(c) ==
  \A d \in Dir, n \in Name :
    c[d][n] \in Dir => c[d][n] # Root /\ Up[c[d][n]] = d /\ NameOf[c[d][n]] = n

ASSUME TreesAssumption   == Trees \subseteq Tree /\ \A t \in Trees : InPlace(t.child)
ASSUME CallsAssumption   == \A c \in Calls :
                              /\ c \in Call
                              /\ c.op \in {"relative_to", "proximate_to"} =>
                                   c.path # Nothing /\ ~c.strict
ASSUME NewNameAssumption ==
  /\ \A t \in Trees, d \in Dir : t.child[d][Camel] = None
  /\ \A c \in Calls : c.op = "is_case_sensitive" /\ c.path # Nothing =>
                        c.path.names \in Seq(Others \cup {DotDot})
ASSUME EnvAssumption     == Stays \subseteq Dir /\ MaxEnv \in Nat
ASSUME ChangesAssumption == Changes \subseteq Dir \X (Name \ {Camel}) \X (Node \cup {None})

VARIABLES
  nEnv,        \* changes by others so far
  cwds,        \* history: the working directories during the call
  still        \* history: no other program has changed the tree

vars == <<child, disk, cwd, callVars, nEnv, cwds, still>>

Busy == pc \notin {"idle", "done"}
Done(ops) == pc = "done" /\ call.op \in ops

-----------------------------------------------------------------------------
Step ==
  /\ \/ ResolveStep
     \/ ProbeStep
  /\ cwds' = cwds \cup {cwd, cwd'}
  /\ UNCHANGED <<nEnv, still>>

(* Another thread calls fs_set_cwd.                                        *)
EnvChdir ==
  /\ \E d \in Stays \ {cwd} : Linked(d) /\ cwd' = d /\ cwds' = cwds \cup {d}
  /\ UNCHANGED <<treeVars, still>>

(* A link comes or goes, a file is renamed or replaced; a directory is     *)
(* removed when it is empty.                                               *)
IsEmpty(d) == \A n \in Name : child[d][n] = None
EnvPut ==
  /\ \E c \in Changes :
       /\ child[c[1]][c[2]] # c[3] /\ Linked(c[1])
       /\ child[c[1]][c[2]] \in Dir => IsEmpty(child[c[1]][c[2]])
       /\ Puts(c[1], c[2], c[3])
  /\ still' = FALSE /\ UNCHANGED <<cwd, cwds>>

Env ==
  /\ Busy /\ nEnv < MaxEnv /\ nEnv' = nEnv + 1
  /\ EnvChdir \/ EnvPut
  /\ UNCHANGED callVars

Init ==
  /\ \E t \in Trees : child = t.child /\ disk = t.disk /\ cwd = t.cwd
  /\ call \in Calls /\ pc = "idle"
  /\ arg = Nothing /\ known = 0
  /\ dest = <<>> /\ todo = <<>> /\ links = 0
  /\ first = Nothing /\ answer = Nothing /\ yes = FALSE
  /\ nEnv = 0 /\ cwds = {} /\ still = TRUE

Next == Step \/ Env
Spec == Init /\ [][Next]_vars

-----------------------------------------------------------------------------
Steps == {"idle", "done", "getcwd", "chdir", "status", "scan", "realcwd", "real", "touch", "remove"}

(* The types of the variables; realpath follows at most MaxLinks links and *)
(* keeps neither ".." nor anything that is not a name.                     *)
TypeOK ==
  /\ child \in [Dir -> [Name -> Node \cup {None}]] /\ disk \in {"sensitive", "folds", "tells"}
  /\ cwd \in Dir /\ cwds \subseteq Dir
  /\ call \in Calls /\ pc \in Steps
  /\ arg \in Path \cup {Nothing} /\ known \in Nat
  /\ arg \in Path => known <= Len(arg.names)
  /\ dest \in Seq(Name) /\ todo \in Seq(Name \cup {DotDot}) /\ links \in 0..MaxLinks
  /\ first \in Path \cup {Nothing} /\ answer \in Path \cup {Nothing}
  /\ yes \in BOOLEAN /\ nEnv \in 0..MaxEnv /\ still \in BOOLEAN

(***************************************************************************)
(* The answers of a call that does all of its work at one moment, in which *)
(* the working directory is d.                                             *)
(***************************************************************************)
Places(x) ==
  IF x \in Dir THEN {PathOf(x)}
  ELSE {Append(PathOf(e[1]), e[2]) : e \in
          {s \in Dir \X Name : Linked(s[1]) /\ child[s[1]][s[2]] = x /\ Entry(s[1], s[2]) = x}}

(* Where the file system folds case and does not tell how names are        *)
(* spelled, the caller's letters stay (resolve.cpp:41, resolve.cpp:53),    *)
(* although API.md:283 says of canonical: "For case-insensitive            *)
(* filesystems, the path's actual case is returned."                       *)
Spellings(names) ==
  IF disk # "folds" THEN {names}
  ELSE {s \in [DOMAIN names -> Name] : \A i \in DOMAIN names : Alike(s[i], names[i])}

Exactly(d, p) ==
  IF Leads(d, p) /\ (p.abs \/ Linked(d))
    THEN {Absolute(s) : s \in UNION {Spellings(names) : names \in Places(Where(d, p))}}
    ELSE {Nothing}

(* The part of p that is there, resolved, and the rest after it.           *)
Weakly(d, p) ==
  LET k == CHOOSE i \in 0..Len(p.names) :
             /\ \A j \in 0..i : Leads(d, Upto(p, j))
             /\ i < Len(p.names) => ~Leads(d, Upto(p, i + 1))
  IN  IF Leads(d, p) \/ (\E i \in 0..Len(p.names) : Where(d, Upto(p, i)) = Loop)
        THEN Exactly(d, p)
      ELSE IF k = 0 /\ ~p.abs THEN {Normal(p)}
      ELSE {IF q = Nothing THEN q ELSE Normal(Absolute(q.names \o After(p, k))) :
              q \in Exactly(d, Upto(p, k))}

OrNormal(d, p) == IF Exactly(d, p) = {Nothing} THEN {Normal(p)} ELSE Exactly(d, p)

AtOnce(d, p) ==
  IF Strict THEN Exactly(d, p) ELSE IF InC THEN OrNormal(d, p) ELSE Weakly(d, p)

BothWeakly(d) ==
  UNION {IF q = Nothing THEN {Nothing}
         ELSE {IF c = Nothing THEN Nothing ELSE Related(q, c) : c \in Weakly(d, call.base)} :
           q \in Weakly(d, call.path)}

Expected(d) ==
  LET p == IF call.op = "realpath" THEN call.path ELSE Expanduser(call.path) IN
  CASE call.op = "get_cwd" -> IF Linked(d) THEN {Absolute(PathOf(d))} ELSE {Nothing}
    [] call.op = "resolve" /\ (p = Nothing \/ ~p.abs) ->
         IF Linked(d) THEN AtOnce(d, Rebased(d)) ELSE {Nothing}
    [] call.op \in {"realpath", "canonical"} /\ p = Nothing -> {Nothing}
    [] Relative -> IF InC THEN {Nothing} ELSE BothWeakly(d)
    [] OTHER -> AtOnce(d, p)

(***************************************************************************)
(* The calls answer as if they had done all of their work at one moment,   *)
(* whatever other threads do to the working directory: they ask for it     *)
(* once (absolute.cpp:36, absolute.cpp:44).  Only the cxx fs_canonical of  *)
(* a relative path that need not exist asks again and again                *)
(* (resolve.cpp:43), as do fs_relative_to and fs_proximate_to, for two     *)
(* paths (relative.cpp:27).  What these answers are is told by the walk of *)
(* the kernel: ".." goes to the parent of the home or the working          *)
(* directory (resolve.cpp:75), although API.md:273 and API.md:279 give     *)
(* "<absolute path of user home directory>/b" for "~/../b", and "<absolute *)
(* path of current working directory>/b" for "../b".                       *)
(***************************************************************************)
AsksOften ==
  /\ ~InC
  /\ \/ call.op = "canonical" /\ ~Strict /\ call.path # Nothing /\ ~Expanduser(call.path).abs
     \/ Relative /\ ~(call.path.abs /\ call.base.abs)

OneMoment ==
  pc = "done" /\ call.op \notin {"set_cwd", "is_case_sensitive"} /\ still =>
    (AsksOften /\ Cardinality(cwds) > 1) \/ \E d \in cwds : answer \in Expected(d)

(* And whatever other programs do to the tree, a path that had to exist,   *)
(* or that was resolved, is absolute and has no ".." in it.                *)
Resolved ==
  /\ Done({"realpath", "canonical", "resolve"}) /\ (Strict \/ call.op = "resolve") =>
       answer = Nothing \/ (answer.abs /\ answer.names \in Seq(Name))

(***************************************************************************)
(* fs_relative_to and fs_proximate_to: from the one place their answer     *)
(* leads to the other.  Either place may be missing, or have links on the  *)
(* way; then the answer still leads there by names, unless the base goes   *)
(* further up, through directories whose names are not known.  The two     *)
(* places are canonicalized one after the other (relative.cpp:27):         *)
(* relative ones need a working directory that stays.                      *)
(***************************************************************************)
FurtherUp(c, q) ==
  \E i \in DOMAIN c.names : c.names[i] = DotDot /\ (i \in DOMAIN q.names => q.names[i] # DotDot)

LeadsThere(d) ==
  LET to   == call.path
      from == call.base
  IN  /\ Leads(d, to) /\ Leads(d, from) /\ Linked(d) =>
           answer # Nothing /\ (Where(d, from) \in Dir => Where(Where(d, from), answer) = Where(d, to))
      /\ answer # Nothing /\ ~answer.abs =>
           \E q \in Weakly(d, to), c \in Weakly(d, from) :
             \/ Normal([c EXCEPT !.names = @ \o answer.names]) = q
             \/ FurtherUp(c, q)
             \/ call.op = "proximate_to" /\ q.abs # c.abs /\ answer = q

RelativeHolds ==
  Done({"relative_to", "proximate_to"}) /\ ~InC /\ still =>
    (cwds # {cwd} /\ ~(call.path.abs /\ call.base.abs)) \/ LeadsThere(cwd)

(* The probe leaves no file behind, and it says yes only if the file was   *)
(* found under a name in other letters; as long as other programs do not   *)
(* exchange the directory between touch and remove.                        *)
ProbeHolds ==
  Done({"is_case_sensitive"}) /\ still /\ (call.path # Nothing => call.path.abs) =>
    /\ \A d \in Dir : child[d][Camel] = None
    /\ yes => disk = "tells"

(* API.md, "is_case_sensitive": "path of filesystem detected as case       *)
(* sensitive.  Path must be writable for check."                           *)
CaseDetected ==
  Done({"is_case_sensitive"}) /\ still /\ cwds = {cwd} /\ call.path # Nothing =>
    (Where(cwd, call.path) \in Writable => yes = (disk = "sensitive"))
=============================================================================
