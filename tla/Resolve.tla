------------------------------ MODULE Resolve ------------------------------
(***************************************************************************)
(* Where a path leads: fs_canonical, fs_resolve, fs_realpath, fs_absolute, *)
(* fs_relative_to and fs_proximate_to, and the working directory that all  *)
(* threads of a process share.                                             *)
(*                                                                         *)
(* These functions read the tree of directories and links many times: the  *)
(* cxx build asks for the status of one beginning of the path after the    *)
(* other, and realpath(3) reads one component after the other.  Between    *)
(* any two of these system calls other threads change the working          *)
(* directory, and other programs change the tree.                          *)
(*                                                                         *)
(* A path is a sequence of names; slashes and "." are in Lexical.          *)
(***************************************************************************)
EXTENDS Naturals, FiniteSets, SequencesExt

CONSTANTS
  Dir, File, Link,  \* what may be in a directory
  Root,             \* the root directory
  Up, NameOf,       \* directory -> the one it is in, and its name there
  Target,           \* link -> path
  Name,             \* the names in directories
  Lower,            \* name -> the name in lower case
  Home,             \* $HOME, an absolute path
  MaxLinks,         \* the links that are followed before it is called a loop
  None, Loop,       \* where a path leads that leads nowhere
  Nothing           \* the empty string

DotDot == ".."
Path   == [abs : BOOLEAN, names : Seq(Name \cup {DotDot})]
Node   == Dir \cup File \cup Link

ASSUME KindsAssumption ==
  /\ Root \in Dir /\ {None, Loop} \cap Node = {}
  /\ Dir \cap File = {} /\ (Dir \cup File) \cap Link = {}
ASSUME DirsAssumption  == Up \in [Dir -> Dir] /\ Up[Root] = Root /\ NameOf \in [Dir -> Name]
ASSUME TreeAssumption  == \A S \in SUBSET (Dir \ {Root}) : S # {} => \E d \in S : Up[d] \notin S
ASSUME LinksAssumption == Target \in [Link -> Path] /\ MaxLinks \in Nat
ASSUME NamesAssumption == DotDot \notin Name /\ Lower \in [Name -> Name]
ASSUME HomeAssumption  == Home \in [abs : {TRUE}, names : Seq(Name)]
ASSUME NothingAssumption == Nothing \notin Path

VARIABLES
  child,       \* directory -> name -> what has that name in it
  disk,        \* how the file system treats the case of names
  cwd,         \* the working directory of the process
  call,        \* the call that is followed
  pc,          \* its next system call
  arg,         \* the path that is being canonicalized
  known,       \* how many names of it are known to lead somewhere
  dest,        \* realpath(3): the names that are resolved,
  todo,        \* the names that are not,
  links,       \* and the links followed so far
  first,       \* an earlier result of the call
  answer, yes  \* what it has returned, a path or a truth value

treeVars == <<child, disk>>
realVars == <<dest, todo, links>>
callVars == <<call, pc, arg, known, dest, todo, links, first, answer, yes>>

Absolute(names) == [abs |-> TRUE, names |-> names]
Upto(p, k)      == [p EXCEPT !.names = SubSeq(@, 1, k)]
After(p, k)     == SubSeq(p.names, k + 1, Len(p.names))

-----------------------------------------------------------------------------
(***************************************************************************)
(* The kernel's walk along a path.  A name is found in other letters too   *)
(* where the file system folds case.                                       *)
(***************************************************************************)
Alike(m, n) == m = n \/ (disk # "sensitive" /\ Lower[m] = Lower[n])
Spelled(d, n) ==
  LET there == {m \in Name : child[d][m] # None /\ Alike(m, n)}
  IN  IF there = {} THEN n ELSE CHOOSE m \in there : TRUE
Entry(d, n) == child[d][Spelled(d, n)]

(* The walk is at a node, with names still to go and links it may follow.  *)
Walk     == Node \X Seq(Name \cup {DotDot}) \X Nat
Found(w) == Entry(w[1], Head(w[2]))

Ended(w) ==
  \/ w[2] = <<>>
  \/ w[1] \notin Dir
  \/ Head(w[2]) # DotDot /\ Found(w) = None
  \/ Head(w[2]) # DotDot /\ Found(w) \in Link /\ w[3] = 0

EndOf(w) ==
  IF w[2] = <<>> THEN w[1] ELSE IF w[1] \in Dir /\ Found(w) \in Link THEN Loop ELSE None

Onward(w) ==
  IF Head(w[2]) = DotDot THEN <<Up[w[1]], Tail(w[2]), w[3]>>
  ELSE IF Found(w) \in Link
    THEN <<IF Target[Found(w)].abs THEN Root ELSE w[1],
           Target[Found(w)].names \o Tail(w[2]), w[3] - 1>>
  ELSE <<Found(w), Tail(w[2]), w[3]>>

Where(from, p) ==
  LET end[w \in Walk] == IF Ended(w) THEN EndOf(w) ELSE end[Onward(w)]
  IN  end[<<IF p.abs THEN Root ELSE from, p.names, MaxLinks>>]

Leads(from, p) == Where(from, p) \in Node

(* A directory by its names from the root, which every way up ends at, and *)
(* whether it is still there.                                              *)
PathOf(d) ==
  LET names[x \in Dir] == IF x = Root THEN <<>> ELSE Append(names[Up[x]], NameOf[x])
  IN  names[d]
Linked(d) == Where(Root, Absolute(PathOf(d))) = d

(* fs_normal, and lexically_normal of std::filesystem.                     *)
Normal(p) ==
  LET Put(names, n) ==
        IF n # DotDot THEN Append(names, n)
        ELSE IF names # <<>> /\ Last(names) # DotDot THEN Front(names)
        ELSE IF p.abs THEN names ELSE Append(names, n)
      kept[k \in 0..Len(p.names)] == IF k = 0 THEN <<>> ELSE Put(kept[k - 1], p.names[k])
  IN  [p EXCEPT !.names = kept[Len(p.names)]]

(* fs_expanduser                                                           *)
Expanduser(p) ==
  IF p # Nothing /\ ~p.abs /\ p.names # <<>> /\ Head(p.names) = "~"
    THEN Absolute(Home.names \o Tail(p.names))
    ELSE p

(* lexically_relative: how to get from b to p.                             *)
LexicallyRelative(p, b) ==
  LET common == CHOOSE i \in 0..Len(p.names) :
                  /\ i <= Len(b.names) /\ Upto(p, i).names = Upto(b, i).names
                  /\ i < Len(p.names) /\ i < Len(b.names) => p.names[i + 1] # b.names[i + 1]
      rest   == After(b, common)
      back   == Cardinality({i \in DOMAIN rest : rest[i] = DotDot})
      down   == Len(rest) - back
  IN  IF p.abs # b.abs \/ back > down THEN Nothing
      ELSE [abs |-> FALSE,
            names |-> [i \in 1..(down - back) |-> DotDot] \o After(p, common)]

-----------------------------------------------------------------------------
Asks(step) == pc = step
Goes(step) == pc' = step
Keeps      == UNCHANGED <<treeVars, cwd, call>>
Returns(p) == /\ answer' = p /\ Goes("done")
              /\ UNCHANGED <<arg, known, realVars, first, yes>>
Says(b)    == /\ yes' = b /\ Goes("done")
              /\ UNCHANGED <<arg, known, realVars, first, answer>>

(* The build without std::filesystem, and the wish that the path exists.   *)
InC    == call.build = "c"
Strict == call.strict \/ call.op \in {"realpath", "is_case_sensitive"}

(* realpath(3): a relative path begins with the names of the working       *)
(* directory.                                                              *)
RealBegins(p) ==
  /\ Goes(IF p.abs THEN "real" ELSE "realcwd")
  /\ dest' = <<>> /\ todo' = p.names /\ links' = 0
  /\ UNCHANGED <<first, answer, yes>>

(* fs_canonical; relative and proximate call weakly_canonical only.        *)
Canonical(p) ==
  IF p = Nothing THEN Returns(Nothing)
  ELSE /\ arg' = p
       /\ IF InC \/ Strict
            THEN RealBegins(p) /\ known' = Len(p.names)
            ELSE Goes("status") /\ known' = 0 /\ UNCHANGED <<realVars, first, answer, yes>>

(* What is done with a path once it is canonicalized.                      *)
Relative == call.op \in {"relative_to", "proximate_to"}
OtherWayRound(p, b) ==                                 \* faulty variant
  LET r == LexicallyRelative(b, p)
  IN  IF r = Nothing /\ call.op = "proximate_to" THEN p ELSE r

Related(p, b) ==
  LET r == LexicallyRelative(p, b)
  IN  IF r = Nothing /\ call.op = "proximate_to" THEN p ELSE r

Canonicalized(p) ==
  CASE call.op = "is_case_sensitive" ->
         /\ first' = p /\ Goes("remove")
         /\ UNCHANGED <<arg, known, realVars, answer, yes>>
    [] Relative /\ p # Nothing /\ first = Nothing ->
         /\ first' = p /\ arg' = call.base /\ known' = 0 /\ Goes("status")
         /\ UNCHANGED <<realVars, answer, yes>>
    [] Relative /\ p # Nothing /\ first # Nothing -> Returns(Related(first, p))
    [] OTHER -> Returns(p)

(* The first part of a call, up to its first system call.                  *)
Begin ==
  /\ Asks("idle")
  /\ CASE call.op = "get_cwd"  -> Goes("getcwd") /\ UNCHANGED <<arg, known, realVars, first, answer, yes>>
       [] call.op = "set_cwd"  -> Goes("chdir") /\ UNCHANGED <<arg, known, realVars, first, answer, yes>>
       [] call.op = "is_case_sensitive" ->
            IF call.path = Nothing THEN Says(FALSE)
            ELSE Goes("touch") /\ UNCHANGED <<arg, known, realVars, first, answer, yes>>
       [] call.op = "realpath"  -> Canonical(call.path)
       [] call.op = "canonical" -> Canonical(Expanduser(call.path))
       [] call.op = "resolve"   ->
            IF call.path # Nothing /\ Expanduser(call.path).abs
              THEN Canonical(Expanduser(call.path))
              ELSE Goes("getcwd") /\ UNCHANGED <<arg, known, realVars, first, answer, yes>>
       [] Relative -> IF InC THEN Returns(Nothing) ELSE Canonical(call.path)
  /\ Keeps

(* Faulty variant: an empty path is appended with its slash.               *)
RebasedWithSlash(d) == Absolute(PathOf(d) \o IF call.path = Nothing THEN <<"">> ELSE call.path.names)

(* fs_get_cwd; fs_absolute makes the path of it that fs_resolve resolves.  *)
Rebased(d) == Absolute(PathOf(d) \o IF call.path = Nothing THEN <<>> ELSE call.path.names)

GetCwd ==
  /\ Asks("getcwd")
  /\ IF ~Linked(cwd) THEN Returns(Nothing)
     ELSE IF call.op = "get_cwd" THEN Returns(Absolute(PathOf(cwd)))
     ELSE Canonical(Rebased(cwd))
  /\ Keeps

(* fs_set_cwd                                                              *)
SetCwd ==
  /\ Asks("chdir")
  /\ LET d == IF call.path = Nothing THEN None ELSE Where(cwd, call.path) IN
     /\ Says(d \in Dir)
     /\ cwd' = IF d \in Dir THEN d ELSE cwd
  /\ UNCHANGED <<treeVars, call>>

(* weakly_canonical: the status of the path, then of its beginnings, until *)
(* one leads nowhere; realpath for that part, and the rest as it is.       *)
Status ==
  /\ Asks("status")
  /\ LET x == Where(cwd, arg) IN
     CASE x = Loop   -> Canonicalized(Nothing)
       [] x \in Node -> RealBegins(arg) /\ known' = Len(arg.names) /\ UNCHANGED arg
       [] OTHER      -> Goes("scan") /\ UNCHANGED <<arg, known, realVars, first, answer, yes>>
  /\ Keeps

ScanEnds ==
  IF known = 0 /\ ~arg.abs
    THEN Canonicalized(Normal(arg))
    ELSE RealBegins(Upto(arg, known)) /\ UNCHANGED <<arg, known>>

ScanGoesOn ==
  /\ known' = known + 1 /\ Goes("scan")
  /\ UNCHANGED <<arg, realVars, first, answer, yes>>

Scan ==
  /\ Asks("scan")
  /\ IF known = Len(arg.names) THEN ScanEnds
     ELSE LET x == Where(cwd, Upto(arg, known + 1)) IN
          CASE x = Loop   -> Canonicalized(Nothing)
            [] x \in Node -> ScanGoesOn
            [] OTHER      -> ScanEnds
  /\ Keeps

-----------------------------------------------------------------------------
(* Faulty variant: the caller's wish that the path exists is not asked.    *)
RealFailsSoftly == Canonicalized(IF InC THEN Normal(arg) ELSE Nothing)

(* Without std::filesystem a path that realpath fails for is normalized,   *)
(* unless it has to exist.                                                 *)
RealFails == Canonicalized(IF InC /\ ~Strict THEN Normal(arg) ELSE Nothing)

RealCwd ==
  /\ Asks("realcwd")
  /\ IF Linked(cwd)
       THEN /\ dest' = PathOf(cwd) /\ Goes("real")
            /\ UNCHANGED <<arg, known, todo, links, first, answer, yes>>
       ELSE RealFails
  /\ Keeps

(* Faulty variant: weakly_canonical forgets to normalize what is missing.  *)
RealEndsAsIs == todo = <<>> /\ Canonicalized(Absolute(dest \o After(arg, known)))

RealEnds == todo = <<>> /\ Canonicalized(Normal(Absolute(dest \o After(arg, known))))

RealBack ==
  /\ todo # <<>> /\ Head(todo) = DotDot
  /\ dest' = IF dest = <<>> THEN <<>> ELSE Front(dest)
  /\ todo' = Tail(todo)
  /\ Goes("real") /\ UNCHANGED <<arg, known, links, first, answer, yes>>

Follows(x) ==
  /\ dest' = (IF Target[x].abs THEN <<>> ELSE dest)
  /\ todo' = Target[x].names \o Tail(todo) /\ links' = links + 1
  /\ Goes("real") /\ UNCHANGED <<arg, known, first, answer, yes>>

MayFollow == links < MaxLinks

(* One name is looked up with the names before it, as readlink(2) does.    *)
RealName ==
  /\ todo # <<>> /\ Head(todo) # DotDot
  /\ LET d == Where(Root, Absolute(dest))
         x == IF d \in Dir THEN Entry(d, Head(todo)) ELSE None
     IN  IF x \in Link /\ MayFollow THEN Follows(x)
         ELSE IF x \in Dir \/ (x \in File /\ Tail(todo) = <<>>)
           THEN /\ dest' = Append(dest, IF disk = "tells" THEN Spelled(d, Head(todo)) ELSE Head(todo))
                /\ todo' = Tail(todo)
                /\ Goes("real") /\ UNCHANGED <<arg, known, links, first, answer, yes>>
           ELSE RealFails

Real == Asks("real") /\ (RealEnds \/ RealBack \/ RealName) /\ Keeps

ResolveStep == Begin \/ GetCwd \/ SetCwd \/ Status \/ Scan \/ RealCwd \/ Real
=============================================================================
