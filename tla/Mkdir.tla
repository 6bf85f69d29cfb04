------------------------------- MODULE Mkdir -------------------------------
(***************************************************************************)
(* fs_mkdir, which makes a directory and its missing parents, called by    *)
(* several processes whose paths overlap while others remove directories   *)
(* and create files on the way.                                            *)
(*                                                                         *)
(* Each call is one of two builds of the library.  "c" is the loop of      *)
(* mkdir.cpp: one mkdir(2) per component, from the first to the last.      *)
(* "cxx" (HAVE_CXX_FILESYSTEM) is the call of                              *)
(* std::filesystem::create_directories, modelled after libstdc++: it looks *)
(* upwards for the components that are missing and makes them downwards.   *)
(* One action is one system call.  A path is the sequence of its           *)
(* components (fs_split); a leading slash only decides which directory is  *)
(* the base of the tree.                                                   *)
(***************************************************************************)
EXTENDS Naturals, Sequences, FiniteSets

CONSTANTS
  Proc,        \* processes calling the library
  Comp,        \* names of components
  MaxDepth,    \* bounds the depth of the tree
  Trees,       \* the trees the processes may find
  Requests,    \* the calls they may make
  MaxCalls,    \* bounds the number of calls made in all
  FilePlaces,  \* where another program may create a file
  MaxEnv,      \* bounds what other programs do
  MayCrash     \* TRUE: a process may die in the middle of a call

Paths   == UNION {[1..k -> Comp] : k \in 0..MaxDepth}
Place   == Paths \ {<<>>}
Kind    == {"none", "dir", "file"}
Request == [empty : BOOLEAN, parts : Paths,       \* empty: the path ""
            build : {"cxx", "c"}]

Prefix(q, k) == SubSeq(q, 1, k)
Parent(q)    == Prefix(q, Len(q) - 1)

WellFormed(t) ==
  \A q \in Place : t.node[q] # "none" /\ Len(q) > 1 => t.node[Parent(q)] = "dir"

ASSUME TreesAssumption ==
  Trees \subseteq {t \in [node : [Place -> Kind], sealed : SUBSET Paths] : WellFormed(t)}
ASSUME RequestsAssumption == Requests \subseteq Request
ASSUME PlacesAssumption   == FilePlaces \subseteq Place
ASSUME BoundsAssumption   == MaxDepth \in Nat /\ MaxCalls \in Nat /\ MaxEnv \in Nat
ASSUME SwitchAssumption   == MayCrash \in BOOLEAN

VARIABLES
  node,      \* what is at each place of the tree
  sealed,    \* the directories the caller may not write to
  call,      \* the call each process is in, or made last
  pc,        \* the system call it makes next
  at,        \* components of its path that are behind it
  ok,        \* the logical it returned
  nCalls,    \* calls made so far
  nEnv,      \* steps of other programs so far
  hindered   \* history: was anything ever in the way of this call?

tree == <<node, sealed>>
vars == <<tree, call, pc, at, ok, nCalls, nEnv, hindered>>

Labels == {"mkdir", "status", "scan", "is_dir"}

TypeOK ==
  /\ [node |-> node, sealed |-> sealed] \in [node : [Place -> Kind], sealed : SUBSET Paths]
  /\ WellFormed([node |-> node])
  /\ call \in [Proc -> Request]
  /\ pc \in [Proc -> Labels \cup {"idle", "done", "dead"}]
  /\ at \in [Proc -> 0..MaxDepth]
  /\ \A p \in Proc : pc[p] \in {"mkdir", "is_dir"} => at[p] < Len(call[p].parts)
  /\ ok \in [Proc -> BOOLEAN]
  /\ nCalls \in 0..MaxCalls
  /\ nEnv \in 0..MaxEnv
  /\ hindered \in [Proc -> BOOLEAN]

Busy(p)  == pc[p] \in Labels
Parts(p) == call[p].parts
IsDir(q) == q # <<>> => node[q] = "dir"

(***************************************************************************)
(* mkdir(2) at q: what it reports, and what it does.                       *)
(***************************************************************************)
MkdirReports(q) ==
  IF ~ IsDir(Parent(q)) THEN "ENOENT"            \* or ENOTDIR
  ELSE IF node[q] # "none" THEN "EEXIST"
  ELSE IF Parent(q) \in sealed THEN "EACCES"
  ELSE "made"

MkdirDoes(q) ==
  IF MkdirReports(q) = "made" THEN node' = [node EXCEPT ![q] = "dir"]
  ELSE UNCHANGED node

(* A file on the way, or a directory that cannot be written to.            *)
Obstructed(q) ==
  \E k \in 0..Len(q) : Prefix(q, k) \in sealed \/ (k > 0 /\ node[Prefix(q, k)] = "file")

(* The shape of a step: on to the next system call, or back to the caller. *)
Goto(p, label, n) ==
  /\ pc' = [pc EXCEPT ![p] = label]
  /\ at' = [at EXCEPT ![p] = n]
  /\ UNCHANGED ok

Return(p, b) ==
  /\ pc' = [pc EXCEPT ![p] = "done"]
  /\ ok' = [ok EXCEPT ![p] = b]
  /\ UNCHANGED at

(* The component after at[p] is there: go on with the next, or return.     *)
AdvanceLate(p) ==                                      \* faulty variant
  IF at[p] = Len(Parts(p)) THEN Return(p, TRUE) ELSE Goto(p, "mkdir", at[p] + 1)

Advance(p) ==
  IF at[p] + 1 = Len(Parts(p)) THEN Return(p, TRUE) ELSE Goto(p, "mkdir", at[p] + 1)

(* The empty path is refused.  "/" has no components: the loop of the C    *)
(* build is not entered and ok keeps its initial value, false.             *)
Refused(c) == c.empty \/ (c.build = "c" /\ c.parts = <<>>)

Begin(p, c) ==
  /\ pc[p] \in {"idle", "done"}
  /\ nCalls < MaxCalls
  /\ nCalls' = nCalls + 1
  /\ call' = [call EXCEPT ![p] = c]
  /\ at' = [at EXCEPT ![p] = 0]
  /\ ok' = [ok EXCEPT ![p] = FALSE]
  /\ pc' = [pc EXCEPT ![p] = IF Refused(c) THEN "done"
                             ELSE IF c.build = "c" THEN "mkdir" ELSE "status"]
  /\ hindered' = [hindered EXCEPT ![p] = Obstructed(c.parts)]
  /\ UNCHANGED <<tree, nEnv>>
-----------------------------------------------------------------------------
(***************************************************************************)
(* The loop of the C build: EEXIST is no failure, nor is EACCES unless the *)
(* component equals the last one.                                          *)
(***************************************************************************)
MadeOnly(p, r)  == r = "made"                          \* faulty variant

Tolerated(p, r) ==
  \/ r \in {"made", "EEXIST"}
  \/ r = "EACCES" /\ Parts(p)[at[p] + 1] # Parts(p)[Len(Parts(p))]

CMkdir(p) ==
  LET q == Prefix(Parts(p), at[p] + 1) IN
  /\ call[p].build = "c"
  /\ pc[p] = "mkdir"
  /\ MkdirDoes(q)
  /\ IF Tolerated(p, MkdirReports(q)) THEN Advance(p) ELSE Return(p, FALSE)
-----------------------------------------------------------------------------
(***************************************************************************)
(* create_directories: nothing is made if the path is there already.       *)
(***************************************************************************)
CxxStatus(p) ==
  /\ pc[p] = "status"
  /\ IF IsDir(Parts(p)) THEN Return(p, TRUE)
     ELSE IF node[Parts(p)] = "file" THEN Return(p, FALSE)
     ELSE Goto(p, "scan", Len(Parts(p)) - 1)
  /\ UNCHANGED node

(* Upwards to the first component that is there.                           *)
CxxScan(p) ==
  LET q == Prefix(Parts(p), at[p]) IN
  /\ pc[p] = "scan"
  /\ IF IsDir(q) THEN Goto(p, "mkdir", at[p])
     ELSE IF node[q] = "file" THEN Return(p, FALSE)
     ELSE Goto(p, "scan", at[p] - 1)
  /\ UNCHANGED node

(* Downwards.  On EEXIST another status call tells whether someone else    *)
(* has made the directory meanwhile.                                       *)
NeverAsksAgain(r) == FALSE                             \* faulty variant
AsksAgain(r)      == r = "EEXIST"

CxxMkdir(p) ==
  LET q == Prefix(Parts(p), at[p] + 1) IN
  /\ call[p].build = "cxx"
  /\ pc[p] = "mkdir"
  /\ MkdirDoes(q)
  /\ CASE MkdirReports(q) = "made"    -> Advance(p)
       [] AsksAgain(MkdirReports(q))  -> Goto(p, "is_dir", at[p])
       [] OTHER                       -> Return(p, FALSE)

NotMissing(q) == node[q] # "none"                      \* faulty variant
SomeoneMade(q) == IsDir(q)

CxxIsDir(p) ==
  /\ pc[p] = "is_dir"
  /\ IF SomeoneMade(Prefix(Parts(p), at[p] + 1)) THEN Advance(p) ELSE Return(p, FALSE)
  /\ UNCHANGED node
-----------------------------------------------------------------------------
Step(p) ==
  /\ CMkdir(p) \/ CxxStatus(p) \/ CxxScan(p) \/ CxxMkdir(p) \/ CxxIsDir(p)
  /\ UNCHANGED <<sealed, call, nCalls, nEnv, hindered>>

Crash(p) ==
  /\ MayCrash
  /\ Busy(p)
  /\ pc' = [pc EXCEPT ![p] = "dead"]
  /\ UNCHANGED <<tree, call, at, ok, nCalls, nEnv, hindered>>

(* Another program removes a file or an empty directory, or makes a file.  *)
Elsewhere(q) ==
  /\ nEnv < MaxEnv
  /\ nEnv' = nEnv + 1
  /\ hindered' = [p \in Proc |-> hindered[p] \/ \E k \in 1..Len(Parts(p)) : q = Prefix(Parts(p), k)]
  /\ UNCHANGED <<sealed, call, pc, at, ok, nCalls>>

EnvRemove(q) ==
  /\ node[q] # "none"
  /\ \A r \in Place : node[r] # "none" => Parent(r) # q
  /\ node' = [node EXCEPT ![q] = "none"]
  /\ Elsewhere(q)

EnvFile(q) ==
  /\ node[q] = "none"
  /\ IsDir(Parent(q))
  /\ node' = [node EXCEPT ![q] = "file"]
  /\ Elsewhere(q)

Next ==
  \/ \E p \in Proc : \/ \E c \in Requests : Begin(p, c)
                     \/ Step(p)
                     \/ Crash(p)
  \/ \E q \in Place : EnvRemove(q)
  \/ \E q \in FilePlaces : EnvFile(q)

Init ==
  /\ \E t \in Trees : node = t.node /\ sealed = t.sealed
  /\ call = [p \in Proc |-> [empty |-> TRUE, parts |-> <<>>, build |-> "c"]]
  /\ pc = [p \in Proc |-> "idle"]
  /\ at = [p \in Proc |-> 0]
  /\ ok = [p \in Proc |-> FALSE]
  /\ nCalls = 0
  /\ nEnv = 0
  /\ hindered = [p \in Proc |-> FALSE]

Spec == Init /\ [][Next]_vars

(* A process in a call keeps running: mkdir(2) and stat(2) do not wait.    *)
FairSpec == Spec /\ \A p \in Proc : WF_vars(Step(p))
-----------------------------------------------------------------------------
(* A call fails only for a reason: something on its path was a file or not *)
(* writable, or somebody removed part of it.  In particular two processes  *)
(* that make overlapping paths at the same time do not make each other     *)
(* fail.  (The C build also fails for "/", which has no components.)       *)
FailureHasCause ==
  \A p \in Proc :
    pc[p] = "done" /\ ~ ok[p] => hindered[p] \/ Refused(call[p])

(* Each build implements the promise of MkdirPromise: parents before       *)
(* children, nothing off its own path, and yes only while the path is      *)
(* there, however its steps fall between those of others.                  *)
Promise ==
  INSTANCE MkdirPromise WITH
    Request <- {c.parts : c \in Requests},
    dirs    <- {q \in Place : node[q] = "dir"},
    asked   <- [p \in Proc |-> Parts(p)],
    answer  <- [p \in Proc |-> IF Busy(p) THEN "busy"
                               ELSE IF pc[p] # "done" THEN pc[p]
                               ELSE IF ok[p] THEN "yes" ELSE "no"]
KeepsPromise == Promise!Spec

(* The C build takes a file at the end of a path for the directory         *)
(* (mkdir.cpp:75): it keeps the promise where there is none.               *)
NoFileAtEnd ==
  \A c \in Requests : c.build = "c" /\ c.parts # <<>> =>
    c.parts \notin FilePlaces /\ \A t \in Trees : t.node[c.parts] # "file"

(* A call that nothing is in the way of gets its directory made, be it     *)
(* that others who make parts of the same path die half way.               *)
PathAppears ==
  \A p \in Proc :
    Busy(p) /\ ~ hindered[p] ~> IsDir(Parts(p)) \/ hindered[p] \/ pc[p] = "dead"
=============================================================================
