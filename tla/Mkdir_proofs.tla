---------------------------- MODULE Mkdir_proofs ----------------------------
(***************************************************************************)
(* For any names, any trees and any number of processes: fs_mkdir leaves   *)
(* the tree a tree, fails only for a cause, and keeps MkdirPromise - that  *)
(* last in the C build only if nobody puts a file where the directory is   *)
(* to be.                                                                  *)
(***************************************************************************)
EXTENDS Mkdir, SequenceTheorems, TLAPS

(* The parts of a call in progress: what is behind it and what is ahead.   *)
OnPath ==
  \A p \in Proc :
    /\ pc[p] \in {"mkdir", "is_dir", "scan"} => at[p] < Len(Parts(p))
    /\ pc[p] # "idle" => call[p] \in Requests

(* A call that nothing has hindered has a free way ahead, has what is      *)
(* behind it, and has not failed.                                          *)
Free ==
  \A p \in Proc : ~hindered[p] /\ ~Refused(call[p]) =>
    /\ pc[p] \in Labels => ~Obstructed(Parts(p))
    /\ pc[p] \in {"mkdir", "is_dir"} => IsDir(Prefix(Parts(p), at[p]))
    /\ pc[p] = "is_dir" => node[Prefix(Parts(p), at[p] + 1)] # "none"
    /\ pc[p] = "done" => ok[p]

IInv == TypeOK /\ OnPath

-----------------------------------------------------------------------------
(* Paths and their prefixes.                                               *)
LEMMA PathFacts ==
  ASSUME NEW q \in Paths
  PROVE  q \in Seq(Comp) /\ Len(q) \in 0..MaxDepth /\ Prefix(q, Len(q)) = q
<1>1. PICK k \in 0..MaxDepth : q \in [1..k -> Comp]
  BY DEF Paths
<1>2. k \in Nat
  BY <1>1, BoundsAssumption
<1>3. q \in Seq(Comp) /\ Len(q) = k
  BY <1>1, <1>2
<1> QED BY <1>1, <1>3 DEF Prefix

LEMMA PrefixFacts ==
  ASSUME NEW q \in Paths, NEW k \in 0..Len(q)
  PROVE  /\ Prefix(q, k) \in Paths /\ Len(Prefix(q, k)) = k
         /\ k = 0 => Prefix(q, k) = <<>>
         /\ k > 0 => /\ Prefix(q, k) \in Place
                     /\ Parent(Prefix(q, k)) = Prefix(q, k - 1)
<1>1. q \in Seq(Comp) /\ Len(q) \in 0..MaxDepth /\ k \in Nat
  BY PathFacts
<1>2. Prefix(q, k) \in [1..k -> Comp] /\ Len(Prefix(q, k)) = k
  <2>1. \A i \in 1..k : q[i] \in Comp
    BY <1>1
  <2>2. Prefix(q, k) \in Seq(Comp) /\ Len(Prefix(q, k)) = k
    BY <1>1, <2>1, SubSeqProperties DEF Prefix
  <2> QED BY <2>2
<1>3. k \in 0..MaxDepth
  BY <1>1, BoundsAssumption
<1>4. Prefix(q, k) \in Paths
  BY <1>2, <1>3 DEF Paths
<1>5. k = 0 => Prefix(q, k) = <<>>
  BY <1>1 DEF Prefix
<1>6. k > 0 => Parent(Prefix(q, k)) = Prefix(q, k - 1)
  BY <1>1, <1>2 DEF Parent, Prefix
<1>7. k > 0 => Prefix(q, k) # <<>>
  BY <1>2
<1> QED BY <1>2, <1>4, <1>5, <1>6, <1>7 DEF Place

LEMMA PlaceFacts ==
  ASSUME NEW q \in Place
  PROVE  /\ q \in Paths /\ Len(q) \in 1..MaxDepth /\ Prefix(q, Len(q)) = q
         /\ Parent(q) \in Paths
         /\ Len(q) > 1 => Parent(q) \in Place
         /\ Len(q) = 1 => Parent(q) = <<>>
<1>1. q \in Paths /\ q # <<>> /\ q \in Seq(Comp) /\ Len(q) \in 0..MaxDepth
  BY PathFacts DEF Place
<1>2. Len(q) \in 1..MaxDepth
  BY <1>1
<1>3. Len(q) \in 0..Len(q) /\ Len(q) - 1 \in 0..Len(q)
  BY <1>2
<1>4. Parent(q) = Prefix(q, Len(q) - 1)
  BY DEF Parent
<1> QED BY <1>1, <1>2, <1>3, <1>4, PathFacts, PrefixFacts

(* In a tree, everything has a directory above it.                         *)
LEMMA TreeFacts ==
  ASSUME TypeOK, NEW q \in Place, node[q] # "none"
  PROVE  IsDir(Parent(q))
<1>1. CASE Len(q) > 1
  BY <1>1 DEF TypeOK, WellFormed, IsDir
<1>2. CASE Len(q) = 1
  BY <1>2, PlaceFacts DEF IsDir
<1>3. Len(q) \in 1..MaxDepth
  BY PlaceFacts
<1>4. Len(q) = 1 \/ Len(q) > 1
  BY <1>3, BoundsAssumption
<1> QED BY <1>1, <1>2, <1>4

-----------------------------------------------------------------------------
(***************************************************************************)
(* What a step does to the tree.                                           *)
(***************************************************************************)
(* mkdir(2) adds a directory to a tree, or nothing.                        *)
LEMMA MadeInTree ==
  ASSUME TypeOK, NEW q \in Place, MkdirDoes(q)
  PROVE  /\ node' \in [Place -> Kind] /\ WellFormed([node |-> node'])
         /\ IF MkdirReports(q) = "made"
              THEN node[q] = "none" /\ IsDir(Parent(q)) /\ node' = [node EXCEPT ![q] = "dir"]
              ELSE node' = node
<1>1. node \in [Place -> Kind] /\ \A r \in Place : node[r] # "none" /\ Len(r) > 1 => node[Parent(r)] = "dir"
  BY DEF TypeOK, WellFormed
<1>2. CASE MkdirReports(q) = "made"
  <2>1. node[q] = "none" /\ IsDir(Parent(q)) /\ node' = [node EXCEPT ![q] = "dir"]
    BY <1>2 DEF MkdirDoes, MkdirReports
  <2>2. node' \in [Place -> Kind] /\ node'[q] = "dir" /\ \A r \in Place : r # q => node'[r] = node[r]
    BY <1>1, <2>1 DEF Kind
  <2>3. ASSUME NEW r \in Place, node'[r] # "none", Len(r) > 1
        PROVE  node'[Parent(r)] = "dir"
    <3>1. Parent(r) \in Place
      BY <2>3, PlaceFacts
    <3>2. CASE r = q
      <4>1. Parent(q) # <<>> /\ node[Parent(q)] = "dir"
        BY <2>1, <3>1, <3>2 DEF IsDir, Place
      <4> QED BY <2>2, <3>1, <3>2, <4>1
    <3>3. CASE r # q
      BY <1>1, <2>2, <2>3, <3>1, <3>3
    <3> QED BY <3>2, <3>3
  <2> QED BY <1>2, <2>1, <2>2, <2>3 DEF WellFormed
<1>3. CASE MkdirReports(q) # "made"
  BY <1>1, <1>3 DEF MkdirDoes, WellFormed
<1> QED BY <1>2, <1>3

(* Nothing is below what is removed, and a file is put into a directory.   *)
LEMMA OthersInTree ==
  ASSUME TypeOK, NEW q \in Place, EnvRemove(q) \/ EnvFile(q)
  PROVE  node' \in [Place -> Kind] /\ WellFormed([node |-> node'])
<1>1. node \in [Place -> Kind] /\ \A r \in Place : node[r] # "none" /\ Len(r) > 1 => node[Parent(r)] = "dir"
  BY DEF TypeOK, WellFormed
<1>2. CASE EnvRemove(q)
  <2>1. node' = [node EXCEPT ![q] = "none"] /\ \A r \in Place : node[r] # "none" => Parent(r) # q
    BY <1>2 DEF EnvRemove
  <2>2. node' \in [Place -> Kind] /\ node'[q] = "none" /\ \A r \in Place : r # q => node'[r] = node[r]
    BY <1>1, <2>1 DEF Kind
  <2>3. ASSUME NEW r \in Place, node'[r] # "none", Len(r) > 1
        PROVE  node'[Parent(r)] = "dir"
    BY <1>1, <2>1, <2>2, <2>3, PlaceFacts
  <2> QED BY <2>2, <2>3 DEF WellFormed
<1>3. CASE EnvFile(q)
  <2>1. node' = [node EXCEPT ![q] = "file"] /\ node[q] = "none" /\ IsDir(Parent(q))
    BY <1>3 DEF EnvFile
  <2>2. node' \in [Place -> Kind] /\ node'[q] = "file" /\ \A r \in Place : r # q => node'[r] = node[r]
    BY <1>1, <2>1 DEF Kind
  <2>3. ASSUME NEW r \in Place, node'[r] # "none", Len(r) > 1
        PROVE  node'[Parent(r)] = "dir"
    <3>1. Parent(r) \in Place
      BY <2>3, PlaceFacts
    <3>2. CASE r = q
      <4>1. Parent(q) # <<>> /\ node[Parent(q)] = "dir"
        BY <2>1, <3>1, <3>2 DEF IsDir, Place
      <4> QED BY <2>1, <2>2, <3>1, <3>2, <4>1
    <3>3. CASE r # q
      BY <1>1, <2>1, <2>2, <2>3, <3>1, <3>3
    <3> QED BY <3>2, <3>3
  <2> QED BY <2>2, <2>3 DEF WellFormed
<1> QED BY <1>2, <1>3

-----------------------------------------------------------------------------
(***************************************************************************)
(* Types, and where on its path a call may be.                             *)
(***************************************************************************)
LEMMA CallFacts ==
  ASSUME TypeOK, NEW p \in Proc
  PROVE  /\ Parts(p) \in Paths /\ Len(Parts(p)) \in Nat /\ Len(Parts(p)) \in 0..MaxDepth
         /\ at[p] \in Nat /\ call[p] \in Request
<1>1. call[p] \in Request /\ at[p] \in 0..MaxDepth
  BY DEF TypeOK
<1>2. Parts(p) \in Paths
  BY <1>1 DEF Request, Parts
<1> QED BY <1>1, <1>2, PathFacts, BoundsAssumption

(* The component that a call makes or asks about next.                     *)
LEMMA AheadFacts ==
  ASSUME TypeOK, OnPath, NEW p \in Proc, pc[p] \in {"mkdir", "is_dir", "scan"}
  PROVE  /\ at[p] \in 0..Len(Parts(p)) /\ at[p] + 1 \in 1..Len(Parts(p))
         /\ Prefix(Parts(p), at[p] + 1) \in Place
         /\ Parent(Prefix(Parts(p), at[p] + 1)) = Prefix(Parts(p), at[p])
         /\ Prefix(Parts(p), at[p]) \in Paths
<1>1. at[p] \in 0..Len(Parts(p)) /\ at[p] + 1 \in 1..Len(Parts(p)) /\ (at[p] + 1) - 1 = at[p]
  BY CallFacts DEF OnPath
<1>2. at[p] + 1 \in 0..Len(Parts(p)) /\ at[p] + 1 > 0
  BY <1>1, CallFacts
<1> QED BY <1>1, <1>2, CallFacts, PrefixFacts

(* A step of the control that keeps a call on its path.                    *)
LEMMA MovesOn ==
  ASSUME IInv, NEW p \in Proc, UNCHANGED call, pc[p] # "idle",
         node' \in [Place -> Kind], WellFormed([node |-> node']),
         UNCHANGED <<sealed, nCalls, nEnv, hindered>>,
         \/ \E b \in BOOLEAN : Return(p, b)
         \/ \E l \in Labels, n \in 0..MaxDepth :
              Goto(p, l, n) /\ (l \in {"mkdir", "is_dir", "scan"} => n < Len(Parts(p)))
  PROVE  IInv'
<1>1. TypeOK /\ OnPath /\ sealed \in SUBSET Paths
  BY DEF IInv, TypeOK
<1>2. Parts(p)' = Parts(p) /\ \A r \in Proc : Parts(r)' = Parts(r)
  BY DEF Parts
<1>3. CASE \E b \in BOOLEAN : Return(p, b)
  <2>1. PICK b \in BOOLEAN : Return(p, b)
    BY <1>3
  <2>2. /\ pc' \in [Proc -> Labels \cup {"idle", "done", "dead"}] /\ ok' \in [Proc -> BOOLEAN]
        /\ at' = at /\ pc'[p] = "done" /\ \A r \in Proc : r # p => pc'[r] = pc[r]
    BY <1>1, <2>1 DEF Return, TypeOK
  <2>3. TypeOK'
    BY <1>1, <1>2, <2>2 DEF TypeOK, Parts
  <2>4. OnPath'
    BY <1>1, <1>2, <2>2 DEF OnPath, Parts
  <2> QED BY <2>3, <2>4 DEF IInv
<1>4. CASE \E l \in Labels, n \in 0..MaxDepth :
              Goto(p, l, n) /\ (l \in {"mkdir", "is_dir", "scan"} => n < Len(Parts(p)))
  <2>1. PICK l \in Labels, n \in 0..MaxDepth :
              Goto(p, l, n) /\ (l \in {"mkdir", "is_dir", "scan"} => n < Len(Parts(p)))
    BY <1>4
  <2>2. /\ pc' \in [Proc -> Labels \cup {"idle", "done", "dead"}] /\ at' \in [Proc -> 0..MaxDepth]
        /\ ok' = ok /\ pc'[p] = l /\ at'[p] = n
        /\ \A r \in Proc : r # p => pc'[r] = pc[r] /\ at'[r] = at[r]
    BY <1>1, <2>1 DEF Goto, TypeOK
  <2>3. TypeOK'
    BY <1>1, <1>2, <2>1, <2>2 DEF TypeOK, Parts
  <2>4. OnPath'
    BY <1>1, <1>2, <2>1, <2>2 DEF OnPath, Parts
  <2> QED BY <2>3, <2>4 DEF IInv
<1> QED BY <1>3, <1>4

(* From one component to the next, or to the answer.                       *)
LEMMA AdvanceFacts ==
  ASSUME TypeOK, OnPath, NEW p \in Proc, pc[p] \in {"mkdir", "is_dir"}, Advance(p)
  PROVE  \/ Return(p, TRUE) /\ at[p] + 1 = Len(Parts(p))
         \/ Goto(p, "mkdir", at[p] + 1) /\ at[p] + 1 \in 0..MaxDepth /\ at[p] + 1 < Len(Parts(p))
<1>1. /\ at[p] \in Nat /\ Len(Parts(p)) \in Nat /\ Len(Parts(p)) <= MaxDepth
      /\ at[p] + 1 <= Len(Parts(p)) /\ MaxDepth \in Nat
  BY CallFacts, BoundsAssumption DEF OnPath
<1>2. CASE at[p] + 1 = Len(Parts(p))
  BY <1>2 DEF Advance
<1>3. CASE at[p] + 1 # Len(Parts(p))
  <2>1. at[p] + 1 \in 0..MaxDepth /\ at[p] + 1 < Len(Parts(p))
    BY <1>1, <1>3
  <2> QED BY <1>3, <2>1 DEF Advance
<1> QED BY <1>2, <1>3

LEMMA StepKeepsTypes ==
  ASSUME IInv, NEW p \in Proc, Step(p)
  PROVE  IInv'
<1>1. TypeOK /\ OnPath /\ UNCHANGED <<sealed, call, nCalls, nEnv, hindered>>
  BY DEF IInv, Step
<1>2. /\ node \in [Place -> Kind] /\ WellFormed([node |-> node])
      /\ Parts(p) \in Paths /\ Len(Parts(p)) \in Nat /\ Len(Parts(p)) \in 0..MaxDepth
      /\ at[p] \in 0..MaxDepth /\ MaxDepth \in Nat
  BY <1>1, CallFacts, BoundsAssumption DEF TypeOK, WellFormed
<1>3. ASSUME Advance(p), pc[p] \in {"mkdir", "is_dir"},
             node' \in [Place -> Kind], WellFormed([node |-> node'])
      PROVE  IInv'
  BY <1>1, <1>3, AdvanceFacts, MovesOn DEF Labels
<1>4. ASSUME NEW b \in BOOLEAN, Return(p, b), pc[p] # "idle",
             node' \in [Place -> Kind], WellFormed([node |-> node'])
      PROVE  IInv'
  BY <1>1, <1>4, MovesOn
<1>5. CASE CMkdir(p)
  <2>1. pc[p] = "mkdir" /\ MkdirDoes(Prefix(Parts(p), at[p] + 1))
    BY <1>5 DEF CMkdir
  <2>2. node' \in [Place -> Kind] /\ WellFormed([node |-> node'])
    BY <1>1, <2>1, AheadFacts, MadeInTree
  <2>3. Advance(p) \/ Return(p, FALSE)
    BY <1>5 DEF CMkdir
  <2> QED BY <1>3, <1>4, <2>1, <2>2, <2>3
<1>6. CASE CxxStatus(p)
  <2>1. pc[p] = "status" /\ UNCHANGED node
    BY <1>6 DEF CxxStatus
  <2>2. CASE Return(p, TRUE) \/ Return(p, FALSE)
    BY <1>2, <1>4, <2>1, <2>2
  <2>3. CASE ~IsDir(Parts(p)) /\ Goto(p, "scan", Len(Parts(p)) - 1)
    <3>1. Len(Parts(p)) # 0
      BY <1>2, <2>3, PathFacts DEF IsDir
    <3>2. Len(Parts(p)) - 1 \in 0..MaxDepth /\ Len(Parts(p)) - 1 < Len(Parts(p))
      BY <1>2, <3>1
    <3> QED BY <1>1, <1>2, <2>1, <2>3, <3>2, MovesOn DEF Labels
  <2> QED BY <1>6, <2>2, <2>3 DEF CxxStatus
<1>7. CASE CxxScan(p)
  <2>1. pc[p] = "scan" /\ UNCHANGED node /\ at[p] < Len(Parts(p))
    BY <1>1, <1>7 DEF CxxScan, OnPath
  <2>2. CASE Goto(p, "mkdir", at[p])
    BY <1>1, <1>2, <2>1, <2>2, MovesOn DEF Labels
  <2>3. CASE Return(p, FALSE)
    BY <1>2, <1>4, <2>1, <2>3
  <2>4. CASE ~IsDir(Prefix(Parts(p), at[p])) /\ Goto(p, "scan", at[p] - 1)
    <3>1. at[p] # 0
      BY <1>2, <2>4, PrefixFacts DEF IsDir
    <3>2. at[p] - 1 \in 0..MaxDepth /\ at[p] - 1 < Len(Parts(p))
      BY <1>2, <2>1, <3>1
    <3> QED BY <1>1, <1>2, <2>1, <2>4, <3>2, MovesOn DEF Labels
  <2> QED BY <1>7, <2>2, <2>3, <2>4 DEF CxxScan
<1>8. CASE CxxMkdir(p)
  <2>1. pc[p] = "mkdir" /\ MkdirDoes(Prefix(Parts(p), at[p] + 1))
    BY <1>8 DEF CxxMkdir
  <2>2. node' \in [Place -> Kind] /\ WellFormed([node |-> node'])
    BY <1>1, <2>1, AheadFacts, MadeInTree
  <2>3. Advance(p) \/ Return(p, FALSE) \/ Goto(p, "is_dir", at[p])
    BY <1>8 DEF CxxMkdir
  <2>4. CASE Goto(p, "is_dir", at[p])
    BY <1>1, <1>2, <2>1, <2>2, <2>4, MovesOn DEF Labels, OnPath
  <2> QED BY <1>3, <1>4, <2>1, <2>2, <2>3, <2>4
<1>9. CASE CxxIsDir(p)
  <2>1. pc[p] = "is_dir" /\ UNCHANGED node /\ (Advance(p) \/ Return(p, FALSE))
    BY <1>9 DEF CxxIsDir
  <2> QED BY <1>2, <1>3, <1>4, <2>1
<1> QED BY <1>5, <1>6, <1>7, <1>8, <1>9 DEF Step

LEMMA BeginKeepsTypes ==
  ASSUME IInv, NEW p \in Proc, NEW c \in Requests, Begin(p, c)
  PROVE  IInv'
<1>1. TypeOK /\ OnPath /\ c \in Request /\ c.build \in {"cxx", "c"} /\ c.parts \in Paths
  BY RequestsAssumption DEF IInv, Request
<1>2. /\ call' \in [Proc -> Request] /\ call'[p] = c /\ at' \in [Proc -> 0..MaxDepth] /\ at'[p] = 0
      /\ pc' \in [Proc -> Labels \cup {"idle", "done", "dead"}] /\ ok' \in [Proc -> BOOLEAN]
      /\ pc'[p] \in {"done", "mkdir", "status"} /\ (pc'[p] = "mkdir" => c.build = "c" /\ ~Refused(c))
      /\ hindered' \in [Proc -> BOOLEAN] /\ nCalls' \in 0..MaxCalls
      /\ UNCHANGED <<tree, nEnv>>
      /\ \A r \in Proc : r # p => call'[r] = call[r] /\ at'[r] = at[r] /\ pc'[r] = pc[r]
  <2>1. /\ call' \in [Proc -> Request] /\ call'[p] = c
        /\ \A r \in Proc : r # p => call'[r] = call[r]
    BY <1>1 DEF Begin, TypeOK
  <2>2. /\ at' \in [Proc -> 0..MaxDepth] /\ at'[p] = 0
        /\ \A r \in Proc : r # p => at'[r] = at[r]
    BY <1>1, BoundsAssumption DEF Begin, TypeOK
  <2>3. PICK l \in {"done", "mkdir", "status"} :
           pc' = [pc EXCEPT ![p] = l] /\ (l = "mkdir" => c.build = "c" /\ ~Refused(c))
    BY <1>1 DEF Begin
  <2>4. /\ pc' \in [Proc -> Labels \cup {"idle", "done", "dead"}]
        /\ pc'[p] \in {"done", "mkdir", "status"} /\ (pc'[p] = "mkdir" => c.build = "c" /\ ~Refused(c))
        /\ \A r \in Proc : r # p => pc'[r] = pc[r]
    BY <1>1, <2>3 DEF TypeOK, Labels
  <2>5. Obstructed(c.parts) \in BOOLEAN
    BY DEF Obstructed
  <2>6. ok' \in [Proc -> BOOLEAN] /\ hindered' \in [Proc -> BOOLEAN]
    BY <1>1, <2>5 DEF Begin, TypeOK
  <2>7. nCalls' \in 0..MaxCalls /\ UNCHANGED <<tree, nEnv>>
    BY <1>1, BoundsAssumption DEF Begin, TypeOK
  <2> QED BY <2>1, <2>2, <2>4, <2>6, <2>7
<1>3. pc'[p] = "mkdir" => 0 < Len(c.parts)
  <2>1. pc'[p] = "mkdir" => c.parts # <<>>
    BY <1>2 DEF Refused
  <2>2. c.parts \in Seq(Comp)
    BY <1>1, PathFacts
  <2> QED BY <2>1, <2>2
<1>4. TypeOK'
  BY <1>1, <1>2, <1>3 DEF TypeOK, Parts, tree
<1>5. OnPath'
  BY <1>1, <1>2, <1>3 DEF OnPath, Parts
<1> QED BY <1>4, <1>5 DEF IInv

LEMMA OthersKeepTypes ==
  ASSUME IInv, NEW q \in Place, EnvRemove(q) \/ EnvFile(q)
  PROVE  IInv'
<1>1. TypeOK /\ OnPath /\ Elsewhere(q)
  BY DEF IInv, EnvRemove, EnvFile
<1>2. hindered' \in [Proc -> BOOLEAN] /\ nEnv' \in 0..MaxEnv /\ UNCHANGED <<sealed, call, pc, at, ok, nCalls>>
  BY <1>1, BoundsAssumption DEF Elsewhere, TypeOK
<1>3. TypeOK'
  BY <1>1, <1>2, OthersInTree DEF TypeOK, Parts
<1>4. OnPath'
  BY <1>1, <1>2 DEF OnPath, Parts
<1> QED BY <1>3, <1>4 DEF IInv

LEMMA CrashKeepsTypes ==
  ASSUME IInv, NEW p \in Proc, Crash(p)
  PROVE  IInv'
<1>1. TypeOK /\ OnPath /\ Busy(p) /\ UNCHANGED <<tree, call, at, ok, nCalls, nEnv, hindered>>
  BY DEF IInv, Crash
<1>2. /\ pc' \in [Proc -> Labels \cup {"idle", "done", "dead"}] /\ pc'[p] = "dead"
      /\ \A r \in Proc : r # p => pc'[r] = pc[r]
  BY <1>1 DEF Crash, TypeOK
<1>3. TypeOK'
  BY <1>1, <1>2 DEF TypeOK, Parts, tree
<1>4. OnPath'
  BY <1>1, <1>2 DEF OnPath, Parts, Busy, Labels
<1> QED BY <1>3, <1>4 DEF IInv

LEMMA InvInit == Init => IInv
<1> SUFFICES ASSUME Init PROVE IInv
  OBVIOUS
<1>1. PICK t \in Trees : node = t.node /\ sealed = t.sealed
  BY DEF Init
<1>2. node \in [Place -> Kind] /\ sealed \in SUBSET Paths /\ WellFormed([node |-> node])
  BY <1>1, TreesAssumption DEF WellFormed
<1>3. <<>> \in Paths
  BY BoundsAssumption DEF Paths
<1>4. call \in [Proc -> Request]
  BY <1>3 DEF Init, Request
<1> QED BY <1>2, <1>4, BoundsAssumption DEF Init, IInv, TypeOK, OnPath

LEMMA InvNext ==
  ASSUME IInv, [Next]_vars
  PROVE  IInv'
<1>1. CASE UNCHANGED vars
  BY <1>1 DEF IInv, TypeOK, OnPath, Parts, vars, tree, WellFormed
<1>2. CASE Next
  BY <1>2, PlacesAssumption, StepKeepsTypes, BeginKeepsTypes, OthersKeepTypes, CrashKeepsTypes DEF Next
<1> QED BY <1>1, <1>2

-----------------------------------------------------------------------------
(***************************************************************************)
(* Causes.                                                                 *)
(***************************************************************************)
(* Free, for one call.                                                     *)
FreeOne(p) ==
  ~hindered[p] /\ ~Refused(call[p]) =>
    /\ pc[p] \in Labels => ~Obstructed(Parts(p))
    /\ pc[p] \in {"mkdir", "is_dir"} => IsDir(Prefix(Parts(p), at[p]))
    /\ pc[p] = "is_dir" => node[Prefix(Parts(p), at[p] + 1)] # "none"
    /\ pc[p] = "done" => ok[p]

(* What is not in the way, on a path without obstruction.                  *)
LEMMA Unobstructed ==
  ASSUME TypeOK, NEW q \in Paths, ~Obstructed(q), NEW k \in 0..Len(q)
  PROVE  /\ Prefix(q, k) \notin sealed
         /\ k > 0 => node[Prefix(q, k)] \in {"none", "dir"}
<1>1. k > 0 => Prefix(q, k) \in Place
  BY PrefixFacts
<1> QED BY <1>1 DEF Obstructed, TypeOK, Kind

(* The library only adds directories.                                      *)
Grows ==
  /\ UNCHANGED sealed
  /\ \A q \in Place : node'[q] = node[q] \/ (node[q] = "none" /\ node'[q] = "dir")

LEMMA GrowthHinders ==
  ASSUME TypeOK, Grows, NEW q \in Paths
  PROVE  /\ ~Obstructed(q) => ~Obstructed(q)'
         /\ IsDir(q) => IsDir(q)'
         /\ q \in Place /\ node[q] # "none" => node'[q] # "none"
<1>1. \A k \in 0..Len(q) : k > 0 => Prefix(q, k) \in Place
  BY PrefixFacts
<1>2. ~Obstructed(q) => ~Obstructed(q)'
  BY <1>1 DEF Grows, Obstructed
<1>3. IsDir(q) => IsDir(q)'
  BY DEF IsDir, Grows, Place
<1> QED BY <1>2, <1>3 DEF Grows

LEMMA GrowthKeepsFree ==
  ASSUME IInv, Grows, NEW r \in Proc, FreeOne(r),
         UNCHANGED <<call, hindered>>, pc'[r] = pc[r], at'[r] = at[r], ok'[r] = ok[r]
  PROVE  FreeOne(r)'
<1>1. TypeOK /\ OnPath /\ Parts(r) \in Paths /\ Parts(r)' = Parts(r)
  BY CallFacts DEF IInv, Parts
<1>2. pc[r] \in {"mkdir", "is_dir"} =>
        Prefix(Parts(r), at[r]) \in Paths /\ Prefix(Parts(r), at[r] + 1) \in Place \cap Paths
  BY <1>1, AheadFacts DEF Place
<1>3. SUFFICES ASSUME ~hindered[r], ~Refused(call[r])
               PROVE  FreeOne(r)'
  BY DEF FreeOne
<1>4. pc[r] \in Labels => ~Obstructed(Parts(r))'
  BY <1>1, <1>3, GrowthHinders DEF FreeOne
<1>6. pc[r] \in {"mkdir", "is_dir"} => IsDir(Prefix(Parts(r), at[r]))'
  BY <1>1, <1>2, <1>3, GrowthHinders DEF FreeOne
<1>7. pc[r] = "is_dir" => node'[Prefix(Parts(r), at[r] + 1)] # "none"
  BY <1>1, <1>2, <1>3, GrowthHinders DEF FreeOne
<1> QED BY <1>1, <1>3, <1>4, <1>6, <1>7 DEF FreeOne, Prefix

(* The next component is there: what is behind the call grows by it.       *)
LEMMA AdvanceKeepsFree ==
  ASSUME IInv, Grows, NEW p \in Proc, FreeOne(p), pc[p] \in {"mkdir", "is_dir"}, Advance(p),
         UNCHANGED <<call, hindered>>,
         ~hindered[p] /\ ~Refused(call[p]) => node'[Prefix(Parts(p), at[p] + 1)] = "dir"
  PROVE  FreeOne(p)'
<1>1. TypeOK /\ OnPath /\ Parts(p) \in Paths /\ Parts(p)' = Parts(p)
  BY CallFacts DEF IInv, Parts
<1>2. SUFFICES ASSUME ~hindered[p], ~Refused(call[p])
               PROVE  FreeOne(p)'
  BY DEF FreeOne
<1>3. CASE Return(p, TRUE)
  <2>1. pc'[p] = "done" /\ ok'[p]
    BY <1>1, <1>3 DEF Return, TypeOK
  <2> QED BY <2>1 DEF FreeOne, Labels
<1>4. CASE Goto(p, "mkdir", at[p] + 1)
  <2>1. pc'[p] = "mkdir" /\ at'[p] = at[p] + 1
    BY <1>1, <1>4 DEF Goto, TypeOK
  <2>2. ~Obstructed(Parts(p))'
    BY <1>1, <1>2, GrowthHinders DEF FreeOne, Labels
  <2>3. IsDir(Prefix(Parts(p), at[p]))'
    <3>1. node'[Prefix(Parts(p)', at'[p])] = "dir"
      BY <1>1, <1>2, <2>1
    <3> QED BY <3>1 DEF IsDir, Prefix
  <2> QED BY <2>1, <2>2, <2>3 DEF FreeOne
<1> QED BY <1>1, <1>3, <1>4, AdvanceFacts

(* A call goes on, or returns an answer that it may return.                *)
LEMMA TurnKeepsFree ==
  ASSUME IInv, Grows, NEW p \in Proc, FreeOne(p), pc[p] \in Labels, UNCHANGED <<call, hindered>>,
         \/ \E b \in BOOLEAN : Return(p, b) /\ (~hindered[p] /\ ~Refused(call[p]) => b)
         \/ \E n \in 0..MaxDepth : Goto(p, "scan", n)
         \/ \E n \in 0..Len(Parts(p)) : n <= MaxDepth /\ Goto(p, "mkdir", n) /\ IsDir(Prefix(Parts(p), n))
         \/ /\ Goto(p, "is_dir", at[p]) /\ pc[p] = "mkdir"
            /\ node[Prefix(Parts(p), at[p] + 1)] # "none"
  PROVE  FreeOne(p)'
<1>1. TypeOK /\ OnPath /\ Parts(p) \in Paths /\ Parts(p)' = Parts(p)
  BY CallFacts DEF IInv, Parts
<1>2. SUFFICES ASSUME ~hindered[p], ~Refused(call[p])
               PROVE  FreeOne(p)'
  BY DEF FreeOne
<1>3. ~Obstructed(Parts(p))'
  BY <1>1, <1>2, GrowthHinders DEF FreeOne
<1>4. ASSUME NEW b \in BOOLEAN, Return(p, b), b
      PROVE  FreeOne(p)'
  <2>1. pc'[p] = "done" /\ ok'[p]
    BY <1>1, <1>4 DEF Return, TypeOK
  <2> QED BY <2>1 DEF FreeOne, Labels
<1>5. ASSUME NEW n \in 0..MaxDepth, Goto(p, "scan", n)
      PROVE  FreeOne(p)'
  <2>1. pc'[p] = "scan"
    BY <1>1, <1>5 DEF Goto, TypeOK
  <2> QED BY <1>3, <2>1 DEF FreeOne
<1>6. ASSUME NEW n \in 0..Len(Parts(p)), n <= MaxDepth, Goto(p, "mkdir", n), IsDir(Prefix(Parts(p), n))
      PROVE  FreeOne(p)'
  <2>1. pc'[p] = "mkdir" /\ at'[p] = n
    BY <1>1, <1>6 DEF Goto, TypeOK
  <2>2. Prefix(Parts(p), n) \in Paths
    BY <1>1, PrefixFacts
  <2>3. Prefix(Parts(p), at[p])' = Prefix(Parts(p), n)
    BY <1>1, <2>1 DEF Prefix
  <2>4. Prefix(Parts(p), n) # <<>> => node'[Prefix(Parts(p), n)] = "dir"
    BY <1>6, <2>2 DEF IsDir, Grows, Place
  <2>5. IsDir(Prefix(Parts(p), at[p]))'
    BY <2>3, <2>4 DEF IsDir
  <2> QED BY <1>3, <2>1, <2>5 DEF FreeOne
<1>7. ASSUME Goto(p, "is_dir", at[p]), pc[p] = "mkdir", node[Prefix(Parts(p), at[p] + 1)] # "none"
      PROVE  FreeOne(p)'
  <2>1. pc'[p] = "is_dir" /\ at'[p] = at[p]
    BY <1>1, <1>7 DEF Goto, TypeOK
  <2>2. Prefix(Parts(p), at[p]) \in Paths /\ Prefix(Parts(p), at[p] + 1) \in Place \cap Paths
    BY <1>1, <1>7, AheadFacts DEF Place
  <2>3. IsDir(Prefix(Parts(p), at[p])) => IsDir(Prefix(Parts(p), at[p]))'
    BY <1>1, <2>1, <2>2, GrowthHinders DEF Prefix, IsDir
  <2>4. node'[Prefix(Parts(p), at[p] + 1)] # "none"
    BY <1>1, <1>7, <2>2, GrowthHinders
  <2> QED BY <1>1, <1>2, <1>3, <1>7, <2>1, <2>3, <2>4 DEF FreeOne, Prefix
<1> QED BY <1>2, <1>4, <1>5, <1>6, <1>7

LEMMA DoesGrows ==
  ASSUME TypeOK, NEW q \in Place, MkdirDoes(q), UNCHANGED sealed
  PROVE  /\ Grows
         /\ MkdirReports(q) = "made" => node'[q] = "dir"
         /\ MkdirReports(q) = "EEXIST" => node[q] # "none" /\ IsDir(Parent(q))
BY MadeInTree DEF Grows, TypeOK, MkdirReports

(* What mkdir(2) may report where nothing is in the way.                   *)
LEMMA ReportsNoObstacle ==
  ASSUME TypeOK, OnPath, NEW p \in Proc, pc[p] = "mkdir", FreeOne(p), ~hindered[p], ~Refused(call[p])
  PROVE  MkdirReports(Prefix(Parts(p), at[p] + 1)) \in {"made", "EEXIST"}
<1>1. ~Obstructed(Parts(p)) /\ IsDir(Prefix(Parts(p), at[p])) /\ Parts(p) \in Paths
  BY CallFacts DEF FreeOne, Labels
<1>2. /\ Parent(Prefix(Parts(p), at[p] + 1)) = Prefix(Parts(p), at[p])
      /\ at[p] \in 0..Len(Parts(p))
  BY AheadFacts
<1>3. Prefix(Parts(p), at[p]) \notin sealed
  BY <1>1, <1>2, Unobstructed
<1> QED BY <1>1, <1>2, <1>3 DEF MkdirReports

LEMMA StepKeepsFree ==
  ASSUME IInv, Free, NEW p \in Proc, Step(p)
  PROVE  Free'
<1>1. /\ TypeOK /\ OnPath /\ UNCHANGED <<sealed, call, hindered>> /\ FreeOne(p)
      /\ Parts(p) \in Paths /\ Len(Parts(p)) \in Nat /\ Len(Parts(p)) <= MaxDepth
      /\ at[p] \in 0..MaxDepth /\ MaxDepth \in Nat
  BY CallFacts, BoundsAssumption DEF IInv, Step, Free, FreeOne, TypeOK
<1>2. pc[p] \in Labels
  BY DEF Step, CMkdir, CxxStatus, CxxScan, CxxMkdir, CxxIsDir, Labels
<1>3. Grows /\ FreeOne(p)'
  <2>1. ASSUME pc[p] = "mkdir"
        PROVE  /\ at[p] + 1 \in 0..Len(Parts(p)) /\ at[p] + 1 > 0
               /\ Prefix(Parts(p), at[p] + 1) \in Place
               /\ ~Obstructed(Parts(p)) => node[Prefix(Parts(p), at[p] + 1)] \in {"none", "dir"}
    BY <1>1, <2>1, AheadFacts, Unobstructed DEF OnPath
  <2>2. CASE CMkdir(p)
    <3> DEFINE q == Prefix(Parts(p), at[p] + 1)
    <3>1. pc[p] = "mkdir" /\ MkdirDoes(q) /\ q \in Place
      BY <2>1, <2>2 DEF CMkdir
    <3>2. Grows
      BY <1>1, <3>1, DoesGrows
    <3>3. ~hindered[p] /\ ~Refused(call[p]) => node'[q] = "dir" /\ Tolerated(p, MkdirReports(q))
      <4>1. SUFFICES ASSUME ~hindered[p], ~Refused(call[p])
                     PROVE  node'[q] = "dir" /\ Tolerated(p, MkdirReports(q))
        OBVIOUS
      <4>2. MkdirReports(q) \in {"made", "EEXIST"}
        BY <1>1, <3>1, <4>1, ReportsNoObstacle
      <4>3. node[q] \in {"none", "dir"}
        BY <1>1, <2>1, <3>1, <4>1 DEF FreeOne, Labels
      <4> QED BY <1>1, <3>1, <3>2, <4>2, <4>3, DoesGrows DEF Tolerated, Grows
    <3>4. CASE Tolerated(p, MkdirReports(q)) /\ Advance(p)
      BY <1>1, <3>1, <3>2, <3>3, <3>4, AdvanceKeepsFree
    <3>5. CASE ~Tolerated(p, MkdirReports(q)) /\ Return(p, FALSE)
      BY <1>1, <1>2, <3>2, <3>3, <3>5, TurnKeepsFree
    <3> QED BY <2>2, <3>2, <3>4, <3>5 DEF CMkdir
  <2>3. CASE CxxStatus(p)
    <3>1. Grows
      BY <1>1, <2>3 DEF CxxStatus, Grows
    <3>2. CASE IsDir(Parts(p)) /\ Return(p, TRUE)
      BY <1>1, <1>2, <3>1, <3>2, TurnKeepsFree
    <3>3. CASE ~IsDir(Parts(p)) /\ node[Parts(p)] = "file" /\ Return(p, FALSE)
      <4>1. Len(Parts(p)) \in 0..Len(Parts(p)) /\ Prefix(Parts(p), Len(Parts(p))) = Parts(p) /\ Len(Parts(p)) > 0
        BY <1>1, <3>3, PathFacts DEF IsDir
      <4>2. Obstructed(Parts(p))
        BY <3>3, <4>1 DEF Obstructed
      <4> QED BY <1>1, <1>2, <3>1, <3>3, <4>2, TurnKeepsFree DEF FreeOne
    <3>4. CASE ~IsDir(Parts(p)) /\ Goto(p, "scan", Len(Parts(p)) - 1)
      <4>1. Len(Parts(p)) # 0
        BY <1>1, <3>4, PathFacts DEF IsDir
      <4>2. Len(Parts(p)) - 1 \in 0..MaxDepth
        BY <1>1, <4>1
      <4> QED BY <1>1, <1>2, <3>1, <3>4, <4>2, TurnKeepsFree
    <3> QED BY <2>3, <3>1, <3>2, <3>3, <3>4 DEF CxxStatus
  <2>4. CASE CxxScan(p)
    <3>1. Grows /\ pc[p] = "scan"
      BY <1>1, <2>4 DEF CxxScan, Grows
    <3>2. at[p] \in 0..Len(Parts(p))
      BY <1>1, <3>1, AheadFacts
    <3>3. CASE IsDir(Prefix(Parts(p), at[p])) /\ Goto(p, "mkdir", at[p])
      BY <1>1, <1>2, <3>1, <3>2, <3>3, TurnKeepsFree
    <3>4. CASE ~IsDir(Prefix(Parts(p), at[p])) /\ node[Prefix(Parts(p), at[p])] = "file" /\ Return(p, FALSE)
      <4>1. at[p] > 0
        BY <1>1, <3>2, <3>4, PrefixFacts DEF IsDir
      <4>2. Obstructed(Parts(p))
        BY <3>2, <3>4, <4>1 DEF Obstructed
      <4> QED BY <1>1, <1>2, <3>1, <3>4, <4>2, TurnKeepsFree DEF FreeOne
    <3>5. CASE ~IsDir(Prefix(Parts(p), at[p])) /\ Goto(p, "scan", at[p] - 1)
      <4>1. at[p] # 0
        BY <1>1, <3>2, <3>5, PrefixFacts DEF IsDir
      <4>2. at[p] - 1 \in 0..MaxDepth
        BY <1>1, <4>1
      <4> QED BY <1>1, <1>2, <3>1, <3>5, <4>2, TurnKeepsFree
    <3> QED BY <2>4, <3>1, <3>3, <3>4, <3>5 DEF CxxScan
  <2>5. CASE CxxMkdir(p)
    <3> DEFINE q == Prefix(Parts(p), at[p] + 1)
    <3>1. pc[p] = "mkdir" /\ MkdirDoes(q) /\ q \in Place
      BY <2>1, <2>5 DEF CxxMkdir
    <3>2. Grows
      BY <1>1, <3>1, DoesGrows
    <3>3. CASE MkdirReports(q) = "made" /\ Advance(p)
      BY <1>1, <3>1, <3>2, <3>3, DoesGrows, AdvanceKeepsFree
    <3>4. CASE MkdirReports(q) = "EEXIST" /\ Goto(p, "is_dir", at[p])
      BY <1>1, <1>2, <3>1, <3>2, <3>4, DoesGrows, TurnKeepsFree
    <3>5. CASE MkdirReports(q) \notin {"made", "EEXIST"} /\ Return(p, FALSE)
      BY <1>1, <1>2, <3>1, <3>2, <3>5, ReportsNoObstacle, TurnKeepsFree
    <3> QED BY <2>5, <3>2, <3>3, <3>4, <3>5 DEF CxxMkdir, AsksAgain
  <2>6. CASE CxxIsDir(p)
    <3> DEFINE q == Prefix(Parts(p), at[p] + 1)
    <3>1. Grows /\ pc[p] = "is_dir" /\ UNCHANGED node
      BY <1>1, <2>6 DEF CxxIsDir, Grows
    <3>2. q \in Place /\ q # <<>> /\ at[p] + 1 \in 0..Len(Parts(p)) /\ at[p] + 1 > 0
      BY <1>1, <3>1, AheadFacts DEF Place, OnPath
    <3>3. CASE IsDir(q) /\ Advance(p)
      BY <1>1, <3>1, <3>2, <3>3, AdvanceKeepsFree DEF IsDir
    <3>4. CASE ~IsDir(q) /\ Return(p, FALSE)
      <4>1. ~hindered[p] /\ ~Refused(call[p]) => node[q] \in {"none", "dir"} /\ node[q] # "none"
        BY <1>1, <1>2, <3>1, <3>2, Unobstructed DEF FreeOne
      <4> QED BY <1>1, <1>2, <3>1, <3>2, <3>4, <4>1, TurnKeepsFree DEF IsDir
    <3> QED BY <2>6, <3>1, <3>3, <3>4 DEF CxxIsDir, SomeoneMade
  <2> QED BY <2>2, <2>3, <2>4, <2>5, <2>6 DEF Step
<1>4. ASSUME NEW r \in Proc, r # p
      PROVE  FreeOne(r)'
  <2>1. pc'[r] = pc[r] /\ at'[r] = at[r] /\ ok'[r] = ok[r]
    BY <1>1, <1>4 DEF Step, CMkdir, CxxStatus, CxxScan, CxxMkdir, CxxIsDir, Advance, Goto, Return, TypeOK
  <2>2. FreeOne(r)
    BY DEF Free, FreeOne
  <2> QED BY <1>1, <1>3, <2>1, <2>2, GrowthKeepsFree
<1> QED BY <1>3, <1>4 DEF Free, FreeOne

LEMMA BeginKeepsFree ==
  ASSUME IInv, Free, NEW p \in Proc, NEW c \in Requests, Begin(p, c)
  PROVE  Free'
<1>1. TypeOK /\ OnPath /\ UNCHANGED tree
  BY DEF IInv, Begin
<1>2. /\ call'[p] = c /\ at'[p] = 0 /\ hindered'[p] = Obstructed(c.parts)
      /\ pc'[p] \in {"done", "mkdir", "status"} /\ (pc'[p] = "done" => Refused(c))
  BY <1>1 DEF Begin, TypeOK
<1>3. FreeOne(p)'
  <2>1. Parts(p)' = c.parts /\ c.parts \in Paths
    BY <1>2, RequestsAssumption DEF Parts, Request
  <2>2. Prefix(c.parts, 0) = <<>>
    BY <2>1, PathFacts, PrefixFacts, BoundsAssumption
  <2>3. Obstructed(Parts(p))' = Obstructed(c.parts)
    BY <1>1, <2>1 DEF Obstructed, tree
  <2>4. IsDir(Prefix(Parts(p), at[p]))'
    BY <1>2, <2>1, <2>2 DEF IsDir
  <2> QED BY <1>2, <2>3, <2>4 DEF FreeOne
<1>4. ASSUME NEW r \in Proc, r # p
      PROVE  FreeOne(r)'
  <2>1. /\ call'[r] = call[r] /\ pc'[r] = pc[r] /\ at'[r] = at[r] /\ ok'[r] = ok[r]
        /\ hindered'[r] = hindered[r]
    BY <1>1, <1>4 DEF Begin, TypeOK
  <2> QED BY <1>1, <2>1 DEF Free, FreeOne, Parts, Obstructed, IsDir, Prefix, tree
<1> QED BY <1>3, <1>4 DEF Free, FreeOne

(* Whatever others change on the path of a call hinders it.                *)
LEMMA OthersKeepFree ==
  ASSUME IInv, Free, NEW q \in Place, EnvRemove(q) \/ EnvFile(q)
  PROVE  Free'
<1>1. /\ TypeOK /\ OnPath /\ UNCHANGED <<sealed, call, pc, at, ok>>
      /\ \A r \in Place : r # q => node'[r] = node[r]
  BY DEF IInv, EnvRemove, EnvFile, Elsewhere, TypeOK
<1>2. hindered' = [p \in Proc |-> hindered[p] \/ \E k \in 1..Len(Parts(p)) : q = Prefix(Parts(p), k)]
  BY DEF EnvRemove, EnvFile, Elsewhere
<1>3. ASSUME NEW p \in Proc
      PROVE  FreeOne(p)'
  <2>1. SUFFICES ASSUME ~hindered'[p], ~Refused(call[p])
                 PROVE  FreeOne(p)'
    BY <1>1 DEF FreeOne, Refused
  <2>2. ~hindered[p] /\ \A k \in 1..Len(Parts(p)) : q # Prefix(Parts(p), k)
    BY <1>2, <2>1
  <2>3. Parts(p) \in Paths /\ Parts(p)' = Parts(p) /\ Len(Parts(p)) \in Nat
    BY <1>1, CallFacts DEF Parts
  <2>4. \A k \in 1..Len(Parts(p)) : node'[Prefix(Parts(p), k)] = node[Prefix(Parts(p), k)]
    <3>1. \A k \in 1..Len(Parts(p)) : Prefix(Parts(p), k) \in Place /\ k \in 0..Len(Parts(p))
      BY <2>3, PrefixFacts
    <3> QED BY <1>1, <2>2, <3>1
  <2>5. Obstructed(Parts(p))' = Obstructed(Parts(p))
    <3>1. \A k \in 0..Len(Parts(p)) : k > 0 => k \in 1..Len(Parts(p))
      BY <2>3
    <3> QED BY <1>1, <2>3, <2>4, <3>1 DEF Obstructed, Prefix
  <2>6. pc[p] \in {"mkdir", "is_dir"} => IsDir(Prefix(Parts(p), at[p]))' = IsDir(Prefix(Parts(p), at[p]))
    <3>1. ASSUME pc[p] \in {"mkdir", "is_dir"}
          PROVE  IsDir(Prefix(Parts(p), at[p]))' = IsDir(Prefix(Parts(p), at[p]))
      <4>1. at[p] \in 0..Len(Parts(p))
        BY <1>1, <3>1, AheadFacts
      <4>2. CASE at[p] = 0
        BY <1>1, <2>3, <4>1, <4>2, PrefixFacts DEF IsDir, Prefix
      <4>3. CASE at[p] \in 1..Len(Parts(p))
        BY <1>1, <2>3, <2>4, <4>3 DEF IsDir, Prefix
      <4> QED BY <2>3, <4>1, <4>2, <4>3
    <3> QED BY <3>1
  <2>7. pc[p] = "is_dir" => node'[Prefix(Parts(p), at[p] + 1)] = node[Prefix(Parts(p), at[p] + 1)]
    BY <1>1, <2>4, AheadFacts
  <2>8. FreeOne(p)
    BY DEF Free, FreeOne
  <2> QED BY <1>1, <2>1, <2>2, <2>3, <2>5, <2>6, <2>7, <2>8 DEF FreeOne
<1> QED BY <1>3 DEF Free, FreeOne

LEMMA FreeNext ==
  ASSUME IInv, Free, [Next]_vars
  PROVE  Free'
<1>1. CASE UNCHANGED vars
  BY <1>1 DEF Free, Obstructed, Parts, IsDir, Prefix, Refused, vars, tree
<1>2. ASSUME NEW p \in Proc, Crash(p)
      PROVE  Free'
  <2>1. UNCHANGED <<tree, call, at, ok, hindered>> /\ pc' = [pc EXCEPT ![p] = "dead"]
    BY <1>2 DEF Crash
  <2>2. \A r \in Proc : pc'[r] \in {pc[r], "dead"}
    BY <2>1 DEF IInv, TypeOK
  <2> QED BY <2>1, <2>2 DEF Free, Obstructed, Parts, IsDir, Prefix, Labels, tree
<1>3. CASE Next
  BY <1>2, <1>3, PlacesAssumption, StepKeepsFree, BeginKeepsFree, OthersKeepFree DEF Next
<1> QED BY <1>1, <1>3

LEMMA FreeInit == Init => Free
BY DEF Init, Free, Refused

LEMMA Always == Spec => [](IInv /\ Free)
<1>1. Init => IInv /\ Free
  BY InvInit, FreeInit
<1>2. IInv /\ Free /\ [Next]_vars => (IInv /\ Free)'
  BY InvNext, FreeNext
<1> QED BY <1>1, <1>2, PTL DEF Spec

(* The tree stays a tree, and a call stays on its path, however calls and  *)
(* others interleave (mkdir.cpp:51).                                       *)
THEOREM MkdirTypes == Spec => []TypeOK
<1>1. IInv => TypeOK
  BY DEF IInv
<1> QED BY <1>1, Always, PTL

(* A call fails only if something on its path was a file or not writable,  *)
(* or was removed or made a file meanwhile: never because of other calls   *)
(* (mkdir.cpp:75).                                                         *)
THEOREM FailuresHaveCauses == Spec => []FailureHasCause
<1>1. Free => FailureHasCause
  BY DEF Free, FailureHasCause
<1> QED BY <1>1, Always, PTL

-----------------------------------------------------------------------------
(***************************************************************************)
(* The promise.                                                            *)
(***************************************************************************)
Dirs     == {q \in Place : node[q] = "dir"}
Asked    == [p \in Proc |-> Parts(p)]
Said(p)  == IF Busy(p) THEN "busy"
            ELSE IF pc[p] # "done" THEN pc[p]
            ELSE IF ok[p] THEN "yes" ELSE "no"
Answer   == [p \in Proc |-> Said(p)]

(* No file where the C build is asked for a directory.                     *)
NoFile ==
  \A c \in Requests : c.build = "c" /\ c.parts # <<>> => node[c.parts] # "file"

LEMMA NoFileNext ==
  ASSUME NoFileAtEnd, IInv, NoFile, [Next]_vars
  PROVE  NoFile'
<1>1. CASE UNCHANGED vars
  BY <1>1 DEF NoFile, vars, tree
<1>2. ASSUME NEW p \in Proc, Step(p)
      PROVE  NoFile'
  <2>1. /\ TypeOK /\ OnPath /\ UNCHANGED sealed
    BY <1>2 DEF IInv, Step
  <2>2. UNCHANGED node \/ (pc[p] = "mkdir" /\ MkdirDoes(Prefix(Parts(p), at[p] + 1)))
    BY <1>2 DEF Step, CMkdir, CxxStatus, CxxScan, CxxMkdir, CxxIsDir
  <2>3. \A q \in Place : node'[q] = node[q] \/ node'[q] = "dir"
    BY <2>1, <2>2, AheadFacts, DoesGrows DEF Grows
  <2>4. \A c \in Requests : c.parts # <<>> => c.parts \in Place
    BY RequestsAssumption DEF Request, Place
  <2> QED BY <2>3, <2>4 DEF NoFile
<1>3. ASSUME NEW p \in Proc, (\E c \in Requests : Begin(p, c)) \/ Crash(p)
      PROVE  NoFile'
  BY <1>3 DEF NoFile, Begin, Crash, tree
<1>4. ASSUME NEW q \in Place, EnvRemove(q)
      PROVE  NoFile'
  BY <1>4, RequestsAssumption DEF NoFile, EnvRemove, IInv, TypeOK, Request, Place
<1>5. ASSUME NEW q \in FilePlaces, EnvFile(q)
      PROVE  NoFile'
  BY <1>5, RequestsAssumption, PlacesAssumption
  DEF NoFileAtEnd, NoFile, EnvFile, IInv, TypeOK, Request, Place
<1> QED BY <1>1, <1>2, <1>3, <1>4, <1>5 DEF Next

(* A directory that is there is there in the promise.                      *)
LEMMA ThereIsDir ==
  ASSUME NEW q \in Paths
  PROVE  Promise!There(q) <=> IsDir(q)
BY DEF Promise!There, IsDir, Place

LEMMA DirsGrow ==
  ASSUME TypeOK, NEW q \in Place, MkdirDoes(q)
  PROVE  /\ MkdirReports(q) = "made" => Dirs' = Dirs \cup {q}
         /\ MkdirReports(q) # "made" => Dirs' = Dirs
BY MadeInTree DEF Dirs, TypeOK

(* What a call does to the answers.                                        *)
LEMMA AnswersChange ==
  ASSUME TypeOK, NEW p \in Proc, Busy(p), UNCHANGED call
  PROVE  /\ Asked' = Asked /\ Answer[p] = "busy"
         /\ Return(p, TRUE) => Answer' = [Answer EXCEPT ![p] = "yes"]
         /\ Return(p, FALSE) => Answer' = [Answer EXCEPT ![p] = "no"]
         /\ \A l \in Labels : \A n : Goto(p, l, n) => Answer' = Answer
<1>1. Asked' = Asked /\ Answer[p] = "busy"
  BY DEF Asked, Parts, Answer, Said
<1>2. ASSUME NEW b \in BOOLEAN, Return(p, b)
      PROVE  Answer' = [Answer EXCEPT ![p] = IF b THEN "yes" ELSE "no"]
  <2>1. /\ pc'[p] = "done" /\ ok'[p] = b
        /\ \A r \in Proc : r # p => pc'[r] = pc[r] /\ ok'[r] = ok[r]
    BY <1>2 DEF Return, TypeOK
  <2> QED BY <2>1 DEF Answer, Said, Busy, Labels
<1>3. ASSUME NEW l \in Labels, NEW n, Goto(p, l, n)
      PROVE  Answer' = Answer
  <2>1. /\ pc'[p] = l /\ \A r \in Proc : r # p => pc'[r] = pc[r]
        /\ ok' = ok
    BY <1>3 DEF Goto, TypeOK
  <2> QED BY <2>1 DEF Answer, Said, Busy
<1> QED BY <1>1, <1>2, <1>3

(* What mkdir(2) makes is what the promise allows next.                    *)
LEMMA MadeIsNext ==
  ASSUME TypeOK, OnPath, NEW p \in Proc, pc[p] = "mkdir",
         MkdirReports(Prefix(Parts(p), at[p] + 1)) = "made"
  PROVE  Prefix(Parts(p), at[p] + 1) \in Promise!Next1(p)
<1> DEFINE q == Prefix(Parts(p), at[p] + 1)
<1>1. q \in Place /\ q \in Paths /\ Parent(q) \in Paths /\ at[p] + 1 \in 1..Len(Parts(p))
  BY AheadFacts, PlaceFacts
<1>2. ~IsDir(q) /\ IsDir(Parent(q))
  BY <1>1 DEF MkdirReports, IsDir, Place
<1>3. ~Promise!There(q) /\ Promise!There(Parent(q))
  BY <1>1, <1>2, ThereIsDir
<1>4. q \in {SubSeq(Asked[p], 1, k) : k \in 1..Len(Asked[p])}
  BY <1>1 DEF Asked, Prefix
<1> QED BY <1>3, <1>4 DEF Promise!Next1, Asked, Promise!Parent, Parent, Prefix

(* The steps of the promise, in terms of the refinement mapping.           *)
LEMMA PromiseSteps ==
  ASSUME NEW p \in Proc, Answer[p] = "busy", Asked' = Asked
  PROVE  /\ \A q \in Promise!Next1(p) : Answer' = Answer /\ Dirs' = Dirs \cup {q} => Promise!Grow(p)
         /\ \A q \in Promise!Next1(p) :
              q = Asked[p] /\ Answer' = [Answer EXCEPT ![p] = "yes"] /\ Dirs' = Dirs \cup {q}
                => Promise!SayYes(p)
         /\ Promise!There(Asked[p]) /\ Answer' = [Answer EXCEPT ![p] = "yes"] /\ Dirs' = Dirs
              => Promise!SayYes(p)
         /\ Answer' = [Answer EXCEPT ![p] = "no"] /\ Dirs' = Dirs => Promise!SayNo(p)
BY DEF Promise!Grow, Promise!SayYes, Promise!SayNo, Answer, Said, Asked, Dirs

LEMMA CallKeepsPromise ==
  ASSUME IInv, NoFile, NEW p \in Proc, Step(p)
  PROVE  \/ Promise!Grow(p) \/ Promise!SayYes(p) \/ Promise!SayNo(p)
         \/ UNCHANGED <<Dirs, Asked, Answer>>
<1>1. /\ TypeOK /\ OnPath /\ UNCHANGED <<sealed, call>> /\ Busy(p)
      /\ Parts(p) \in Paths /\ Prefix(Parts(p), Len(Parts(p))) = Parts(p) /\ Asked[p] = Parts(p)
  BY CallFacts, PathFacts DEF IInv, Step, CMkdir, CxxStatus, CxxScan, CxxMkdir, CxxIsDir, Busy, Labels, Asked
<1>2. /\ Asked' = Asked /\ Answer[p] = "busy"
      /\ Return(p, TRUE) => Answer' = [Answer EXCEPT ![p] = "yes"]
      /\ Return(p, FALSE) => Answer' = [Answer EXCEPT ![p] = "no"]
      /\ \A l \in Labels : \A n : Goto(p, l, n) => Answer' = Answer
  BY <1>1, AnswersChange
<1>3. UNCHANGED node => Dirs' = Dirs
  BY DEF Dirs
<1>4. ASSUME pc[p] \in {"mkdir", "is_dir"}, Advance(p), UNCHANGED node,
             at[p] + 1 = Len(Parts(p)) => IsDir(Parts(p))
      PROVE  Promise!SayYes(p) \/ UNCHANGED <<Dirs, Asked, Answer>>
  <2>1. CASE Return(p, TRUE) /\ at[p] + 1 = Len(Parts(p))
    BY <1>1, <1>2, <1>3, <1>4, <2>1, PromiseSteps, ThereIsDir
  <2>2. CASE Goto(p, "mkdir", at[p] + 1)
    BY <1>2, <1>3, <1>4, <2>2 DEF Labels
  <2> QED BY <1>1, <1>4, <2>1, <2>2, AdvanceFacts
<1>5. ASSUME pc[p] = "mkdir", MkdirDoes(Prefix(Parts(p), at[p] + 1)),
             MkdirReports(Prefix(Parts(p), at[p] + 1)) = "made", Advance(p)
      PROVE  Promise!Grow(p) \/ Promise!SayYes(p)
  <2>1. Prefix(Parts(p), at[p] + 1) \in Promise!Next1(p) /\ Prefix(Parts(p), at[p] + 1) \in Place
    BY <1>1, <1>5, MadeIsNext, AheadFacts
  <2>2. Dirs' = Dirs \cup {Prefix(Parts(p), at[p] + 1)}
    BY <1>1, <1>5, <2>1, DirsGrow
  <2>3. CASE Return(p, TRUE) /\ at[p] + 1 = Len(Parts(p))
    BY <1>1, <1>2, <2>1, <2>2, <2>3, PromiseSteps
  <2>4. CASE Goto(p, "mkdir", at[p] + 1)
    BY <1>2, <2>1, <2>2, <2>4, PromiseSteps DEF Labels
  <2> QED BY <1>1, <1>5, <2>3, <2>4, AdvanceFacts
<1>6. ASSUME Return(p, FALSE), UNCHANGED node
      PROVE  Promise!SayNo(p)
  BY <1>2, <1>3, <1>6, PromiseSteps
<1>7. CASE CMkdir(p)
  <2> DEFINE q == Prefix(Parts(p), at[p] + 1)
  <2>1. pc[p] = "mkdir" /\ MkdirDoes(q) /\ q \in Place /\ call[p].build = "c" /\ call[p] \in Requests
    BY <1>1, <1>7, AheadFacts DEF CMkdir, OnPath
  <2>2. MkdirReports(q) # "made" => UNCHANGED node
    BY <2>1 DEF MkdirDoes
  <2>3. CASE MkdirReports(q) = "made" /\ Advance(p)
    BY <1>5, <2>1, <2>3
  <2>4. CASE MkdirReports(q) # "made" /\ Tolerated(p, MkdirReports(q)) /\ Advance(p)
    <3>1. ASSUME at[p] + 1 = Len(Parts(p))
          PROVE  IsDir(Parts(p))
      <4>1. q = Parts(p) /\ Parts(p) # <<>>
        BY <1>1, <2>1, <3>1 DEF Place
      <4>2. MkdirReports(q) = "EEXIST"
        BY <2>4, <3>1 DEF Tolerated
      <4>3. node[Parts(p)] # "none" /\ node[Parts(p)] # "file"
        BY <2>1, <4>1, <4>2, DoesGrows DEF NoFile, Parts, MkdirReports
      <4> QED BY <1>1, <2>1, <4>1, <4>3 DEF IsDir, TypeOK, Kind
    <3> QED BY <1>4, <2>1, <2>2, <2>4, <3>1
  <2>5. CASE ~Tolerated(p, MkdirReports(q)) /\ Return(p, FALSE)
    <3>1. MkdirReports(q) # "made"
      BY <2>5 DEF Tolerated
    <3> QED BY <1>6, <2>2, <2>5, <3>1
  <2> QED BY <1>7, <2>3, <2>4, <2>5 DEF CMkdir
<1>8. CASE CxxStatus(p)
  <2>1. UNCHANGED node
    BY <1>8 DEF CxxStatus
  <2>2. CASE IsDir(Parts(p)) /\ Return(p, TRUE)
    BY <1>1, <1>2, <1>3, <2>1, <2>2, PromiseSteps, ThereIsDir
  <2>3. CASE Return(p, FALSE)
    BY <1>6, <2>1, <2>3
  <2>4. CASE Goto(p, "scan", Len(Parts(p)) - 1)
    BY <1>2, <1>3, <2>1, <2>4 DEF Labels
  <2> QED BY <1>8, <2>2, <2>3, <2>4 DEF CxxStatus
<1>9. CASE CxxScan(p)
  <2>1. UNCHANGED node
    BY <1>9 DEF CxxScan
  <2>2. CASE Return(p, FALSE)
    BY <1>6, <2>1, <2>2
  <2>3. CASE Goto(p, "mkdir", at[p]) \/ Goto(p, "scan", at[p] - 1)
    BY <1>2, <1>3, <2>1, <2>3 DEF Labels
  <2> QED BY <1>9, <2>2, <2>3 DEF CxxScan
<1>10. CASE CxxMkdir(p)
  <2> DEFINE q == Prefix(Parts(p), at[p] + 1)
  <2>1. pc[p] = "mkdir" /\ MkdirDoes(q)
    BY <1>10 DEF CxxMkdir
  <2>2. MkdirReports(q) # "made" => UNCHANGED node
    BY <2>1 DEF MkdirDoes
  <2>3. CASE MkdirReports(q) = "made" /\ Advance(p)
    BY <1>5, <2>1, <2>3
  <2>4. CASE MkdirReports(q) # "made" /\ Goto(p, "is_dir", at[p])
    BY <1>2, <1>3, <2>2, <2>4 DEF Labels
  <2>5. CASE MkdirReports(q) # "made" /\ Return(p, FALSE)
    BY <1>6, <2>2, <2>5
  <2> QED BY <1>10, <2>3, <2>4, <2>5 DEF CxxMkdir, AsksAgain
<1>11. CASE CxxIsDir(p)
  <2>1. UNCHANGED node /\ pc[p] = "is_dir"
    BY <1>11 DEF CxxIsDir
  <2>2. CASE IsDir(Prefix(Parts(p), at[p] + 1)) /\ Advance(p)
    BY <1>1, <1>4, <2>1, <2>2
  <2>3. CASE Return(p, FALSE)
    BY <1>6, <2>1, <2>3
  <2> QED BY <1>11, <2>2, <2>3 DEF CxxIsDir, SomeoneMade
<1> QED BY <1>7, <1>8, <1>9, <1>10, <1>11 DEF Step

LEMMA BeginAsks ==
  ASSUME IInv, NEW p \in Proc, NEW c \in Requests, Begin(p, c)
  PROVE  Promise!Ask(p, c.parts)
<1>1. TypeOK /\ pc[p] \in {"idle", "done"} /\ UNCHANGED node
  BY DEF IInv, Begin, tree
<1>2. /\ call'[p] = c /\ ok'[p] = FALSE /\ pc'[p] \in {"done", "mkdir", "status"}
      /\ \A r \in Proc : r # p => call'[r] = call[r] /\ pc'[r] = pc[r] /\ ok'[r] = ok[r]
  BY <1>1 DEF Begin, TypeOK
<1>3. Dirs' = Dirs /\ Answer[p] \in {"idle", "yes", "no"}
  BY <1>1 DEF Dirs, Answer, Said, Busy, Labels
<1>4. Asked' = [Asked EXCEPT ![p] = c.parts]
  BY <1>2 DEF Asked, Parts
<1>5. Answer' = [Answer EXCEPT ![p] = "busy"] \/ Answer' = [Answer EXCEPT ![p] = "no"]
  BY <1>2 DEF Answer, Said, Busy, Labels
<1> QED BY <1>3, <1>4, <1>5 DEF Promise!Ask, Dirs, Asked, Answer, Said

LEMMA CrashVanishes ==
  ASSUME IInv, NEW p \in Proc, Crash(p)
  PROVE  Promise!Vanish(p)
<1>1. TypeOK /\ Busy(p) /\ UNCHANGED <<tree, call, ok>>
  BY DEF IInv, Crash
<1>2. pc'[p] = "dead" /\ \A r \in Proc : r # p => pc'[r] = pc[r]
  BY <1>1 DEF Crash, TypeOK
<1>3. Dirs' = Dirs /\ Asked' = Asked /\ Answer[p] = "busy"
  BY <1>1 DEF Dirs, Asked, Parts, Answer, Said, tree
<1>4. Answer' = [Answer EXCEPT ![p] = "dead"]
  BY <1>1, <1>2 DEF Answer, Said, Busy, Labels
<1> QED BY <1>3, <1>4 DEF Promise!Vanish, Dirs, Asked, Answer, Said

LEMMA OthersRemove ==
  ASSUME IInv, NEW q \in Place, EnvRemove(q) \/ EnvFile(q)
  PROVE  (q \in Dirs /\ Promise!RemoveEmpty(q)) \/ UNCHANGED <<Dirs, Asked, Answer>>
<1>1. TypeOK /\ UNCHANGED <<call, pc, ok>>
  BY DEF IInv, EnvRemove, EnvFile, Elsewhere
<1>2. Asked' = Asked /\ Answer' = Answer
  BY <1>1 DEF Asked, Parts, Answer, Said, Busy
<1>3. CASE EnvRemove(q) /\ node[q] = "dir"
  <2>1. Dirs' = Dirs \ {q} /\ q \in Dirs
    BY <1>1, <1>3 DEF EnvRemove, Dirs, TypeOK
  <2>2. \A r \in Dirs : Promise!Parent(r) # q
    BY <1>3 DEF EnvRemove, Dirs, Promise!Parent, Parent, Prefix
  <2> QED BY <1>2, <2>1, <2>2 DEF Promise!RemoveEmpty, Dirs, Asked, Answer, Said
<1>4. CASE EnvFile(q) \/ (EnvRemove(q) /\ node[q] # "dir")
  <2>1. Dirs' = Dirs
    BY <1>1, <1>4 DEF EnvRemove, EnvFile, Dirs, TypeOK
  <2> QED BY <1>2, <2>1
<1> QED BY <1>3, <1>4

(* Each build, whatever crashes and whatever others remove, adds parents   *)
(* before children and answers yes only while the whole path is there, as  *)
(* long as nobody puts a file where the C build is to make a directory     *)
(* (mkdir.cpp:30).                                                         *)
THEOREM MkdirKeepsPromise == NoFileAtEnd => (Spec => KeepsPromise)
<1> SUFFICES ASSUME NoFileAtEnd
             PROVE  Spec => KeepsPromise
  OBVIOUS
<1>1. Init => Promise!Init /\ NoFile
  <2> SUFFICES ASSUME Init
               PROVE  Promise!Init /\ NoFile
    OBVIOUS
  <2>1. NoFile
    BY DEF Init, NoFile, NoFileAtEnd
  <2>2. IInv
    BY InvInit
  <2>3. \A q \in Dirs : q # <<>> /\ Promise!There(Promise!Parent(q))
    <3>1. ASSUME NEW q \in Dirs
          PROVE  q # <<>> /\ Promise!There(Parent(q))
      BY <2>2, <3>1, TreeFacts, PlaceFacts, ThereIsDir DEF IInv, Dirs, Place
    <3> QED BY <3>1 DEF Promise!Parent, Parent, Prefix
  <2>4. Asked = [p \in Proc |-> <<>>] /\ Answer = [p \in Proc |-> "idle"]
    BY DEF Init, Asked, Parts, Answer, Said, Busy, Labels
  <2> QED BY <2>1, <2>3, <2>4 DEF Promise!Init, Dirs, Asked, Answer, Said
<1>2. IInv /\ NoFile /\ [Next]_vars => NoFile'
  BY NoFileNext
<1>3. IInv /\ NoFile /\ [Next]_vars =>
        Promise!Next \/ UNCHANGED <<Dirs, Asked, Answer>>
  <2> SUFFICES ASSUME IInv, NoFile, [Next]_vars
               PROVE  Promise!Next \/ UNCHANGED <<Dirs, Asked, Answer>>
    OBVIOUS
  <2>1. CASE UNCHANGED vars
    BY <2>1 DEF vars, tree, Dirs, Asked, Parts, Answer, Said, Busy
  <2>2. ASSUME NEW p \in Proc, NEW c \in Requests, Begin(p, c)
        PROVE  Promise!Next
    BY <2>2, BeginAsks DEF Promise!Next
  <2>3. ASSUME NEW p \in Proc, Step(p)
        PROVE  Promise!Next \/ UNCHANGED <<Dirs, Asked, Answer>>
    BY <2>3, CallKeepsPromise DEF Promise!Next
  <2>4. ASSUME NEW p \in Proc, Crash(p)
        PROVE  Promise!Next
    BY <2>4, CrashVanishes DEF Promise!Next
  <2>5. ASSUME NEW q \in Place, EnvRemove(q) \/ EnvFile(q)
        PROVE  Promise!Next \/ UNCHANGED <<Dirs, Asked, Answer>>
    BY <2>5, OthersRemove DEF Promise!Next, Dirs
  <2> QED BY <2>1, <2>2, <2>3, <2>4, <2>5, PlacesAssumption DEF Next
<1>4. UNCHANGED <<Dirs, Asked, Answer>> =>
        UNCHANGED <<{q \in Place : node[q] = "dir"}, [p \in Proc |-> Parts(p)],
                    [p \in Proc |-> IF Busy(p) THEN "busy"
                                    ELSE IF pc[p] # "done" THEN pc[p]
                                    ELSE IF ok[p] THEN "yes" ELSE "no"]>>
  BY DEF Dirs, Asked, Answer, Said
<1> QED BY <1>1, <1>2, <1>3, <1>4, Always, PTL DEF Spec, KeepsPromise, Promise!Spec
=============================================================================
