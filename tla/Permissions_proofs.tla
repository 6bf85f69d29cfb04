------------------------- MODULE Permissions_proofs -------------------------
(***************************************************************************)
(* Racing calls of fs_set_permissions, for any number of processes, paths, *)
(* files and calls, either build and any faults: the bits of the group and *)
(* of others stay as they are, and so does a permission on which all calls *)
(* agree and which they write first.  A call that nobody disturbs does as  *)
(* it was asked, and the inquiries then say so.                            *)
(*                                                                         *)
(* The first needs that the mode a call has read agrees, outside the       *)
(* user's bits, with the mode of the file it is about to change, although  *)
(* others have changed that file since; all of the others, in which order  *)
(* a call carries out its wishes.                                          *)
(***************************************************************************)
EXTENDS Permissions, TLAPS

(* A changed mode is a mode, and differs in bits of the user only.         *)
LEMMA ChangeType ==
  ASSUME NEW old \in Mode, NEW want \in Wish, NEW ws \in SUBSET Perm
  PROVE  /\ Change(old, want, ws) \in Mode
         /\ Change(old, want, ws) \ UserBits = old \ UserBits
  BY DEF Change, Mode, Bit, Who, User, UserBits

(* A wish about w that is among ws is fulfilled by Change.                 *)
LEMMA ChangeFulfils ==
  ASSUME NEW old, NEW want, NEW ws, NEW w \in ws, NEW v \in {-1, 1}, want[w] = v
  PROVE  IF v = 1 THEN User(w) \in Change(old, want, ws)
                  ELSE User(w) \notin Change(old, want, ws)
  BY DEF Change, User

(* Other wishes leave the permission w alone.                              *)
LEMMA ChangeSpares ==
  ASSUME NEW old, NEW want, NEW ws, NEW w, w \notin ws
  PROVE  User(w) \in Change(old, want, ws) <=> User(w) \in old
  BY DEF Change, User

(* Wishes carried out one after the other are carried out together.        *)
LEMMA ChangeTwice ==
  ASSUME NEW old, NEW want, NEW A, NEW B
  PROVE  Change(Change(old, want, A), want, B) = Change(old, want, A \cup B)
  BY DEF Change, User

(* Only what is asked for changes anything.                                *)
LEMMA ChangeAsked ==
  ASSUME NEW old, NEW want, NEW A \in SUBSET Perm, NEW B \in SUBSET Perm,
         A \cap Asked(want) = B \cap Asked(want)
  PROVE  Change(old, want, A) = Change(old, want, B)
<1>1. \A w \in Perm : want[w] \in {-1, 1} => (w \in A <=> w \in B)
  BY DEF Asked
<1>2. \A v \in {-1, 1} : {w \in A : want[w] = v} = {w \in B : want[w] = v}
  BY <1>1
<1> QED BY <1>2 DEF Change

(* The mode a path leads to is a mode.                                     *)
LEMMA ModeOfType ==
  ASSUME TypeOK, NEW f \in File \cup {NoFile}
  PROVE  ModeOf(f) \in Mode
  BY DEF TypeOK, ModeOf, Mode

(* What the path of a call names.                                          *)
LEMMA TargetType ==
  ASSUME TypeOK, NEW p \in Proc
  PROVE  call[p] \in Call /\ Target(p) \in File \cup {NoFile} /\ Want(p) \in Wish
  BY DEF TypeOK, Call, Target, Want

(***************************************************************************)
(* The variables keep their types.                                         *)
(***************************************************************************)
LEMMA TypeInit == Init => TypeOK
<1> SUFFICES ASSUME Init PROVE TypeOK
  OBVIOUS
<1>1. (CHOOSE c \in Calls : TRUE) \in Call
  BY CallsAssumption
<1>2. \A s \in Starts : s.entry \in [Name -> File \cup {NoFile}] /\ s.mode \in [File -> Mode]
  BY StartsAssumption DEF Start
<1>3. nCalls \in 0..MaxCalls /\ nEnv \in 0..MaxEnv
  BY BoundsAssumption DEF Init
<1> QED BY <1>1, <1>2, <1>3 DEF Init, TypeOK, Mode

(* Control moves on or the call returns.                                   *)
LEMMA MoveType ==
  ASSUME TypeOK, NEW p \in Proc,
         \/ \E label \in {"exists", "stat", "chmod"}, read \in Mode, ws \in SUBSET Perm :
              Goto(p, label, read, ws)
         \/ \E b \in BOOLEAN : Return(p, b)
  PROVE  /\ pc' \in [Proc -> {"idle", "exists", "stat", "chmod", "done"}]
         /\ m' \in [Proc -> Mode]
         /\ todo' \in [Proc -> SUBSET Perm]
         /\ ok' \in [Proc -> BOOLEAN]
         /\ won' \subseteq Call
         /\ lost' \subseteq Call
<1>1. ASSUME NEW label \in {"exists", "stat", "chmod"}, NEW read \in Mode,
             NEW ws \in SUBSET Perm, Goto(p, label, read, ws)
      PROVE  /\ pc' \in [Proc -> {"idle", "exists", "stat", "chmod", "done"}]
             /\ m' \in [Proc -> Mode] /\ todo' \in [Proc -> SUBSET Perm]
             /\ UNCHANGED <<ok, won, lost>>
  BY <1>1 DEF Goto, TypeOK
<1>2. ASSUME NEW b \in BOOLEAN, Return(p, b)
      PROVE  /\ pc' \in [Proc -> {"idle", "exists", "stat", "chmod", "done"}]
             /\ m' \in [Proc -> Mode] /\ todo' \in [Proc -> SUBSET Perm]
             /\ ok' \in [Proc -> BOOLEAN] /\ won' \subseteq Call /\ lost' \subseteq Call
  <2>1. call[p] \in Call /\ {} \in Mode
    BY DEF TypeOK, Mode
  <2> QED BY <1>2, <2>1 DEF Return, TypeOK
<1> QED BY <1>1, <1>2 DEF TypeOK

(* Every step keeps the types.                                            *)
LEMMA TypeStep == TypeOK /\ [Next]_vars => TypeOK'
<1> SUFFICES ASSUME TypeOK, [Next]_vars PROVE TypeOK'
  OBVIOUS
<1>1. ASSUME NEW p \in Proc, Step(p) PROVE TypeOK'
  <2> DEFINE Moves == \/ \E label \in {"exists", "stat", "chmod"}, read \in Mode, ws \in SUBSET Perm :
                           Goto(p, label, read, ws)
                      \/ \E b \in BOOLEAN : Return(p, b)
  <2>1. /\ todo[p] \in SUBSET Perm /\ {} \in Mode /\ ModeOf(Target(p)) \in Mode
        /\ call[p] \in Call /\ Target(p) \in File \cup {NoFile} /\ Want(p) \in Wish
    BY ModeOfType, TargetType DEF TypeOK, Mode
  <2>2. CASE UNCHANGED <<entry, mode, call, nCalls, nEnv, start, disturbed>>
    <3>1. Moves
      BY <1>1, <2>1, <2>2 DEF Step, CxxExists, CxxStat, CStat, ChmodDone, ChmodFails
    <3> QED BY <2>2, <3>1, MoveType DEF TypeOK
  <2>3. CASE ChmodDone(p)
    <3>1. Moves
      BY <2>1, <2>3 DEF ChmodDone
    <3>2. Now(p) \in SUBSET Perm /\ m[p] \in Mode
      BY <2>1 DEF Now, First, TypeOK
    <3>3. Change(m[p], Want(p), Now(p)) \in Mode
      BY <2>1, <3>2, ChangeType
    <3>4. mode' \in [File -> Mode]
      BY <2>1, <2>3, <3>3 DEF ChmodDone, TypeOK
    <3>5. disturbed' \in [Proc -> BOOLEAN]
      BY <2>3 DEF ChmodDone, Disturb, TypeOK
    <3>6. UNCHANGED <<entry, call, nCalls, nEnv, start>>
      BY <2>3 DEF ChmodDone
    <3> QED BY <3>1, <3>4, <3>5, <3>6, MoveType DEF TypeOK
  <2> QED BY <1>1, <2>2, <2>3 DEF Step, CxxExists, CxxStat, CStat, ChmodFails
<1>2. ASSUME NEW p \in Proc, NEW c \in Calls, Begin(p, c) PROVE TypeOK'
  <2>1. c \in Call /\ {} \in Mode /\ Perm \in SUBSET Perm /\ Asked(c.want) \in SUBSET Perm
    BY CallsAssumption DEF Mode, Asked
  <2>2. entry[c.path] \in File \cup {NoFile}
    BY <2>1 DEF TypeOK, Call
  <2>3. start' \in [Proc -> Mode]
    BY <1>2, <2>2, ModeOfType DEF Begin, TypeOK
  <2>4. nCalls' \in 0..MaxCalls
    BY <1>2, BoundsAssumption DEF Begin, TypeOK
  <2>5. \E label \in {"exists", "stat", "chmod"}, read \in Mode, ws \in SUBSET Perm :
          Goto(p, label, read, ws)
    BY <1>2, <2>1 DEF Begin
  <2>6. call' \in [Proc -> Call] /\ disturbed' \in [Proc -> BOOLEAN]
    BY <1>2, <2>1 DEF Begin, TypeOK
  <2> QED BY <1>2, <2>3, <2>4, <2>5, <2>6, MoveType DEF Begin, TypeOK
<1>3. ASSUME EnvStep PROVE nEnv' \in 0..MaxEnv /\ disturbed' \in [Proc -> BOOLEAN]
  BY <1>3, BoundsAssumption DEF EnvStep, TypeOK
<1>4. ASSUME NEW f \in File, NEW b \in EnvBits, EnvChmod(f, b) PROVE TypeOK'
  <2>1. mode' \in [File -> Mode]
    BY <1>4, EnvAssumption DEF EnvChmod, TypeOK, Mode
  <2> QED BY <1>3, <1>4, <2>1 DEF EnvChmod, EnvStep, TypeOK
<1>5. ASSUME NEW n \in Name, NEW f \in File \cup {NoFile}, EnvRename(n, f) PROVE TypeOK'
  BY <1>3, <1>5 DEF EnvRename, EnvStep, TypeOK
<1>6. CASE UNCHANGED vars
  BY <1>6 DEF vars, TypeOK
<1> QED BY <1>1, <1>2, <1>4, <1>5, <1>6 DEF Next

(* Type correctness, for every value of the constants.                     *)
THEOREM PermissionTypes == Spec => []TypeOK
  BY TypeInit, TypeStep, PTL DEF Spec
-----------------------------------------------------------------------------
(* Outside the user's bits, the mode a call has read still is the mode of  *)
(* the file it is about to change.                                         *)
ReadHolds(p) ==
  (nEnv = 0 /\ pc[p] = "chmod" /\ Target(p) # NoFile) =>
    m[p] \ UserBits = mode[Target(p)] \ UserBits

(* What a call has before it: all of its wishes in the C build, in the cxx *)
(* build those that come behind what it has done.                          *)
Ahead(p) ==
  Busy(p) =>
    IF BuiltC(p) THEN todo[p] = Perm /\ pc[p] # "exists"
    ELSE /\ todo[p] \subseteq Asked(Want(p))
         /\ pc[p] = "exists" => todo[p] = Asked(Want(p))
         /\ "x" \in Asked(Want(p)) => "x" \in todo[p]
         /\ "r" \in todo[p] /\ "w" \in Asked(Want(p)) => "w" \in todo[p]

PermissionInv == TypeOK /\ \A p \in Proc : ReadHolds(p) /\ Ahead(p)

(* A step of the library changes only bits of the user.                    *)
LEMMA StepOnlyUser ==
  ASSUME PermissionInv, NEW p \in Proc, Step(p), nEnv = 0, NEW f \in File
  PROVE  mode'[f] \ UserBits = mode[f] \ UserBits
<1>1. CASE ChmodDone(p)
  <2>1. Target(p) \in File /\ pc[p] = "chmod" /\ Target(p) # NoFile
    BY <1>1, TargetType, FileAssumption DEF ChmodDone, Chmodable, PermissionInv
  <2>2. m[p] \in Mode /\ Want(p) \in Wish /\ Now(p) \in SUBSET Perm
    BY TargetType DEF PermissionInv, TypeOK, Now, First
  <2>3. Change(m[p], Want(p), Now(p)) \ UserBits = m[p] \ UserBits
    BY <2>2, ChangeType
  <2>4. m[p] \ UserBits = mode[Target(p)] \ UserBits
    BY <2>1 DEF PermissionInv, ReadHolds
  <2>5. mode' = [mode EXCEPT ![Target(p)] = Change(m[p], Want(p), Now(p))]
    BY <1>1 DEF ChmodDone
  <2> QED BY <2>1, <2>3, <2>4, <2>5 DEF PermissionInv, TypeOK
<1>2. CASE UNCHANGED mode
  BY <1>2
<1> QED BY <1>1, <1>2 DEF Step, CxxExists, CxxStat, CStat, ChmodFails

(* What a step of p leaves alone.                                          *)
LEMMA StepLocal ==
  ASSUME TypeOK, NEW p \in Proc, Step(p)
  PROVE  /\ UNCHANGED <<entry, call, nEnv>>
         /\ \A q \in Proc \ {p} : pc'[q] = pc[q] /\ m'[q] = m[q] /\ todo'[q] = todo[q]
  BY DEF Step, CxxExists, CxxStat, CStat, ChmodDone, ChmodFails, Goto, Return, TypeOK

(* A process carries out its wishes in their order.                        *)
LEMMA AheadStep ==
  ASSUME PermissionInv, NEW p \in Proc, Step(p)
  PROVE  Ahead(p)'
<1> USE DEF PermissionInv
<1>1. Busy(p) /\ Ahead(p) /\ UNCHANGED call
  BY StepLocal DEF Step, CxxExists, CxxStat, CStat, ChmodDone, ChmodFails, Busy
<1>2. BuiltC(p)' = BuiltC(p) /\ Want(p)' = Want(p)
  BY <1>1 DEF BuiltC, Want
<1>3. ASSUME pc'[p] = "done"
      PROVE  Ahead(p)'
  BY <1>3 DEF Ahead, Busy
<1>4. ASSUME pc'[p] \in {"stat", "chmod"}, todo'[p] = todo[p]
      PROVE  Ahead(p)'
  BY <1>1, <1>2, <1>4 DEF Ahead
<1>5. CASE ChmodDone(p)
  <2>1. CASE todo[p] = Now(p)
    BY <1>3, <1>5, <2>1 DEF ChmodDone, Return, TypeOK
  <2>2. CASE todo[p] # Now(p)
    <3>1. ~ BuiltC(p) /\ Now(p) = First(todo[p])
      BY <2>2 DEF Now
    <3>2. pc'[p] = "stat" /\ todo'[p] = todo[p] \ Now(p)
      BY <1>5, <2>2 DEF ChmodDone, Goto, TypeOK
    <3>3. CASE "r" \in todo[p]
      <4>1. todo'[p] = todo[p] \ {"r"}
        BY <3>1, <3>2, <3>3 DEF First
      <4> QED BY <1>1, <1>2, <3>1, <3>2, <3>3, <4>1 DEF Ahead
    <3>4. CASE "r" \notin todo[p]
      <4>1. "w" \in todo[p] /\ todo'[p] = todo[p] \ {"w"}
        BY <2>2, <3>1, <3>2, <3>4 DEF First
      <4> QED BY <1>1, <1>2, <3>1, <3>2, <3>4, <4>1 DEF Ahead
    <3> QED BY <3>3, <3>4
  <2> QED BY <2>1, <2>2
<1>6. CASE CxxExists(p) \/ CxxStat(p) \/ CStat(p) \/ ChmodFails(p)
  <2>1. pc'[p] = "done" \/ (pc'[p] \in {"stat", "chmod"} /\ todo'[p] = todo[p])
    BY <1>6 DEF CxxExists, CxxStat, CStat, ChmodFails, Goto, Return, TypeOK
  <2> QED BY <1>3, <1>4, <2>1
<1> QED BY <1>5, <1>6 DEF Step

(* Every step keeps the invariant.                                         *)
LEMMA PermissionStep == PermissionInv /\ [Next]_vars => PermissionInv'
<1> SUFFICES ASSUME PermissionInv, [Next]_vars
             PROVE  \A q \in Proc : ReadHolds(q)' /\ Ahead(q)'
  BY TypeStep DEF PermissionInv
<1> USE DEF PermissionInv
<1>1. ASSUME NEW p \in Proc, Step(p), NEW q \in Proc PROVE ReadHolds(q)' /\ Ahead(q)'
  <2>1. /\ UNCHANGED <<entry, call, nEnv>>
        /\ \A r \in Proc \ {p} : pc'[r] = pc[r] /\ m'[r] = m[r] /\ todo'[r] = todo[r]
    BY <1>1, StepLocal
  <2>2. /\ Target(q)' = Target(q) /\ Target(q) \in File \cup {NoFile}
        /\ BuiltC(q)' = BuiltC(q) /\ Want(q)' = Want(q)
    BY <2>1, TargetType DEF Target, BuiltC, Want
  <2>3. CASE q # p
    <3>1. ReadHolds(q)'
      <4>1. SUFFICES ASSUME nEnv = 0, pc[q] = "chmod", Target(q) # NoFile
                     PROVE  m[q] \ UserBits = mode'[Target(q)] \ UserBits
        BY <2>1, <2>2, <2>3 DEF ReadHolds
      <4> QED BY <1>1, <2>2, <4>1, StepOnlyUser DEF ReadHolds
    <3> QED BY <2>1, <2>2, <2>3, <3>1 DEF Ahead, Busy
  <2>4. CASE q = p
    <3>1. pc'[p] = "chmod" => UNCHANGED mode /\ m'[p] = ModeOf(Target(p))
      BY <1>1 DEF Step, CxxExists, CxxStat, CStat, ChmodDone, ChmodFails, Goto, Return, TypeOK
    <3> QED BY <1>1, <2>2, <2>4, <3>1, AheadStep DEF ReadHolds, ModeOf
  <2> QED BY <2>3, <2>4
<1>2. ASSUME NEW p \in Proc, NEW c \in Calls, Begin(p, c), NEW q \in Proc
      PROVE  ReadHolds(q)' /\ Ahead(q)'
  <2>1. CASE q = p
    <3>1. /\ pc'[p] # "chmod" /\ call'[p] = c
          /\ IF c.build = "c" THEN pc'[p] = "stat" /\ todo'[p] = Perm
                              ELSE pc'[p] = "exists" /\ todo'[p] = Asked(c.want)
      BY <1>2 DEF Begin, Goto, TypeOK
    <3>2. BuiltC(p)' = (c.build = "c") /\ Want(p)' = c.want
      BY <3>1 DEF BuiltC, Want
    <3> QED BY <2>1, <3>1, <3>2 DEF ReadHolds, Ahead
  <2>2. CASE q # p
    BY <1>2, <2>2 DEF Begin, Goto, ReadHolds, Ahead, Target, BuiltC, Want, Busy, TypeOK
  <2> QED BY <2>1, <2>2
<1>3. ASSUME EnvStep, NEW q \in Proc PROVE ReadHolds(q)' /\ Ahead(q)'
  <2>1. nEnv' # 0
    BY <1>3, BoundsAssumption DEF EnvStep, TypeOK
  <2> QED BY <1>3, <2>1 DEF EnvStep, ReadHolds, Ahead, Busy, BuiltC, Want
<1>4. CASE UNCHANGED vars
  BY <1>4 DEF vars, ReadHolds, Ahead, Target, BuiltC, Busy, Want
<1> QED BY <1>1, <1>2, <1>3, <1>4 DEF Next, EnvChmod, EnvRename

(* So the invariant holds always.                                          *)
LEMMA PermissionInvariant == Spec => []PermissionInv
<1>1. Init => PermissionInv
  BY TypeInit DEF Init, PermissionInv, ReadHolds, Ahead, Busy
<1> QED BY <1>1, PermissionStep, PTL DEF Spec

(* However calls of either build race each other, the permissions of the   *)
(* group and of others stay as they are.                                   *)
THEOREM GroupAndOthersKeep == Spec => OnlyUserBits
<1> DEFINE Kept == nEnv' = 0 => \A f \in File : mode'[f] \ UserBits = mode[f] \ UserBits
<1>1. PermissionInv /\ Next => Kept
  <2> SUFFICES ASSUME PermissionInv, Next PROVE Kept
    OBVIOUS
  <2>1. ASSUME NEW p \in Proc, Step(p) PROVE Kept
    BY <2>1, StepOnlyUser, StepLocal DEF PermissionInv
  <2>2. ASSUME NEW p \in Proc, NEW c \in Calls, Begin(p, c) PROVE Kept
    BY <2>2 DEF Begin
  <2>3. ASSUME EnvStep PROVE nEnv' # 0
    BY <2>3, BoundsAssumption DEF EnvStep, PermissionInv, TypeOK
  <2> QED BY <2>1, <2>2, <2>3 DEF Next, EnvChmod, EnvRename
<1>2. PermissionInv /\ [Next]_vars => [Kept]_vars
  BY <1>1
<1> QED BY <1>2, PermissionInvariant, PTL DEF Spec, OnlyUserBits
-----------------------------------------------------------------------------
(* All calls begun so far have wish v about w, and write it first.         *)
Agreed(w, v) == \A c \in Begun : WritesFirst(c, w) /\ c.want[w] = v

(* A call of the cxx build that has written w, and has other wishes left.  *)
Wrote(p, w) == ~ BuiltC(p) /\ pc[p] \in {"stat", "chmod"} /\ w \notin todo[p]

WishIn(old, w, v) == IF v = 1 THEN User(w) \in old ELSE User(w) \notin old

(* What is written and agreed is there, in the file and in what is read of *)
(* it since.                                                               *)
AgreedThere(w, v) ==
  nEnv = 0 /\ Agreed(w, v) =>
    /\ \A f \in File : WonOn(f) # {} => HasWish(f, w, v)
    /\ \A p \in Proc : Wrote(p, w) /\ Target(p) # NoFile =>
         /\ HasWish(Target(p), w, v)
         /\ pc[p] = "chmod" => WishIn(m[p], w, v)

AgreedInv == \A w \in Perm, v \in {-1, 1} : AgreedThere(w, v)

(* A step of p forgets no call that has begun, and none that returned.     *)
LEMMA BegunGrows ==
  ASSUME TypeOK, NEW p \in Proc, Step(p)
  PROVE  Begun \subseteq Begun' /\ call[p] \in Begun'
<1>1. \/ pc'[p] \in {"exists", "stat", "chmod"} /\ won' = won /\ lost' = lost
      \/ won' \cup lost' = won \cup lost \cup {call[p]}
  BY DEF Step, CxxExists, CxxStat, CStat, ChmodDone, ChmodFails, Goto, Return, TypeOK
<1>2. UNCHANGED call /\ \A q \in Proc \ {p} : pc'[q] = pc[q]
  BY StepLocal
<1>3. Busy(p)
  BY DEF Step, CxxExists, CxxStat, CStat, ChmodDone, ChmodFails, Busy
<1>4. call[p] \in Begun'
  BY <1>1, <1>2 DEF Begun, Busy
<1>5. ASSUME NEW c \in Begun PROVE c \in Begun'
  <2>1. CASE c \in won \cup lost
    BY <1>1, <2>1 DEF Begun
  <2>2. CASE \E q \in Proc : Busy(q) /\ c = call[q]
    <3>1. PICK q \in Proc : Busy(q) /\ c = call[q]
      BY <2>2
    <3>2. CASE q = p
      BY <1>4, <3>1, <3>2
    <3>3. CASE q # p
      <4>1. Busy(q)' /\ call'[q] = c
        BY <1>2, <3>1, <3>3 DEF Busy
      <4> QED BY <4>1 DEF Begun
    <3> QED BY <3>2, <3>3
  <2> QED BY <1>5, <2>1, <2>2 DEF Begun
<1> QED BY <1>4, <1>5

(* Steps of a process keep a permission on which all agree.                *)
LEMMA AgreedStep ==
  ASSUME PermissionInv, NEW p \in Proc, Step(p), NEW w \in Perm, NEW v \in {-1, 1},
         AgreedThere(w, v), nEnv = 0, Agreed(w, v)'
  PROVE  AgreedThere(w, v)'
<1> USE DEF PermissionInv
<1>1. Agreed(w, v) /\ WritesFirst(call[p], w) /\ Want(p)[w] = v
  BY BegunGrows DEF Agreed, Want
<1>2. /\ UNCHANGED <<entry, call, nEnv>>
      /\ \A q \in Proc \ {p} : pc'[q] = pc[q] /\ m'[q] = m[q] /\ todo'[q] = todo[q]
  BY StepLocal
<1>3. /\ \A f \in File : WonOn(f) # {} => HasWish(f, w, v)
      /\ \A q \in Proc : Wrote(q, w) /\ Target(q) # NoFile =>
           HasWish(Target(q), w, v) /\ (pc[q] = "chmod" => WishIn(m[q], w, v))
  BY <1>1 DEF AgreedThere
<1>4. \A q \in Proc : Target(q)' = Target(q) /\ BuiltC(q)' = BuiltC(q)
                      /\ Target(q) \in File \cup {NoFile}
  BY <1>2, TargetType DEF Target, BuiltC
<1>5. \A q \in Proc \ {p} : Wrote(q, w)' <=> Wrote(q, w)
  BY <1>2, <1>4 DEF Wrote
<1>6. Busy(p) /\ Ahead(p) /\ w \in Asked(Want(p))
  <2>1. Busy(p)
    BY DEF Step, CxxExists, CxxStat, CStat, ChmodDone, ChmodFails, Busy
  <2>2. w \in Asked(Want(p))
    BY <1>1 DEF Asked
  <2> QED BY <2>1, <2>2
<1>7. ASSUME UNCHANGED <<mode, won>>,
             Wrote(p, w)' /\ Target(p) # NoFile =>
               Wrote(p, w) /\ (pc'[p] = "chmod" => WishIn(m'[p], w, v))
      PROVE  AgreedThere(w, v)'
  <2>1. \A f \in File : WonOn(f)' = WonOn(f) /\ HasWish(f, w, v)' = HasWish(f, w, v)
    BY <1>2, <1>7 DEF WonOn, HasWish
  <2>2. \A q \in Proc : Target(q) # NoFile => Target(q) \in File
    BY <1>4
  <2> QED BY <1>2, <1>3, <1>4, <1>5, <1>7, <2>1, <2>2 DEF AgreedThere, HasWish
<1>8. CASE ChmodDone(p)
  <2> DEFINE t == Target(p)
  <2>1. t \in File /\ t # NoFile /\ pc[p] = "chmod"
    BY <1>4, <1>8, FileAssumption DEF ChmodDone, Chmodable
  <2>2. mode' = [mode EXCEPT ![t] = Change(m[p], Want(p), Now(p))]
    BY <1>8 DEF ChmodDone
  <2>3. WishIn(Change(m[p], Want(p), Now(p)), w, v)
    <3>1. CASE w \in Now(p)
      BY <1>1, <3>1, ChangeFulfils DEF WishIn
    <3>2. CASE w \notin Now(p)
      <4>1. ~ BuiltC(p)
        BY <1>6, <3>2 DEF Ahead, Now
      <4>2. First(Asked(Want(p))) = {w} /\ Now(p) = First(todo[p]) /\ todo[p] \subseteq Asked(Want(p))
        BY <1>1, <1>6, <4>1 DEF WritesFirst, BuiltC, Now, Ahead, Want
      <4>3. w \in todo[p] => First(todo[p]) = {w}
        BY <4>2 DEF First, Perm
      <4>4. Wrote(p, w)
        BY <2>1, <3>2, <4>1, <4>2, <4>3 DEF Wrote
      <4>5. WishIn(m[p], w, v)
        BY <1>3, <2>1, <4>4
      <4> QED BY <3>2, <4>5, ChangeSpares DEF WishIn
    <3> QED BY <3>1, <3>2
  <2>4. \A f \in File : mode'[f] = IF f = t THEN Change(m[p], Want(p), Now(p)) ELSE mode[f]
    BY <2>1, <2>2 DEF TypeOK
  <2>5. \A f \in File : /\ f = t => HasWish(f, w, v)'
                        /\ f # t => HasWish(f, w, v)' = HasWish(f, w, v)
    BY <2>3, <2>4 DEF HasWish, WishIn
  <2>6. \A f \in File \ {t} : WonOn(f)' \subseteq WonOn(f)
    <3>1. won' \subseteq won \cup {call[p]}
      BY <1>8 DEF ChmodDone, Return, Goto
    <3> QED BY <1>2, <3>1 DEF WonOn, Target
  <2>7. \A f \in File : WonOn(f)' # {} => HasWish(f, w, v)'
    BY <1>3, <2>1, <2>5, <2>6
  <2>8. pc'[p] # "chmod"
    BY <1>8 DEF ChmodDone, Return, Goto, TypeOK
  <2>9. ASSUME NEW q \in Proc, Wrote(q, w)', Target(q)' # NoFile
        PROVE  HasWish(Target(q), w, v)' /\ (pc'[q] = "chmod" => WishIn(m'[q], w, v))
    <3>1. CASE q = p
      BY <1>4, <2>1, <2>5, <2>8, <3>1 DEF HasWish
    <3>2. CASE q # p
      <4>1. Target(q) \in File /\ HasWish(Target(q), w, v)
        BY <1>3, <1>4, <1>5, <2>9, <3>2
      <4>2. HasWish(Target(q), w, v)'
        BY <1>4, <2>5, <4>1 DEF HasWish
      <4> QED BY <1>2, <1>3, <1>4, <1>5, <2>9, <3>2, <4>2
    <3> QED BY <3>1, <3>2
  <2> QED BY <2>7, <2>9 DEF AgreedThere, WishIn
<1>9. CASE ChmodFails(p) \/ CStat(p)
  <2>1. UNCHANGED <<mode, won>> /\ ~ Wrote(p, w)'
    BY <1>4, <1>9 DEF ChmodFails, CStat, Goto, Return, Wrote, TypeOK
  <2> QED BY <1>7, <2>1
<1>10. CASE CxxStat(p)
  <2>1. UNCHANGED <<mode, won>> /\ pc[p] = "stat" /\ ~ BuiltC(p)
    BY <1>10 DEF CxxStat, Goto, Return
  <2>2. ASSUME Wrote(p, w)', Target(p) # NoFile
        PROVE  Wrote(p, w) /\ WishIn(m'[p], w, v)
    <3>1. todo'[p] = todo[p] /\ m'[p] = mode[Target(p)]
      BY <1>10, <2>2 DEF CxxStat, Goto, ModeOf, TypeOK
    <3>2. Wrote(p, w)
      BY <2>1, <2>2, <3>1 DEF Wrote
    <3> QED BY <1>3, <2>2, <3>1, <3>2 DEF HasWish, WishIn
  <2> QED BY <1>7, <2>1, <2>2
<1>11. CASE CxxExists(p)
  <2>1. todo[p] = Asked(Want(p))
    <3>1. ~ BuiltC(p) /\ pc[p] = "exists"
      BY <1>6, <1>11 DEF CxxExists, Ahead
    <3> QED BY <1>6, <3>1 DEF Ahead
  <2>2. UNCHANGED <<mode, won>> /\ ~ Wrote(p, w)'
    BY <1>6, <1>11, <2>1 DEF CxxExists, Goto, Return, Wrote, TypeOK
  <2> QED BY <1>7, <2>2
<1> QED BY <1>8, <1>9, <1>10, <1>11 DEF Step

(* With the invariant, every step keeps the agreed permissions.            *)
LEMMA AgreedKept == PermissionInv /\ AgreedInv /\ [Next]_vars => AgreedInv'
<1> SUFFICES ASSUME PermissionInv, AgreedInv, [Next]_vars, NEW w \in Perm, NEW v \in {-1, 1},
                    nEnv' = 0, Agreed(w, v)'
             PROVE  AgreedThere(w, v)'
  BY DEF AgreedInv, AgreedThere
<1>0. AgreedThere(w, v)
  BY DEF AgreedInv
<1>1. ASSUME NEW p \in Proc, Step(p) PROVE AgreedThere(w, v)'
  BY <1>0, <1>1, AgreedStep, StepLocal DEF PermissionInv
<1>2. ASSUME NEW p \in Proc, NEW c \in Calls, Begin(p, c) PROVE AgreedThere(w, v)'
  <2>1. /\ UNCHANGED <<entry, mode, nEnv, won, lost>>
        /\ \A q \in Proc \ {p} : /\ pc'[q] = pc[q] /\ call'[q] = call[q]
                                 /\ m'[q] = m[q] /\ todo'[q] = todo[q]
    BY <1>2 DEF Begin, Goto, PermissionInv, TypeOK
  <2>2. Begun \subseteq Begun'
    <3>1. ~ Busy(p)
      BY <1>2 DEF Begin, Busy
    <3>2. \A q \in Proc : Busy(q) => Busy(q)' /\ call'[q] = call[q]
      BY <2>1, <3>1 DEF Busy
    <3> QED BY <2>1, <3>2 DEF Begun
  <2>3. Agreed(w, v)
    BY <2>2 DEF Agreed
  <2>4. ~ Wrote(p, w)'
    <3>1. call'[p] = c /\ (IF c.build = "c" THEN TRUE ELSE pc'[p] = "exists")
      BY <1>2 DEF Begin, Goto, PermissionInv, TypeOK
    <3> QED BY <3>1 DEF Wrote, BuiltC
  <2>5. \A q \in Proc \ {p} : Wrote(q, w)' = Wrote(q, w) /\ Target(q)' = Target(q)
    BY <2>1 DEF Wrote, BuiltC, Target
  <2>6. \A f : WonOn(f)' = WonOn(f) /\ HasWish(f, w, v)' = HasWish(f, w, v)
    BY <2>1 DEF WonOn, HasWish
  <2>7. \A f \in File : WonOn(f)' # {} => HasWish(f, w, v)'
    BY <1>0, <2>1, <2>3, <2>6 DEF AgreedThere
  <2>8. ASSUME NEW q \in Proc, Wrote(q, w)', Target(q)' # NoFile
        PROVE  HasWish(Target(q), w, v)' /\ (pc'[q] = "chmod" => WishIn(m'[q], w, v))
    <3>1. q # p
      BY <2>4, <2>8
    <3>2. HasWish(Target(q), w, v) /\ (pc[q] = "chmod" => WishIn(m[q], w, v))
      BY <1>0, <2>1, <2>3, <2>5, <2>8, <3>1 DEF AgreedThere
    <3> QED BY <2>1, <2>5, <3>1, <3>2 DEF HasWish
  <2> QED BY <2>7, <2>8 DEF AgreedThere, WishIn
<1>3. ASSUME EnvStep PROVE FALSE
  BY <1>3, BoundsAssumption DEF EnvStep, PermissionInv, TypeOK
<1>4. CASE UNCHANGED vars
  BY <1>0, <1>4 DEF vars, AgreedThere, Agreed, WonOn, Begun, Busy, HasWish, Wrote, BuiltC, Target, WishIn
<1> QED BY <1>1, <1>2, <1>3, <1>4 DEF Next, EnvChmod, EnvRename

(* A permission on which all calls agree, and which those of the cxx build *)
(* write first, stays as they want it from the first call that returned    *)
(* true (permissions.cpp:39, permissions.cpp:92).                          *)
THEOREM AgreedNeverLost == Spec => []AgreedStays
<1>1. Init => AgreedInv
  BY DEF Init, AgreedInv, AgreedThere, WonOn, Wrote
<1>2. AgreedInv => AgreedStays
  BY DEF AgreedInv, AgreedThere, AgreedStays, Agreed
<1> QED BY <1>1, <1>2, AgreedKept, PermissionInvariant, PTL DEF Spec
-----------------------------------------------------------------------------
(***************************************************************************)
(* A call that nobody disturbs: so far it has carried out the wishes that  *)
(* are not before it any more, and what it has read is what is there.      *)
(***************************************************************************)
Carried(p) == Asked(Want(p)) \ todo[p]

SoFar(p) ==
  Busy(p) /\ ~ disturbed[p] =>
    /\ ModeOf(Target(p)) = Change(start[p], Want(p), Carried(p))
    /\ pc[p] = "chmod" /\ Target(p) # NoFile => m[p] = mode[Target(p)]

AtEnd(p) ==
  pc[p] = "done" /\ ~ disturbed[p] =>
    IF ok[p] THEN Exists(call[p].path) /\ mode[Target(p)] = Change(start[p], Want(p), Perm)
    ELSE \E ws \in Partly(p) : ModeOf(Target(p)) = Change(start[p], Want(p), ws)

FaithfulInv == \A p \in Proc : SoFar(p) /\ AtEnd(p)

(* What it has carried out when it fails.                                  *)
LEMMA LeadingOnly ==
  ASSUME PermissionInv, NEW p \in Proc, Busy(p)
  PROVE  \E ws \in Partly(p) : Change(start[p], Want(p), Carried(p)) = Change(start[p], Want(p), ws)
<1> DEFINE A == Asked(Want(p))
<1>1. Ahead(p) /\ todo[p] \in SUBSET Perm /\ A \in SUBSET Perm /\ Carried(p) \in SUBSET Perm
  BY DEF PermissionInv, TypeOK, Asked, Carried
<1>2. ASSUME NEW ws \in Partly(p), ws \in SUBSET Perm, ws \cap A = Carried(p) \cap A
      PROVE  Change(start[p], Want(p), Carried(p)) = Change(start[p], Want(p), ws)
  BY <1>1, <1>2, ChangeAsked
<1>3. CASE BuiltC(p)
  <2>1. Carried(p) = {}
    BY <1>1, <1>3 DEF Ahead, Carried
  <2> QED BY <1>2, <1>3, <2>1 DEF Partly
<1>4. CASE ~ BuiltC(p)
  <2>1. /\ "x" \notin Carried(p)
        /\ "w" \in Carried(p) /\ "r" \in A => "r" \in Carried(p)
    BY <1>1, <1>4 DEF Ahead, Carried
  <2>2. Carried(p) \subseteq {"r", "w"} /\ Carried(p) \subseteq A
    BY <1>1, <2>1 DEF Carried, Perm
  <2>3. CASE "w" \in Carried(p)
    <3>1. {"r", "w"} \in Partly(p) /\ {"r", "w"} \in SUBSET Perm
      BY <1>4 DEF Partly, Perm
    <3>2. {"r", "w"} \cap A = Carried(p) \cap A
      BY <2>1, <2>2, <2>3
    <3> QED BY <1>2, <3>1, <3>2
  <2>4. CASE "w" \notin Carried(p) /\ "r" \in Carried(p)
    <3>1. {"r"} \in Partly(p) /\ {"r"} \in SUBSET Perm
      BY <1>4 DEF Partly, Perm
    <3>2. {"r"} \cap A = Carried(p) \cap A
      BY <2>2, <2>4
    <3> QED BY <1>2, <3>1, <3>2
  <2>5. CASE "w" \notin Carried(p) /\ "r" \notin Carried(p)
    <3>1. {} \in Partly(p) /\ Carried(p) = {}
      BY <1>4, <2>2, <2>5 DEF Partly
    <3> QED BY <1>2, <3>1
  <2> QED BY <2>3, <2>4, <2>5
<1> QED BY <1>3, <1>4

(* A step of p either changes nothing of what q is about or disturbs q.    *)
LEMMA Elsewhere ==
  ASSUME TypeOK, NEW p \in Proc, Step(p) \/ \E c \in Calls : Begin(p, c), NEW q \in Proc \ {p},
         ~ disturbed'[q]
  PROVE  /\ ~ disturbed[q] /\ UNCHANGED <<entry, mode>>
         /\ call'[q] = call[q] /\ pc'[q] = pc[q] /\ m'[q] = m[q] /\ todo'[q] = todo[q]
         /\ ok'[q] = ok[q] /\ start'[q] = start[q]
<1>1. CASE ChmodDone(p)
  <2>1. UNCHANGED <<entry, mode>> /\ ~ disturbed[q]
    BY <1>1 DEF ChmodDone, Disturb
  <2> QED BY <1>1, <2>1 DEF ChmodDone, Goto, Return, TypeOK
<1>2. CASE CxxExists(p) \/ CxxStat(p) \/ CStat(p) \/ ChmodFails(p)
  BY <1>2 DEF CxxExists, CxxStat, CStat, ChmodFails, Goto, Return, TypeOK
<1>3. ASSUME NEW c \in Calls, Begin(p, c)
      PROVE  /\ ~ disturbed[q] /\ UNCHANGED <<entry, mode>>
             /\ call'[q] = call[q] /\ pc'[q] = pc[q] /\ m'[q] = m[q] /\ todo'[q] = todo[q]
             /\ ok'[q] = ok[q] /\ start'[q] = start[q]
  BY <1>3 DEF Begin, Goto, TypeOK
<1> QED BY <1>1, <1>2, <1>3 DEF Step

(* The steps of the call itself.                                           *)
LEMMA FaithfulStep ==
  ASSUME PermissionInv, NEW p \in Proc, SoFar(p), Step(p)
  PROVE  SoFar(p)' /\ AtEnd(p)'
<1> DEFINE t == Target(p)
           W == Want(p)
<1>1. /\ Busy(p) /\ Ahead(p) /\ todo[p] \in SUBSET Perm /\ Now(p) \in SUBSET Perm
      /\ t \in File \cup {NoFile} /\ Asked(W) \in SUBSET Perm
  BY TargetType DEF PermissionInv, TypeOK, Step, CxxExists, CxxStat, CStat, ChmodDone, ChmodFails, Busy,
                    Asked, Now, First
<1>2. /\ UNCHANGED <<entry, call>> /\ start' = start
      /\ ~ disturbed'[p] => ~ disturbed[p]
  BY DEF PermissionInv, TypeOK, Step, CxxExists, CxxStat, CStat, ChmodDone, ChmodFails, Disturb
<1>3. /\ Target(p)' = t /\ Want(p)' = W /\ Partly(p)' = Partly(p)
      /\ Exists(call[p].path)' = (t # NoFile)
  BY <1>2 DEF Target, Want, Partly, BuiltC, Exists
<1> SUFFICES ASSUME ~ disturbed'[p]
             PROVE  SoFar(p)' /\ AtEnd(p)'
  BY DEF SoFar, AtEnd
<1>4. ModeOf(t) = Change(start[p], W, Carried(p))
  BY <1>1, <1>2 DEF SoFar
<1>5. ASSUME pc'[p] \in {"stat", "chmod"}, UNCHANGED mode, todo'[p] = todo[p],
             pc'[p] = "chmod" => m'[p] = ModeOf(t)
      PROVE  SoFar(p)' /\ AtEnd(p)'
  <2>1. Carried(p)' = Carried(p) /\ ModeOf(t)' = ModeOf(t)
    BY <1>3, <1>5 DEF Carried, ModeOf
  <2> QED BY <1>2, <1>3, <1>4, <1>5, <2>1 DEF SoFar, AtEnd, ModeOf
<1>6. ASSUME pc'[p] = "done", UNCHANGED mode, ~ ok'[p]
      PROVE  SoFar(p)' /\ AtEnd(p)'
  <2>1. ModeOf(t)' = ModeOf(t)
    BY <1>3, <1>6 DEF ModeOf
  <2>2. \E ws \in Partly(p) : ModeOf(t) = Change(start[p], W, ws)
    BY <1>1, <1>4, LeadingOnly
  <2> QED BY <1>2, <1>3, <1>6, <2>1, <2>2 DEF SoFar, AtEnd, Busy
<1>7. ASSUME pc'[p] = "done", t # NoFile, mode'[t] = Change(start[p], W, Perm)
      PROVE  SoFar(p)' /\ (ok'[p] => AtEnd(p)')
  BY <1>2, <1>3, <1>7 DEF SoFar, AtEnd, Busy
<1>8. CASE CxxExists(p)
  <2>1. todo[p] = Asked(W)
    <3>1. ~ BuiltC(p) /\ pc[p] = "exists"
      BY <1>1, <1>8 DEF CxxExists, Ahead
    <3> QED BY <1>1, <3>1 DEF Ahead
  <2>2. CASE t # NoFile /\ todo[p] # {}
    <3>1. pc'[p] = "stat" /\ UNCHANGED mode /\ todo'[p] = todo[p]
      BY <1>8, <2>2 DEF CxxExists, Goto, PermissionInv, TypeOK
    <3> QED BY <1>5, <3>1
  <2>3. CASE t # NoFile /\ todo[p] = {}
    <3>1. pc'[p] = "done" /\ ok'[p] /\ UNCHANGED mode
      BY <1>8, <2>3 DEF CxxExists, Return, PermissionInv, TypeOK
    <3>2. Carried(p) \cap Asked(W) = Perm \cap Asked(W)
      BY <2>1, <2>3 DEF Carried
    <3>3. Change(start[p], W, Carried(p)) = Change(start[p], W, Perm)
      BY <1>1, <3>2, ChangeAsked DEF Carried
    <3> QED BY <1>4, <1>7, <2>3, <3>1, <3>3 DEF ModeOf
  <2>4. CASE t = NoFile
    <3>1. pc'[p] = "done" /\ ~ ok'[p] /\ UNCHANGED mode
      BY <1>8, <2>4 DEF CxxExists, Return, PermissionInv, TypeOK
    <3> QED BY <1>6, <3>1
  <2> QED BY <2>2, <2>3, <2>4
<1>9. CASE CxxStat(p)
  <2>1. \/ /\ pc'[p] = "chmod" /\ UNCHANGED mode /\ todo'[p] = todo[p] /\ m'[p] = ModeOf(t)
        \/ pc'[p] = "done" /\ ~ ok'[p] /\ UNCHANGED mode
    BY <1>9 DEF CxxStat, Goto, Return, PermissionInv, TypeOK
  <2> QED BY <1>5, <1>6, <2>1
<1>10. CASE CStat(p)
  <2>1. pc'[p] = "chmod" /\ UNCHANGED mode /\ todo'[p] = todo[p] /\ m'[p] = ModeOf(t)
    BY <1>10 DEF CStat, Goto, PermissionInv, TypeOK
  <2> QED BY <1>5, <2>1
<1>11. CASE ChmodFails(p)
  <2>1. pc'[p] = "done" /\ ~ ok'[p] /\ UNCHANGED mode
    BY <1>11 DEF ChmodFails, Return, PermissionInv, TypeOK
  <2> QED BY <1>6, <2>1
<1>12. CASE ChmodDone(p)
  <2>1. pc[p] = "chmod" /\ t \in File /\ t # NoFile
    BY <1>1, <1>12, FileAssumption DEF ChmodDone, Chmodable
  <2>2. m[p] = mode[t] /\ mode[t] = Change(start[p], W, Carried(p))
    BY <1>1, <1>2, <1>4, <2>1 DEF SoFar, ModeOf
  <2>3. mode'[t] = Change(m[p], W, Now(p))
    BY <1>12, <2>1 DEF ChmodDone, PermissionInv, TypeOK
  <2>4. mode'[t] = Change(start[p], W, Carried(p) \cup Now(p))
    BY <2>2, <2>3, ChangeTwice
  <2>5. CASE todo[p] = Now(p)
    <3>1. pc'[p] = "done" /\ ok'[p]
      BY <1>12, <2>5 DEF ChmodDone, Return, PermissionInv, TypeOK
    <3>2. (Carried(p) \cup Now(p)) \cap Asked(W) = Perm \cap Asked(W)
      BY <1>1, <2>5 DEF Carried
    <3>3. Change(start[p], W, Carried(p) \cup Now(p)) = Change(start[p], W, Perm)
      <4>1. Carried(p) \cup Now(p) \in SUBSET Perm
        BY <1>1 DEF Carried
      <4> QED BY <3>2, <4>1, ChangeAsked
    <3> QED BY <1>7, <2>1, <2>4, <3>1, <3>3
  <2>6. CASE todo[p] # Now(p)
    <3>1. pc'[p] = "stat" /\ todo'[p] = todo[p] \ Now(p)
      BY <1>12, <2>6 DEF ChmodDone, Goto, PermissionInv, TypeOK
    <3>2. ~ BuiltC(p) /\ Now(p) \subseteq todo[p] /\ todo[p] \subseteq Asked(W)
      BY <1>1, <2>6 DEF Now, First, Ahead
    <3>3. Carried(p)' = Carried(p) \cup Now(p)
      BY <1>3, <3>1, <3>2 DEF Carried
    <3>4. ModeOf(t)' = mode'[t]
      BY <1>3, <2>1 DEF ModeOf
    <3> QED BY <1>2, <1>3, <2>4, <3>1, <3>3, <3>4 DEF SoFar, AtEnd
  <2> QED BY <2>5, <2>6
<1> QED BY <1>8, <1>9, <1>10, <1>11, <1>12 DEF Step

LEMMA FaithfulNext == PermissionInv /\ FaithfulInv /\ [Next]_vars => FaithfulInv'
<1> SUFFICES ASSUME PermissionInv, FaithfulInv, [Next]_vars, NEW q \in Proc
             PROVE  SoFar(q)' /\ AtEnd(q)'
  BY DEF FaithfulInv
<1>1. TypeOK /\ SoFar(q) /\ AtEnd(q)
  BY DEF PermissionInv, FaithfulInv
<1>2. ASSUME disturbed'[q]
      PROVE  SoFar(q)' /\ AtEnd(q)'
  BY <1>2 DEF SoFar, AtEnd
<1>3. ASSUME ~ disturbed[q], UNCHANGED <<entry, mode>>,
             call'[q] = call[q] /\ pc'[q] = pc[q] /\ m'[q] = m[q] /\ todo'[q] = todo[q],
             ok'[q] = ok[q] /\ start'[q] = start[q]
      PROVE  SoFar(q)' /\ AtEnd(q)'
  <2>1. /\ Target(q)' = Target(q) /\ Want(q)' = Want(q) /\ BuiltC(q)' = BuiltC(q)
        /\ Busy(q)' = Busy(q) /\ Exists(call[q].path)' = Exists(call[q].path)
    BY <1>3 DEF Target, Want, BuiltC, Busy, Exists
  <2>2. Carried(q)' = Carried(q) /\ Partly(q)' = Partly(q) /\ ModeOf(Target(q))' = ModeOf(Target(q))
    BY <1>3, <2>1 DEF Carried, Partly, ModeOf
  <2> QED BY <1>1, <1>3, <2>1, <2>2 DEF SoFar, AtEnd
<1>4. ASSUME NEW p \in Proc, Step(p) PROVE SoFar(q)' /\ AtEnd(q)'
  <2>1. CASE p = q
    BY <1>1, <1>4, <2>1, FaithfulStep
  <2>2. CASE p # q
    BY <1>1, <1>2, <1>3, <1>4, <2>2, Elsewhere
  <2> QED BY <2>1, <2>2
<1>5. ASSUME NEW p \in Proc, NEW c \in Calls, Begin(p, c) PROVE SoFar(q)' /\ AtEnd(q)'
  <2>1. CASE p # q
    BY <1>1, <1>2, <1>3, <1>5, <2>1, Elsewhere
  <2>2. CASE p = q
    <3>1. /\ c \in Call /\ call'[q] = c /\ pc'[q] \in {"stat", "exists"}
          /\ UNCHANGED <<entry, mode>> /\ start'[q] = ModeOf(entry[c.path])
          /\ Asked(c.want) \ todo'[q] = {}
      BY <1>1, <1>5, <2>2, CallsAssumption DEF Begin, Goto, TypeOK, Asked
    <3>2. Target(q)' = entry[c.path] /\ Want(q)' = c.want /\ Carried(q)' = {}
      BY <3>1 DEF Target, Want, Carried
    <3>3. ModeOf(Target(q))' = start'[q] /\ Change(start'[q], c.want, {}) = start'[q]
      BY <3>1, <3>2 DEF ModeOf, Change
    <3> QED BY <3>1, <3>2, <3>3 DEF SoFar, AtEnd
  <2> QED BY <2>1, <2>2
<1>6. ASSUME EnvStep PROVE SoFar(q)' /\ AtEnd(q)'
  <2>1. disturbed'[q]
    BY <1>6 DEF EnvStep
  <2> QED BY <1>2, <2>1
<1>7. CASE UNCHANGED vars
  BY <1>2, <1>3, <1>7 DEF vars
<1> QED BY <1>4, <1>5, <1>6, <1>7 DEF Next, EnvChmod, EnvRename

LEMMA Faithful == Spec => [](PermissionInv /\ FaithfulInv)
<1>1. Init => FaithfulInv
  BY DEF Init, FaithfulInv, SoFar, AtEnd, Busy
<1> QED BY <1>1, FaithfulNext, PermissionInvariant, PTL DEF Spec

(* A call that nobody disturbs does all that it was asked and returns      *)
(* true, or returns false and has done nothing (c) or the leading wishes   *)
(* only (cxx), whatever fails (permissions.cpp:39, permissions.cpp:92).    *)
THEOREM DoneAsAsked == Spec => []AsAsked
<1>1. FaithfulInv => AsAsked
  BY DEF FaithfulInv, AtEnd, AsAsked
<1> QED BY <1>1, Faithful, PTL

(* The inquiries and fs_get_permissions then answer an owner as the call   *)
(* has set (inquire.cpp:183, permissions.cpp:99).                          *)
THEOREM SetIsSeen == Spec => []SeenAsSet
<1>1. PermissionInv /\ FaithfulInv => SeenAsSet
  <2> SUFFICES ASSUME PermissionInv, FaithfulInv, NEW p \in Proc, pc[p] = "done", ok[p],
                      ~ disturbed[p], Class[Target(p)] = "owner", NEW w \in Asked(Want(p))
               PROVE  LET n == call[p].path IN
                        /\ Want(p)[w] = 1 => CxxMay(n, w)
                        /\ (Want(p)[w] = 1) <=> CMay(n, w)
                        /\ (Want(p)[w] = 1) <=> User(w) \in GetPermissions(n).letters
    BY DEF SeenAsSet
  <2>1. /\ Exists(call[p].path) /\ mode[Target(p)] = Change(start[p], Want(p), Perm)
        /\ Target(p) = entry[call[p].path] /\ Target(p) # NoFile
    BY DEF FaithfulInv, AtEnd, Exists, Target
  <2>2. w \in Perm /\ Want(p)[w] \in {-1, 1}
    <3>1. Want(p) \in [Perm -> {-1, 0, 1}]
      BY TargetType DEF PermissionInv, Wish
    <3> QED BY <3>1 DEF Asked
  <2>3. (Want(p)[w] = 1) <=> User(w) \in mode[Target(p)]
    BY <2>1, <2>2, ChangeFulfils
  <2>4. Want(p)[w] = 1 => CxxMay(call[p].path, w)
    BY <2>1, <2>3 DEF CxxMay, Who, User
  <2>5. UserMay(Target(p), w) <=> User(w) \in mode[Target(p)]
    BY DEF UserMay, User
  <2>6. CMay(call[p].path, w) <=> User(w) \in mode[Target(p)]
    BY <2>1, <2>5 DEF CMay
  <2>7. GetPermissions(call[p].path).letters = mode[Target(p)]
    BY <2>1 DEF GetPermissions, ModeOf
  <2> QED BY <2>3, <2>4, <2>6, <2>7
<1> QED BY <1>1, Faithful, PTL
=============================================================================
