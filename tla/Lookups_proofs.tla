--------------------------- MODULE Lookups_proofs ---------------------------
(***************************************************************************)
(* What calls of Lookups answer, for any files, users, environments and    *)
(* search paths and any number of changes by others: fs_which passes over  *)
(* no program and finds nothing that was none; the other inquiries and the *)
(* functions of Accounts say what was so during the call.                  *)
(*                                                                         *)
(* The argument is about moments: what is so now is in ever, and what is   *)
(* in always is so now.  A call that looks at a component can therefore    *)
(* leave it out only if its program is not in always any more.             *)
(***************************************************************************)
EXTENDS Lookups, FiniteSetTheorems, TLAPS

(* What is so now was so at some moment of the call, and what was so at    *)
(* all of them is so now.                                                  *)
Moments ==
  pc # "idle" => Facts(call.build) \subseteq ever /\ always \subseteq Facts(call.build)

(* What the steps in the middle of a call of several steps can rely on.    *)
Midway ==
  /\ pc = "ask" => call.op \in Inquired
  /\ pc \in {"xdg", "home"} => ~Owned
  /\ pc = "lookup" /\ Owned => met \in Obj

(* Before the loop of fs_which, and in all other calls, there is no search *)
(* path and nothing is found.                                              *)
Before == pc \notin {"part", "partisexe", "done"} => search = <<>> /\ found = <<>>

(* In the loop: what is found is behind us, and so is every program that   *)
(* was there all the time, as long as all of them are asked for; else      *)
(* there was none.                                                         *)
InLoop ==
  pc \in {"part", "partisexe"} =>
    /\ \A i \in DOMAIN found : found[i] \in 1..(at - 1)
    /\ \A k \in 1..(at - 1) : Here(k) => call.all /\ \E i \in DOMAIN found : found[i] = k
    /\ ~call.all => found = <<>>

(* Between fs_is_file and fs_is_exe it is known that there was a file.     *)
WasFile ==
  /\ pc = "nameisexe" => <<"file", call.path>> \in ever
  /\ pc = "partisexe" => <<"file", In(search[at])>> \in ever

IInv ==
  /\ TypeOK
  /\ Moments
  /\ Midway
  /\ Before
  /\ InLoop
  /\ WasFile
  /\ SearchHolds

-----------------------------------------------------------------------------
(* The parts of a call.                                                    *)
LEMMA CallType ==
  ASSUME NEW c \in Calls
  PROVE  /\ c.op \in Ops \cup Inquired /\ c.build \in Builds
         /\ c.path \in Path /\ c.other \in Path /\ c.value \in Value
         /\ c.given \in Path \cup {NoPath} /\ c.parts \in Seq(Path \cup {Gap})
  BY CallsAssumption DEF Call

(* What is asked about a path is either so or not.                         *)
LEMMA InquiryTypes ==
  ASSUME NEW b, NEW n
  PROVE  /\ fs_is_dir(b, n) \in BOOLEAN /\ fs_is_file(b, n) \in BOOLEAN
         /\ fs_is_fifo(b, n) \in BOOLEAN /\ fs_is_char_device(b, n) \in BOOLEAN
         /\ fs_exists(n) \in BOOLEAN
  BY DEF fs_is_dir, fs_is_file, fs_is_fifo, fs_is_char_device, fs_exists

(* What a fact says.                                                       *)
LEMMA FactsSay ==
  ASSUME NEW b, NEW n \in Path
  PROVE  /\ fs_is_file(b, n) => <<"file", n>> \in Facts(b)
         /\ fs_is_exe(b, n)  => <<"exe", n>> \in Facts(b)
  BY DEF Facts

LEMMA ProgramSays ==
  ASSUME NEW b, NEW n, <<"program", n>> \in Facts(b)
  PROVE  fs_is_file(b, n) /\ fs_is_exe(b, n)
<1>1. <<"program", n>> \in {<<"program", q>> : q \in {r \in Path : Program(b, r)}}
  <2>1. \A m, e : <<"program", n>> # <<"names", m, e>> /\ <<"program", n>> # <<"var", m, e>>
    OBVIOUS
  <2>2. \A q : /\ <<"program", n>> # <<"file", q>> /\ <<"program", n>> # <<"exe", q>>
               /\ <<"program", n>> # <<"dir", q>> /\ <<"program", n>> # <<"empty", q>>
    OBVIOUS
  <2> QED BY <2>1, <2>2 DEF Facts
<1>2. PICK q \in Path : Program(b, q) /\ <<"program", n>> = <<"program", q>>
  BY <1>1
<1> QED BY <1>2 DEF Program

(* The facts depend on the files and the environment.                      *)
LEMMA FactsStay ==
  ASSUME UNCHANGED <<treeVars, environ, call>>
  PROVE  Facts(call.build)' = Facts(call.build)
  BY DEF Facts, treeVars, Program, fs_is_file, fs_is_dir, fs_is_exe, fs_st_mode, KindAt, Missing, Is

-----------------------------------------------------------------------------
(***************************************************************************)
(* The variables keep their types, and calls their way through their steps.*)
(***************************************************************************)
LEMMA TypeInit == Init => TypeOK /\ Midway
<1> SUFFICES ASSUME Init PROVE TypeOK /\ Midway
  OBVIOUS
<1>1. PICK w \in Worlds : /\ entry = w.entry /\ full = w.full
                         /\ environ = w.environ /\ buffer = w.buffer /\ pathVar = w.pathVar
  BY DEF Init
<1>2. w \in World
  BY WorldsAssumption
<1>3. <<>> \in Seq(Path \cup {Gap}) /\ <<>> \in Seq(0..Len(<<>>))
  OBVIOUS
<1>4. nEnv \in 0..MaxEnv
  BY BoundAssumption DEF Init
<1> QED BY <1>1, <1>2, <1>3, <1>4 DEF Init, TypeOK, Midway, World, Steps

LEMMA InquiryKeepsTypes ==
  ASSUME TypeOK, Midway, InquiryStep, UNCHANGED <<accountVars, text, pathVar, whichVars, nEnv, looked>>
  PROVE  TypeOK' /\ Midway' /\ pc' \in {"size", "isfile", "opendir", "readdir", "stat2", "done"}
<1>1. call \in Calls /\ call.op \in Ops \cup Inquired /\ call.path \in Path /\ call.other \in Path
  BY CallType DEF TypeOK
<1>2. \A n \in Path : entry[n] \in Obj \cup {NoObj}
  BY DEF TypeOK
<1>3. UNCHANGED <<treeVars, call>>
  BY DEF InquiryStep, Ask, EmptyKind, EmptySize, EmptyIsFile, EmptyOpendir, EmptyReaddir,
         EquivalentFirst, EquivalentSecond, Goes, Answers
<1>4. /\ met' \in Obj \cup {NoObj} /\ answer' \in BOOLEAN
      /\ pc' \in {"size", "isfile", "opendir", "readdir", "stat2", "done"}
  <2>1. CASE Ask
    <3>1. Asked(call) \in BOOLEAN
      BY <2>1, InquiryTypes DEF Asked, Midway, Inquired, Ask, Asks
    <3> QED BY <2>1, <3>1 DEF Ask, Answers, Goes
  <2>2. CASE EmptyKind
    BY <2>2 DEF EmptyKind, Answers, Goes, TypeOK
  <2>3. CASE EmptySize
    BY <2>3 DEF EmptySize, Answers, Goes, TypeOK
  <2>4. CASE EmptyIsFile
    BY <2>4, InquiryTypes DEF EmptyIsFile, Answers, Goes
  <2>5. CASE EmptyOpendir
    BY <1>1, <1>2, <2>5 DEF EmptyOpendir, Answers, Goes, TypeOK
  <2>6. CASE EmptyReaddir
    BY <2>6 DEF EmptyReaddir, Answers, Goes
  <2>7. CASE EquivalentFirst
    BY <1>1, <1>2, <2>7 DEF EquivalentFirst, Answers, Goes, TypeOK
  <2>8. CASE EquivalentSecond
    BY <2>8 DEF EquivalentSecond, SameFile, Answers, Goes
  <2> QED BY <2>1, <2>2, <2>3, <2>4, <2>5, <2>6, <2>7, <2>8 DEF InquiryStep
<1>5. TypeOK'
  BY <1>3, <1>4 DEF TypeOK, treeVars, accountVars, whichVars, Steps
<1>6. Midway'
  BY <1>4 DEF Midway
<1> QED BY <1>4, <1>5, <1>6

(* The records that a call about users is after.                           *)
LEMMA WantedType ==
  ASSUME TypeOK, Midway, pc = "lookup"
  PROVE  Base \in Db /\ Wanted(Base) \in Id
<1>1. Base \in Db
  BY DEF Base, Db
<1>2. Owned => met \in Obj
  BY DEF Midway
<1> QED BY <1>1, <1>2, SelfAssumption, HolderAssumption DEF Wanted

LEMMA AccountKeepsTypes ==
  ASSUME TypeOK, Midway, AccountStep, UNCHANGED <<pathVar, whichVars, nEnv, looked>>
  PROVE  TypeOK' /\ Midway' /\ pc' \in {"home", "lookup", "tmpisdir", "copy", "done"}
<1>1. call \in Calls /\ call.path \in Path /\ call.value \in Value
  BY CallType DEF TypeOK
<1>2. UNCHANGED <<treeVars, call>>
  BY DEF AccountStep, Setenv, ReadXdgConfigHome, ReadHome, ReadTmpdir, TmpIsDir, StatOwner, LookUp,
         CopyField, Answers, Goes, Says, Onward
<1>3. /\ environ' \in [Var -> Value] /\ buffer' \in [Db -> Id \cup {Torn}]
      /\ met' \in Obj \cup {NoObj} /\ answer' \in BOOLEAN
      /\ pc' \in {"home", "lookup", "tmpisdir", "copy", "done"}
      /\ pc' = "home" => ~Owned
      /\ pc' = "lookup" /\ Owned => met' \in Obj
  <2>1. CASE Setenv
    BY <1>1, <2>1 DEF Setenv, fs_setenv, Answers, Goes, TypeOK
  <2>2. CASE ReadXdgConfigHome
    BY <2>2 DEF ReadXdgConfigHome, Says, Onward, Keeps, Goes, accountVars, TypeOK, Midway, Asks
  <2>3. CASE ReadHome
    BY <2>3 DEF ReadHome, Says, Onward, Keeps, Goes, accountVars, TypeOK, Midway, Asks
  <2>4. CASE ReadTmpdir
    BY <2>4 DEF ReadTmpdir, Says, Keeps, Goes, accountVars, TypeOK
  <2>5. CASE TmpIsDir
    BY <2>5 DEF TmpIsDir, Says, Keeps, Goes, accountVars, TypeOK
  <2>6. CASE StatOwner
    BY <1>1, <2>6 DEF StatOwner, Says, Keeps, Goes, accountVars, TypeOK, Missing, Is
  <2>7. CASE LookUp
    <3>1. Base \in Db /\ Wanted(Base) \in Id
      BY <2>7, WantedType DEF LookUp, Asks
    <3> QED BY <2>7, <3>1 DEF LookUp, Says, Keeps, Goes, accountVars, TypeOK
  <2>8. CASE CopyField
    BY <2>8 DEF CopyField, Says, Keeps, Goes, accountVars, TypeOK
  <2> QED BY <2>1, <2>2, <2>3, <2>4, <2>5, <2>6, <2>7, <2>8 DEF AccountStep
<1>4. TypeOK'
  BY <1>2, <1>3 DEF TypeOK, treeVars, whichVars, Steps
<1>5. Midway'
  BY <1>2, <1>3 DEF Midway, Owned
<1> QED BY <1>3, <1>4, <1>5

(* Lists of places in a search path.                                       *)
LEMMA Lists ==
  /\ \A S : <<>> \in Seq(S)
  /\ \A n \in Nat : <<0>> \in Seq(0..n)
OBVIOUS

(* A step of fs_which; the loop stays between the ends of the search path. *)
LEMMA WhichKeepsTypes ==
  ASSUME TypeOK, Midway, Before, WhichStep, UNCHANGED <<nEnv, looked>>
  PROVE  TypeOK' /\ Midway' /\ UNCHANGED <<treeVars, environ, call>>
<1>1. call \in Calls /\ call.parts \in Seq(Path \cup {Gap}) /\ pathVar \in Seq(Path \cup {Gap})
  BY CallType DEF TypeOK
<1>2. UNCHANGED <<treeVars, environ, call, met, answer, buffer, pathVar>>
  BY DEF WhichStep, GivenIsDir, NameIsFile, NameIsExe, PartIsFile, PartIsExe, Nothing, SearchBegins,
         LoopGoesOn, StepsTo, Goes, Stays, accountVars
<1>3. /\ pc' \in {"nameisfile", "nameisexe", "part", "partisexe", "done"}
      /\ search' \in Seq(Path \cup {Gap}) /\ found' \in Seq(0..Len(search'))
      /\ pc' \in {"part", "partisexe"} => at' \in DOMAIN search'
  <2>0. search \in Seq(Path \cup {Gap}) /\ found \in Seq(0..Len(search)) /\ <<>> \in Seq(0..Len(search))
    BY DEF TypeOK
  <2>1. CASE GivenIsDir
    BY <2>0, <2>1 DEF GivenIsDir, Nothing, Finds, StepsTo, Goes, whichVars
  <2>2. ASSUME SearchBegins, search = <<>>, found = <<>>
        PROVE  /\ pc' \in {"part", "done"}
               /\ search' \in Seq(Path \cup {Gap}) /\ found' \in Seq(0..Len(search'))
               /\ pc' = "part" => at' \in DOMAIN search'
    <3>1. search' \in Seq(Path \cup {Gap}) /\ found' = <<>>
      BY <1>1, <2>0, <2>2 DEF SearchBegins, Nothing, Finds, StepsTo, Goes
    <3>2. found' \in Seq(0..Len(search'))
      BY <3>1, Lists
    <3>3. pc' \in {"part", "done"} /\ (pc' = "part" => at' \in DOMAIN search')
      BY <1>1, <2>2 DEF SearchBegins, Nothing, Finds, StepsTo, Goes
    <3> QED BY <3>1, <3>2, <3>3
  <2>3. CASE NameIsFile
    <3>1. search = <<>> /\ found = <<>>
      BY <2>3 DEF NameIsFile, Asks, Before
    <3>2. CASE SearchBegins
      BY <2>2, <3>1, <3>2
    <3>3. CASE StepsTo("nameisexe") /\ UNCHANGED whichVars
      BY <2>0, <3>3 DEF StepsTo, Goes, whichVars
    <3> QED BY <2>3, <3>2, <3>3 DEF NameIsFile
  <2>4. CASE NameIsExe
    <3>1. search = <<>> /\ found = <<>>
      BY <2>4 DEF NameIsExe, Asks, Before
    <3>2. CASE SearchBegins
      BY <2>2, <3>1, <3>2
    <3>3. CASE StepsTo("done") /\ Finds(<<0>>)
      <4>1. pc' = "done" /\ found' = <<0>> /\ search' = search
        BY <3>3 DEF StepsTo, Goes, Finds
      <4>2. Len(search) \in Nat
        BY <2>0
      <4> QED BY <2>0, <4>1, <4>2, Lists
    <3> QED BY <2>4, <3>2, <3>3 DEF NameIsExe
  <2>5. ASSUME LoopGoesOn, at \in DOMAIN search, UNCHANGED search
        PROVE  pc' \in {"part", "done"} /\ (pc' = "part" => at' \in DOMAIN search')
    BY <2>0, <2>5 DEF LoopGoesOn, StepsTo, Goes
  <2>6. CASE PartIsFile
    BY <2>0, <2>5, <2>6 DEF PartIsFile, StepsTo, Goes, whichVars, TypeOK, Asks
  <2>7. CASE PartIsExe
    <3>1. at \in DOMAIN search /\ UNCHANGED search /\ at \in 0..Len(search)
      BY <2>0, <2>7 DEF PartIsExe, TypeOK, Asks
    <3>2. Append(found, at) \in Seq(0..Len(search))
      BY <2>0, <3>1
    <3>3. found' \in Seq(0..Len(search'))
      BY <2>0, <2>7, <3>1, <3>2 DEF PartIsExe
    <3> QED BY <2>0, <2>5, <2>7, <3>1, <3>3 DEF PartIsExe, StepsTo, Goes
  <2> QED BY <2>1, <2>3, <2>4, <2>6, <2>7 DEF WhichStep
<1>4. TypeOK'
  BY <1>2, <1>3 DEF TypeOK, treeVars, Steps
<1>5. Midway'
  BY <1>3 DEF Midway
<1> QED BY <1>2, <1>4, <1>5

LEMMA BeginKeepsTypes ==
  ASSUME TypeOK, Begin
  PROVE  TypeOK' /\ Midway' /\ pc' \notin {"part", "partisexe", "nameisexe", "done", "idle"}
<1>1. call \in Calls /\ call.op \in Ops \cup Inquired
  BY CallType DEF TypeOK
<1>2. /\ FirstStep(call) \in Steps \ {"part", "partisexe", "nameisexe", "done", "idle"}
      /\ FirstStep(call) = "ask" => call.op \in Inquired
      /\ FirstStep(call) \in {"xdg", "home", "lookup"} => ~Owned
  BY <1>1 DEF FirstStep, Steps, Ops, Inquired, Owned
<1> QED BY <1>2 DEF Begin, TypeOK, Midway, Owned

LEMMA EnvKeepsTypes ==
  ASSUME TypeOK, Midway, Env
  PROVE  TypeOK' /\ Midway' /\ UNCHANGED <<call, pc, met, answer, text, whichVars>>
<1>1. nEnv' \in 0..MaxEnv /\ UNCHANGED <<call, pc, met, answer, text, whichVars>>
  BY BoundAssumption DEF Env, Other, TypeOK
<1>2. ASSUME NEW n \in Path, NEW o \in Obj \cup {NoObj}, EnvPut(n, o)
      PROVE  TypeOK'
  BY <1>1, <1>2 DEF EnvPut, TypeOK, accountVars, whichVars
<1>3. ASSUME NEW o \in Holds, EnvFill(o)
      PROVE  TypeOK'
  BY <1>1, <1>3 DEF EnvFill, TypeOK, accountVars, whichVars
<1>4. ASSUME NEW v \in Var, NEW x \in Settings, EnvSetenv(v, x)
      PROVE  TypeOK'
  BY <1>1, <1>4, SettingsAssumption DEF EnvSetenv, OtherSetenv, fs_setenv, TypeOK, treeVars, whichVars
<1>5. ASSUME NEW parts \in Searches, EnvSetPath(parts)
      PROVE  TypeOK'
  BY <1>1, <1>5, SearchesAssumption DEF EnvSetPath, TypeOK, treeVars, accountVars, whichVars
<1>6. ASSUME NEW db \in Db, NEW i \in Id \cup {Torn}, EnvLooksUp(db, i)
      PROVE  TypeOK'
  BY <1>1, <1>6 DEF EnvLooksUp, OtherLooksUp, TypeOK, treeVars, whichVars
<1>7. TypeOK'
  BY <1>2, <1>3, <1>4, <1>5, <1>6 DEF Env
<1>8. Midway'
  BY <1>1 DEF Midway, Owned
<1> QED BY <1>1, <1>7, <1>8

-----------------------------------------------------------------------------
(***************************************************************************)
(* What is remembered of the moments of a call.                            *)
(***************************************************************************)
LEMMA Remembered ==
  ASSUME Remember
  PROVE  Moments' /\ ever \subseteq ever' /\ always' \subseteq always
BY DEF Remember, Moments

LEMMA BeginsWithNow ==
  ASSUME Begin
  PROVE  Moments'
<1>1. Facts(call.build)' = Facts(call.build)
  BY FactsStay DEF Begin, treeVars
<1> QED BY <1>1 DEF Begin, Moments

(***************************************************************************)
(* The search.                                                             *)
(***************************************************************************)
LEMMA NoSearch ==
  ASSUME search = <<>>, found = <<>>, UNCHANGED whichVars,
         pc' \notin {"part", "partisexe", "nameisexe"}
  PROVE  Before' /\ InLoop' /\ WasFile' /\ SearchHolds'
<1>1. search' = <<>> /\ found' = <<>> /\ DOMAIN found' = {}
  BY DEF whichVars
<1> QED BY <1>1 DEF Before, InLoop, WasFile, SearchHolds, NothingPassedOver, FoundHeld

(* Others can only make programs come and go.                              *)
LEMMA EnvKeepsSearch ==
  ASSUME IInv, Busy, UNCHANGED <<call, pc, whichVars>>,
         ever \subseteq ever', always' \subseteq always
  PROVE  Before' /\ InLoop' /\ WasFile' /\ SearchHolds'
<1>1. UNCHANGED <<search, at, found>>
  BY DEF whichVars
<1>2. Before'
  BY <1>1 DEF IInv, Before
<1>3. InLoop'
  BY <1>1 DEF IInv, InLoop, Here
<1>4. WasFile'
  BY <1>1 DEF IInv, WasFile, In
<1>5. NothingPassedOver'
  BY DEF NothingPassedOver, Done, Busy
<1>6. FoundHeld'
  BY <1>1 DEF IInv, SearchHolds, FoundHeld, Place, In
<1> QED BY <1>2, <1>3, <1>4, <1>5, <1>6 DEF SearchHolds

(* Where a search path begins nothing is behind us.                        *)
LEMMA SearchBeginsWell ==
  ASSUME TypeOK, SearchBegins, search = <<>>, found = <<>>, UNCHANGED call
  PROVE  Before' /\ InLoop' /\ WasFile' /\ SearchHolds'
<1>1. found' = <<>> /\ DOMAIN found' = {} /\ pc' \in {"part", "done"}
  BY DEF SearchBegins, Nothing, Finds, StepsTo, Goes
<1>2. pc' = "part" => at' = 1
  BY DEF SearchBegins, Nothing, Finds, StepsTo, Goes
<1>3. pc' = "done" => search' = <<>>
  BY DEF SearchBegins, Nothing, Finds, StepsTo, Goes
<1>4. 1..(1 - 1) = {}
  OBVIOUS
<1>5. InLoop'
  BY <1>1, <1>2, <1>4 DEF InLoop
<1> QED BY <1>1, <1>3, <1>5 DEF Before, WasFile, SearchHolds, NothingPassedOver, FoundHeld, Done

(* A program that was there all the time is there now.                     *)
LEMMA HereIsNow ==
  ASSUME Moments, pc # "idle", NEW k, Here(k)
  PROVE  /\ search[k] # Gap
         /\ fs_is_file(call.build, In(search[k])) /\ fs_is_exe(call.build, In(search[k]))
BY ProgramSays DEF Moments, Here, In

(* The loop goes on when it has looked at a component and, if there was a  *)
(* program all the time, has listed it.                                    *)
LEMMA LoopGoesOnWell ==
  ASSUME TypeOK, pc \in {"part", "partisexe"}, LoopGoesOn, UNCHANGED <<search, call>>,
         always' \subseteq always,
         \A i \in DOMAIN found' : found'[i] \in 1..at,
         \A k \in 1..at : Here(k) => call.all /\ \E i \in DOMAIN found' : found'[i] = k,
         ~call.all => found' = <<>>,
         FoundHeld'
  PROVE  Before' /\ InLoop' /\ WasFile' /\ SearchHolds'
<1>1. at \in Nat /\ DOMAIN search = 1..Len(search)
  BY DEF TypeOK
<1>2. \A k : Here(k)' => Here(k)
  BY DEF Here
<1>3. CASE at = Len(search) /\ pc' = "done"
  <2>1. NothingPassedOver'
    BY <1>1, <1>2, <1>3 DEF NothingPassedOver
  <2> QED BY <1>3, <2>1 DEF Before, InLoop, WasFile, SearchHolds
<1>4. CASE pc' = "part" /\ at' = at + 1
  <2>1. 1..(at' - 1) = 1..at
    BY <1>1, <1>4
  <2>2. InLoop'
    BY <1>2, <2>1 DEF InLoop
  <2> QED BY <1>4, <2>2 DEF Before, WasFile, SearchHolds, NothingPassedOver, Done
<1> QED BY <1>3, <1>4 DEF LoopGoesOn, StepsTo, Goes

(* What has been found stays found.                                        *)
LEMMA FoundStays ==
  ASSUME FoundHeld, UNCHANGED <<search, call, found>>, ever \subseteq ever'
  PROVE  FoundHeld'
BY DEF FoundHeld, Place, In

LEMMA PartIsFileKeepsSearch ==
  ASSUME IInv, PartIsFile, ever \subseteq ever', always' \subseteq always, Moments', UNCHANGED <<treeVars, environ, call>>
  PROVE  Before' /\ InLoop' /\ WasFile' /\ SearchHolds'
<1>1. TypeOK /\ Moments /\ InLoop /\ FoundHeld /\ pc = "part" /\ at \in DOMAIN search /\ at \in Nat
  BY DEF IInv, PartIsFile, Asks, SearchHolds, TypeOK
<1>2. CASE ~Skipped(search, at) /\ fs_is_file(call.build, In(search[at]))
  <2>1. pc' = "partisexe" /\ UNCHANGED <<search, at, found>>
    BY <1>2 DEF PartIsFile, StepsTo, Goes, whichVars
  <2>2. search[at] \in Path \cup {Gap}
    BY <1>1 DEF TypeOK
  <2>3. In(search[at]) \in Path
    BY <2>2, GapAssumption DEF In
  <2>4. <<"file", In(search[at])>> \in ever
    BY <1>1, <1>2, <2>3, FactsSay DEF Moments
  <2>5. WasFile'
    BY <2>1, <2>4 DEF WasFile, In
  <2>6. InLoop'
    BY <1>1, <2>1 DEF InLoop, Here
  <2>7. FoundHeld'
    BY <1>1, <2>1, FoundStays
  <2> QED BY <2>1, <2>5, <2>6, <2>7 DEF Before, SearchHolds, NothingPassedOver, Done
<1>3. CASE ~(~Skipped(search, at) /\ fs_is_file(call.build, In(search[at])))
  <2>1. LoopGoesOn /\ UNCHANGED <<search, found>>
    BY <1>3 DEF PartIsFile
  <2>2. ~Here(at)
    BY <1>1, <1>3, HereIsNow DEF Skipped
  <2>3. \A k \in 1..at : Here(k) => k \in 1..(at - 1)
    BY <1>1, <2>2
  <2>4. 1..(at - 1) \subseteq 1..at
    BY <1>1
  <2>5. FoundHeld'
    BY <1>1, <2>1, FoundStays
  <2>6. \A i \in DOMAIN found' : found'[i] \in 1..at
    BY <1>1, <2>1, <2>4 DEF InLoop
  <2>7. \A k \in 1..at : Here(k) => call.all /\ \E i \in DOMAIN found' : found'[i] = k
    BY <1>1, <2>1, <2>3 DEF InLoop
  <2>8. ~call.all => found' = <<>>
    BY <1>1, <2>1 DEF InLoop
  <2> QED BY <1>1, <2>1, <2>5, <2>6, <2>7, <2>8, LoopGoesOnWell
<1> QED BY <1>2, <1>3

LEMMA PartIsExeKeepsSearch ==
  ASSUME IInv, PartIsExe, ever \subseteq ever', always' \subseteq always, UNCHANGED <<treeVars, environ, call>>
  PROVE  Before' /\ InLoop' /\ WasFile' /\ SearchHolds'
<1>1. /\ TypeOK /\ Moments /\ InLoop /\ WasFile /\ FoundHeld
      /\ pc = "partisexe" /\ at \in DOMAIN search /\ at \in 1..Len(search) /\ Len(search) \in Nat
      /\ UNCHANGED search /\ found \in Seq(0..Len(search))
  BY DEF IInv, PartIsExe, Asks, SearchHolds, TypeOK
<1>2. CASE ~fs_is_exe(call.build, In(search[at]))
  <2>1. LoopGoesOn /\ UNCHANGED <<search, found>>
    BY <1>2 DEF PartIsExe
  <2>2. ~Here(at)
    BY <1>1, <1>2, HereIsNow
  <2>3. \A k \in 1..at : Here(k) => k \in 1..(at - 1)
    BY <1>1, <2>2
  <2>4. 1..(at - 1) \subseteq 1..at
    BY <1>1
  <2>5. FoundHeld'
    BY <1>1, <2>1, FoundStays
  <2>6. \A i \in DOMAIN found' : found'[i] \in 1..at
    BY <1>1, <2>1, <2>4 DEF InLoop
  <2>7. \A k \in 1..at : Here(k) => call.all /\ \E i \in DOMAIN found' : found'[i] = k
    BY <1>1, <2>1, <2>3 DEF InLoop
  <2>8. ~call.all => found' = <<>>
    BY <1>1, <2>1 DEF InLoop
  <2> QED BY <1>1, <2>1, <2>5, <2>6, <2>7, <2>8, LoopGoesOnWell
<1>3. CASE fs_is_exe(call.build, In(search[at]))
  <2>1. found' = Append(found, at)
    BY <1>3 DEF PartIsExe
  <2>2. /\ Len(found) \in Nat /\ DOMAIN found = 1..Len(found)
        /\ DOMAIN found' = 1..(Len(found) + 1) /\ found'[Len(found) + 1] = at
        /\ \A i \in 1..Len(found) : found'[i] = found[i]
    BY <1>1, <2>1
  <2>3. \A i \in DOMAIN found : found[i] \in 1..(at - 1)
    BY <1>1 DEF InLoop
  <2>4. \A i \in DOMAIN found' : i \in DOMAIN found \/ i = Len(found) + 1
    BY <2>2
  <2>5. \A i \in DOMAIN found' : found'[i] \in 1..at
    BY <1>1, <2>2, <2>3, <2>4
  <2>6. search[at] \in Path \cup {Gap} /\ at # 0
    BY <1>1 DEF TypeOK
  <2>7. In(search[at]) \in Path
    BY <2>6, GapAssumption DEF In
  <2>8. {<<"file", Place(at)>>, <<"exe", Place(at)>>} \subseteq ever
    BY <1>1, <1>3, <2>6, <2>7, FactsSay DEF Moments, WasFile, Place
  <2>9. FoundHeld'
    <3>1. \A k : Place(k)' = Place(k)
      BY <1>1 DEF Place, In
    <3>2. ASSUME NEW i \in DOMAIN found'
          PROVE  {<<"file", Place(found'[i])>>, <<"exe", Place(found'[i])>>} \subseteq ever'
      BY <1>1, <2>2, <2>4, <2>8, <3>2 DEF FoundHeld
    <3>3. ASSUME NEW i \in DOMAIN found', NEW j \in DOMAIN found', i < j
          PROVE  found'[i] < found'[j]
      <4>1. i \in DOMAIN found /\ found'[i] = found[i]
        BY <2>2, <3>3
      <4>2. CASE j \in DOMAIN found
        BY <1>1, <2>2, <3>3, <4>1, <4>2 DEF FoundHeld
      <4>3. CASE j = Len(found) + 1
        BY <1>1, <2>2, <2>3, <4>1, <4>3
      <4> QED BY <2>4, <4>2, <4>3
    <3>4. \A i \in DOMAIN found' : Place(found'[i]) = (Place(found[i]))'
      BY <3>1 DEF Place, In
    <3> QED BY <1>1, <3>2, <3>3, <3>4 DEF FoundHeld, Place, In
  <2>10. \A k \in 1..at : Here(k) /\ k # at => call.all /\ \E i \in DOMAIN found' : found'[i] = k
    <3>1. \A k \in 1..at : k # at => k \in 1..(at - 1)
      BY <1>1
    <3>2. \A i \in DOMAIN found : i \in DOMAIN found'
      BY <2>2
    <3> QED BY <1>1, <2>2, <3>1, <3>2 DEF InLoop
  <2>11. \E i \in DOMAIN found' : found'[i] = at
    BY <2>2
  <2>12. CASE call.all
    <3>1. LoopGoesOn
      BY <1>3, <2>12 DEF PartIsExe
    <3> QED BY <1>1, <2>5, <2>9, <2>10, <2>11, <2>12, <3>1, LoopGoesOnWell
  <2>13. CASE ~call.all
    <3>1. pc' = "done"
      BY <1>3, <2>13 DEF PartIsExe, StepsTo, Goes
    <3>2. \A k \in DOMAIN search : Here(k) => at <= k
      <4>1. \A k \in 1..(at - 1) : ~Here(k)
        BY <1>1, <2>13 DEF InLoop
      <4>2. \A k \in DOMAIN search : k \in Nat /\ k >= 1
        BY <1>1 DEF TypeOK
      <4> QED BY <1>1, <4>1, <4>2
    <3>3. \A k : Here(k)' => Here(k)
      BY <1>1 DEF Here
    <3>4. NothingPassedOver'
      BY <1>1, <2>11, <2>13, <3>2, <3>3 DEF NothingPassedOver
    <3> QED BY <2>9, <3>1, <3>4 DEF Before, InLoop, WasFile, SearchHolds
  <2> QED BY <2>12, <2>13
<1> QED BY <1>2, <1>3

LEMMA WhichKeepsSearch ==
  ASSUME IInv, WhichStep, Remember, Moments', UNCHANGED <<treeVars, environ, call>>
  PROVE  Before' /\ InLoop' /\ WasFile' /\ SearchHolds'
<1>1. ever \subseteq ever' /\ always' \subseteq always
  BY Remembered
<1>2. TypeOK /\ Moments /\ Before /\ call.path \in Path
  BY CallType DEF IInv, TypeOK
<1>3. CASE GivenIsDir
  <2>1. search = <<>> /\ found = <<>>
    BY <1>2, <1>3 DEF GivenIsDir, Asks, Before
  <2>2. UNCHANGED whichVars /\ pc' \in {"nameisfile", "done"}
    BY <1>3, <2>1 DEF GivenIsDir, Nothing, Finds, StepsTo, Goes, whichVars
  <2> QED BY <2>1, <2>2, NoSearch
<1>4. CASE NameIsFile
  <2>1. search = <<>> /\ found = <<>> /\ pc # "idle"
    BY <1>2, <1>4 DEF NameIsFile, Asks, Before
  <2>2. CASE SearchBegins
    BY <1>2, <2>1, <2>2, SearchBeginsWell
  <2>3. CASE fs_is_file(call.build, call.path) /\ StepsTo("nameisexe") /\ UNCHANGED whichVars
    <3>1. <<"file", call.path>> \in ever /\ pc' = "nameisexe"
      BY <1>2, <2>1, <2>3, FactsSay DEF Moments, StepsTo, Goes
    <3>2. search' = <<>> /\ found' = <<>> /\ DOMAIN found' = {}
      BY <2>1, <2>3 DEF whichVars
    <3> QED BY <1>1, <3>1, <3>2
            DEF Before, InLoop, WasFile, SearchHolds, NothingPassedOver, FoundHeld, Done
  <2> QED BY <1>4, <2>2, <2>3 DEF NameIsFile
<1>5. CASE NameIsExe
  <2>1. search = <<>> /\ found = <<>> /\ pc = "nameisexe"
    BY <1>2, <1>5 DEF NameIsExe, Asks, Before
  <2>2. CASE SearchBegins
    BY <1>2, <2>1, <2>2, SearchBeginsWell
  <2>3. CASE fs_is_exe(call.build, call.path) /\ StepsTo("done") /\ Finds(<<0>>)
    <3>1. <<"file", call.path>> \in ever /\ <<"exe", call.path>> \in ever
      BY <1>2, <2>1, <2>3, FactsSay DEF IInv, WasFile, Moments
    <3>2. search' = <<>> /\ found' = <<0>> /\ pc' = "done"
      BY <2>1, <2>3 DEF Finds, StepsTo, Goes
    <3>3. DOMAIN found' = {1} /\ found'[1] = 0
      BY <3>2
    <3>4. FoundHeld'
      BY <1>1, <3>1, <3>3 DEF FoundHeld, Place
    <3> QED BY <3>2, <3>4 DEF Before, InLoop, WasFile, SearchHolds, NothingPassedOver
  <2> QED BY <1>5, <2>2, <2>3 DEF NameIsExe
<1> QED BY <1>1, <1>3, <1>4, <1>5, PartIsFileKeepsSearch, PartIsExeKeepsSearch DEF WhichStep

-----------------------------------------------------------------------------
LEMMA InvInit == Init => IInv
<1> SUFFICES ASSUME Init PROVE IInv
  OBVIOUS
<1>1. TypeOK /\ Midway
  BY TypeInit
<1>2. pc = "idle" /\ search = <<>> /\ found = <<>> /\ DOMAIN found = {}
  BY DEF Init
<1> QED BY <1>1, <1>2 DEF IInv, Moments, Before, InLoop, WasFile, SearchHolds, NothingPassedOver,
                          FoundHeld, Done

LEMMA InvNext ==
  ASSUME IInv, [Next]_vars
  PROVE  IInv'
<1>1. TypeOK /\ Midway /\ Before
  BY DEF IInv
<1>2. CASE Begin
  <2>1. search = <<>> /\ found = <<>> /\ UNCHANGED whichVars
    BY <1>1, <1>2 DEF Begin, Before, whichVars
  <2> QED BY <1>1, <1>2, <2>1, BeginKeepsTypes, BeginsWithNow, NoSearch DEF IInv
<1>3. CASE Step
  <2>1. Moments' /\ Remember /\ UNCHANGED <<nEnv, looked>>
    BY <1>3, Remembered DEF Step
  <2>2. CASE InquiryStep /\ UNCHANGED <<accountVars, text, pathVar, whichVars>>
    <3>1. TypeOK' /\ Midway' /\ pc' \notin {"part", "partisexe", "nameisexe"}
      BY <1>1, <2>1, <2>2, InquiryKeepsTypes
    <3>2. pc \notin {"part", "partisexe", "done"}
      BY <2>2 DEF InquiryStep, Ask, EmptyKind, EmptySize, EmptyIsFile, EmptyOpendir, EmptyReaddir,
                  EquivalentFirst, EquivalentSecond, Asks
    <3> QED BY <1>1, <2>1, <2>2, <3>1, <3>2, NoSearch DEF IInv, Before
  <2>3. CASE AccountStep /\ UNCHANGED <<pathVar, whichVars>>
    <3>1. TypeOK' /\ Midway' /\ pc' \notin {"part", "partisexe", "nameisexe"}
      BY <1>1, <2>1, <2>3, AccountKeepsTypes
    <3>2. pc \notin {"part", "partisexe", "done"}
      BY <2>3 DEF AccountStep, Setenv, ReadXdgConfigHome, ReadHome, ReadTmpdir, TmpIsDir, StatOwner,
                  LookUp, CopyField, Asks
    <3> QED BY <1>1, <2>1, <2>3, <3>1, <3>2, NoSearch DEF IInv, Before
  <2>4. CASE WhichStep
    <3>1. TypeOK' /\ Midway' /\ UNCHANGED <<treeVars, environ, call>>
      BY <1>1, <2>1, <2>4, WhichKeepsTypes
    <3> QED BY <2>1, <2>4, <3>1, WhichKeepsSearch DEF IInv
  <2> QED BY <1>3, <2>2, <2>3, <2>4 DEF Step
<1>4. CASE Env
  <2>1. TypeOK' /\ Midway' /\ UNCHANGED <<call, pc, whichVars>>
    BY <1>1, <1>4, EnvKeepsTypes
  <2>2. Busy /\ Moments' /\ ever \subseteq ever' /\ always' \subseteq always
    BY <1>4, Remembered DEF Env, Other
  <2> QED BY <2>1, <2>2, EnvKeepsSearch DEF IInv
<1>5. CASE UNCHANGED vars
  <2>1. Facts(call.build)' = Facts(call.build)
    BY <1>5, FactsStay DEF vars, treeVars
  <2>2. Moments'
    BY <1>5, <2>1 DEF IInv, Moments, vars
  <2>3. TypeOK' /\ Midway' /\ Before' /\ InLoop' /\ WasFile'
    BY <1>5 DEF IInv, TypeOK, Midway, Before, InLoop, WasFile, Here, In, Owned, vars
  <2>4. SearchHolds'
    BY <1>5 DEF IInv, SearchHolds, NothingPassedOver, FoundHeld, Here, Place, In, Done, vars
  <2> QED BY <2>2, <2>3, <2>4 DEF IInv
<1> QED BY <1>2, <1>3, <1>4, <1>5 DEF Next

LEMMA Always == Spec => []IInv
BY InvInit, InvNext, PTL DEF Spec

(* The variables keep their types, and fs_which stays between the ends of  *)
(* its search path (which.cpp:44).                                         *)
THEOREM LookupTypes == Spec => []TypeOK
<1>1. IInv => TypeOK
  BY DEF IInv
<1> QED BY <1>1, Always, PTL

(* fs_which passes over no program that was there all the time, and finds  *)
(* only what was a file and executable during the call (which.cpp:49).     *)
THEOREM SearchAlwaysHolds == Spec => []SearchHolds
<1>1. IInv => SearchHolds
  BY DEF IInv
<1> QED BY <1>1, Always, PTL

-----------------------------------------------------------------------------
(***************************************************************************)
(* What the other calls answer.  The same argument about moments, for      *)
(* what each of them knows between two of its steps.                       *)
(***************************************************************************)
Homes    == {"get_homedir", "user_config_dir"}
Accounted == Homes \cup {"get_profile_dir", "get_username", "get_shell"}
Owners   == {"get_owner_name", "get_owner_group"}

(* Which calls a step is part of.                                          *)
Belongs ==
  /\ pc = "ask" => call.op \in Inquired
  /\ pc \in {"status", "size", "isfile", "opendir", "readdir"} => call.op = "is_empty"
  /\ pc \in {"stat1", "stat2"} => call.op = "equivalent"
  /\ pc \in {"given", "nameisfile", "nameisexe", "part", "partisexe"} => call.op = "which"
  /\ pc = "setenv" => call.op = "setenv"
  /\ pc = "xdg" => call.op = "user_config_dir"
  /\ pc = "home" => call.op \in Homes
  /\ pc \in {"tmpdir", "tmpisdir"} => call.op = "get_tempdir"
  /\ pc = "owner" => call.op \in Owners
  /\ pc \in {"lookup", "copy"} => call.op \in Accounted \cup Owners

(* No two objects with one number are there at one time.                   *)
Numbered ==
  \A m, n \in Path :
    {entry[m], entry[n]} \subseteq Obj /\ Number[entry[m]] = Number[entry[n]] => entry[m] = entry[n]

(* What fs_is_empty knows of an object that was there all the time.        *)
EmptyMidway ==
  /\ pc = "size" => \A o \in Obj : Kept(call.path, o) => Kind[o] # "dir"
  /\ pc = "isfile" =>
       /\ call.build = "c"
       /\ \A o \in Obj : Kept(call.path, o) =>
            Kind[o] # "dir" /\ (Kind[o] = "reg" => <<"empty", o>> \in ever)
  /\ pc = "opendir" => \A o \in Obj : Kept(call.path, o) => Kind[o] = "dir"
  /\ pc = "readdir" => /\ met \in Obj /\ Names(call.path, met) \in ever
                       /\ \A o \in Obj : Kept(call.path, o) => o = met

SameMidway ==
  pc = "stat2" => met \in Obj /\ \A o \in Obj : Kept(call.path, o) => o = met

(* Which variables have been found empty on the way.                       *)
VarsMidway ==
  /\ pc \in {"home", "lookup", "copy"} /\ call.op = "user_config_dir" => Nowhere("XDG_CONFIG_HOME")
  /\ pc \in {"lookup", "copy"} /\ call.op \in Homes => Nowhere("HOME")
  /\ pc = "tmpisdir" =>
       \/ Nowhere("TMPDIR") /\ text = Written(Tmp)
       \/ /\ call.build = "cxx" /\ text \in Text \cup {Empty} /\ text # Unset
          /\ Was("TMPDIR", text) \/ (Nowhere("TMPDIR") /\ Was("TMP", text))

(* Who is looked up, and that nobody else's record is in the buffer unless *)
(* another thread has put it there.                                        *)
UsersMidway ==
  /\ pc \in {"lookup", "copy"} /\ Owned => met \in Obj /\ Names(call.path, met) \in ever
  /\ pc = "copy" => /\ Record[Base][Wanted(Base)] # NoRecord
                    /\ Base \notin looked => buffer[Base] = Wanted(Base)

AInv == /\ Belongs /\ Numbered
        /\ EmptyMidway /\ SameMidway /\ VarsMidway /\ UsersMidway
        /\ EmptyHeld /\ SameHeld /\ AccountsHold

(* What is so now is remembered, and what is remembered of all moments is  *)
(* so now.                                                                 *)
LEMMA FactsHead ==
  ASSUME NEW b
  PROVE  /\ \A n, o : <<"names", n, o>> \in Facts(b) <=> n \in Path /\ entry[n] = o
         /\ \A n : <<"dir", n>> \in Facts(b) <=> n \in Path /\ fs_is_dir(b, n)
         /\ \A o : <<"empty", o>> \in Facts(b) <=> o \in Obj \ full
         /\ \A v, x : <<"var", v, x>> \in Facts(b) <=> v \in Var /\ environ[v] = x
<1>1. \A n, o : <<"names", n, o>> \in Facts(b) <=> n \in Path /\ entry[n] = o
  BY DEF Facts
<1>2. \A n : <<"dir", n>> \in Facts(b) <=> n \in Path /\ fs_is_dir(b, n)
  BY DEF Facts
<1>3. \A o : <<"empty", o>> \in Facts(b) <=> o \in Obj \ full
  BY DEF Facts
<1>4. \A v, x : <<"var", v, x>> \in Facts(b) <=> v \in Var /\ environ[v] = x
  BY DEF Facts
<1> QED BY <1>1, <1>2, <1>3, <1>4

LEMMA NowAndEver ==
  ASSUME Moments, pc # "idle"
  PROVE  /\ \A n \in Path : Names(n, entry[n]) \in ever
         /\ \A n, o : Kept(n, o) => entry[n] = o
         /\ \A o \in Obj : /\ o \notin full => <<"empty", o>> \in ever
                           /\ <<"empty", o>> \in always => o \notin full
         /\ \A v \in Var : Was(v, environ[v])
         /\ \A n \in Path : fs_is_dir(call.build, n) => <<"dir", n>> \in ever
         /\ \A n : <<"dir", n>> \in always => fs_is_dir(call.build, n)
BY FactsHead DEF Moments, Names, Kept, Was

(* Looking back from later, more was so at some moment and less at all.    *)
Later == ever \subseteq ever' /\ always' \subseteq always

LEMMA LaterFacts ==
  ASSUME Later
  PROVE  /\ \A n, o : Kept(n, o)' => Kept(n, o)
         /\ \A v, x : Was(v, x) => Was(v, x)'
         /\ \A v : Nowhere(v) => Nowhere(v)'
BY DEF Later, Kept, Was, Nowhere, Names

(* Which kind of object each inquiry says yes to.                          *)
LEMMA KindsAsked ==
  ASSUME TypeOK, NEW n \in Path, NEW b \in Builds
  PROVE  /\ fs_is_dir(b, n) <=> KindAt(n) = "dir"
         /\ fs_is_file(b, n) <=> KindAt(n) = "reg" \/ (b = "c" /\ KindAt(n) = "sock")
         /\ fs_is_fifo(b, n) <=> KindAt(n) = "fifo"
         /\ fs_is_char_device(b, n) <=> KindAt(n) = "chr"
<1>1. KindAt(n) \in Kinds \cup {"none"}
  BY KindAssumption DEF TypeOK, KindAt, Missing, Is
<1>2. fs_st_mode(n) = CASE KindAt(n) = "none" -> 0 [] KindAt(n) = "fifo" -> 1 [] KindAt(n) = "chr" -> 2
                        [] KindAt(n) = "dir" -> 4 [] KindAt(n) = "reg" -> 8 [] KindAt(n) = "sock" -> 12
  BY <1>1 DEF fs_st_mode, TypeBits, Kinds
<1>3. TypeBits["dir"] = 4 /\ TypeBits["fifo"] = 1 /\ TypeBits["chr"] = 2 /\ S_IFREG = 8
  BY DEF TypeBits, S_IFREG
<1>4. /\ (0 \div 8) % 2 = 0 /\ (1 \div 8) % 2 = 0 /\ (2 \div 8) % 2 = 0 /\ (4 \div 8) % 2 = 0
      /\ (8 \div 8) % 2 = 1 /\ (12 \div 8) % 2 = 1
  OBVIOUS
<1>5. b = "c" \/ b = "cxx"
  BY DEF Builds
<1>6. fs_is_dir(b, n) <=> KindAt(n) = "dir"
  BY <1>1, <1>2, <1>3 DEF fs_is_dir, Kinds
<1>7. fs_is_fifo(b, n) <=> KindAt(n) = "fifo"
  BY <1>1, <1>2, <1>3 DEF fs_is_fifo, Kinds
<1>8. fs_is_char_device(b, n) <=> KindAt(n) = "chr"
  BY <1>1, <1>2, <1>3 DEF fs_is_char_device, Kinds
<1>9. fs_is_file(b, n) <=> KindAt(n) = "reg" \/ (b = "c" /\ KindAt(n) = "sock")
  BY <1>1, <1>2, <1>3, <1>4, <1>5 DEF fs_is_file, Kinds
<1> QED BY <1>6, <1>7, <1>8, <1>9

LEMMA KindsAlways ==
  ASSUME TypeOK
  PROVE  KindsHold
<1> SUFFICES ASSUME NEW n \in Path
             PROVE  LET yes(b) == <<fs_is_dir(b, n), fs_is_file(b, n), fs_is_fifo(b, n),
                                    fs_is_char_device(b, n)>>
                    IN /\ KindAt(n) # "sock" => yes("cxx") = yes("c")
                       /\ \A b \in Builds : Cardinality({i \in 1..4 : yes(b)[i]}) <= 1
  BY DEF KindsHold
<1> DEFINE yes(b) == <<fs_is_dir(b, n), fs_is_file(b, n), fs_is_fifo(b, n), fs_is_char_device(b, n)>>
<1>1. ASSUME KindAt(n) # "sock"
      PROVE  yes("cxx") = yes("c")
  <2>1. "cxx" \in Builds /\ "c" \in Builds
    BY DEF Builds
  <2>2. /\ fs_is_dir("cxx", n) = fs_is_dir("c", n) /\ fs_is_file("cxx", n) = fs_is_file("c", n)
        /\ fs_is_fifo("cxx", n) = fs_is_fifo("c", n)
        /\ fs_is_char_device("cxx", n) = fs_is_char_device("c", n)
    BY <1>1, <2>1, KindsAsked, InquiryTypes
  <2> QED BY <2>2
<1>2. ASSUME NEW b \in Builds
      PROVE  Cardinality({i \in 1..4 : yes(b)[i]}) <= 1
  <2> DEFINE S == {i \in 1..4 : yes(b)[i]}
  <2>1. 1..4 = {1, 2, 3, 4}
    OBVIOUS
  <2>2. \A i, j \in S : i = j
    BY <2>1, KindsAsked
  <2>3. PICK i : S \subseteq {i}
    BY <2>2
  <2>4. IsFiniteSet({i}) /\ Cardinality({i}) = 1
    BY FS_Singleton
  <2> QED BY <2>3, <2>4, FS_Subset
<1> QED BY <1>1, <1>2

(* Answers are promised at the end only, and only of the call made.        *)
LEMMA NotAsked ==
  ASSUME UNCHANGED call
  PROVE  /\ pc' # "done" \/ call.op # "is_empty" => EmptyHeld'
         /\ pc' # "done" \/ call.op # "equivalent" => SameHeld'
         /\ pc' # "done" \/ call.op \notin Accounted \cup Owners \cup {"get_tempdir"} => AccountsHold'
<1>1. pc' # "done" \/ call.op # "is_empty" => EmptyHeld'
  BY DEF EmptyHeld, Done
<1>2. pc' # "done" \/ call.op # "equivalent" => SameHeld'
  BY DEF SameHeld, Done
<1>3. pc' # "done" \/ call.op \notin Accounted \cup Owners \cup {"get_tempdir"} => AccountsHold'
  BY DEF AccountsHold, HomesHold, TempdirHolds, NamesHold, OwnersHold, Done, Accounted, Owners, Homes
<1> QED BY <1>1, <1>2, <1>3

(* fs_is_empty, step by step.                                              *)
LEMMA EmptySteps ==
  ASSUME IInv, AInv, Later, UNCHANGED <<treeVars, call>>,
         EmptyKind \/ EmptySize \/ EmptyIsFile \/ EmptyOpendir \/ EmptyReaddir
  PROVE  EmptyMidway' /\ EmptyHeld' /\ pc' \in {"size", "isfile", "opendir", "readdir", "done"}
<1> DEFINE n == call.path
           Empty0(o) == <<"empty", o>>
<1>1. /\ TypeOK /\ Moments /\ EmptyMidway /\ n \in Path /\ call.build \in Builds
      /\ pc \in {"status", "size", "isfile", "opendir", "readdir"}
  BY CallType DEF IInv, AInv, TypeOK, EmptyKind, EmptySize, EmptyIsFile, EmptyOpendir, EmptyReaddir, Asks
<1>2. /\ entry[n] \in Obj \cup {NoObj} /\ Names(n, entry[n]) \in ever
      /\ \A o : Kept(n, o) => entry[n] = o
      /\ \A o \in Obj : /\ o \notin full => Empty0(o) \in ever
                        /\ Empty0(o) \in always => o \notin full
  BY <1>1, NowAndEver DEF TypeOK
<1>3. \A o : /\ Kept(n, o)' => Kept(n, o)
             /\ Empty0(o) \in always' => Empty0(o) \in always
             /\ Names(n, o) \in ever => Names(n, o) \in ever'
             /\ Empty0(o) \in ever => Empty0(o) \in ever'
  BY LaterFacts DEF Later, Kept, Names
<1>4. call' = call
  OBVIOUS
<1>5. \A o \in Obj : o \in full => Kind[o] \in {"reg", "dir"}
  BY <1>1 DEF TypeOK, Holds
<1>6. fs_is_dir(call.build, n) <=> KindAt(n) = "dir"
  BY <1>1, KindsAsked
<1>7. \A o \in Obj : entry[n] = o => ~Missing(n) /\ KindAt(n) = Kind[o]
  BY ObjAssumption DEF Missing, Is, KindAt
<1>8. KindAt(n) \notin {"none"} => entry[n] \in Obj
  BY <1>2 DEF KindAt, Missing, Is
<1>10. CASE EmptyKind
  <2>1. CASE fs_is_dir(call.build, n) /\ Goes("opendir")
    <3>1. pc' = "opendir" /\ \A o \in Obj : Kept(n, o)' => Kind[o] = "dir"
      BY <1>2, <1>3, <1>6, <1>7, <2>1 DEF Goes
    <3> QED BY <1>4, <3>1 DEF EmptyMidway, EmptyHeld, Done
  <2>2. CASE ~fs_is_dir(call.build, n) /\ Missing(n) /\ Answers(FALSE)
    <3>1. pc' = "done" /\ ~answer' /\ \A o \in Obj : ~Kept(n, o)'
      BY <1>2, <1>3, <1>7, <2>2 DEF Goes, Answers
    <3> QED BY <1>4, <3>1 DEF EmptyMidway, EmptyHeld
  <2>3. CASE ~fs_is_dir(call.build, n) /\ Goes("size")
    <3>1. pc' = "size" /\ \A o \in Obj : Kept(n, o)' => Kind[o] # "dir"
      BY <1>2, <1>3, <1>6, <1>7, <2>3 DEF Goes
    <3> QED BY <1>4, <3>1 DEF EmptyMidway, EmptyHeld, Done
  <2> QED BY <1>10, <2>1, <2>2, <2>3 DEF EmptyKind
<1>11. CASE EmptySize
  <2>0. pc = "size" /\ \A o \in Obj : Kept(n, o) => Kind[o] # "dir"
    BY <1>1, <1>11 DEF EmptySize, Asks, EmptyMidway
  <2>1. CASE call.build = "cxx" /\ Answers(KindAt(n) = "reg" /\ entry[n] \notin full)
    <3>1. pc' = "done" /\ answer' = (KindAt(n) = "reg" /\ entry[n] \notin full)
      BY <2>1 DEF Answers, Goes
    <3>2. answer' => \E o \in Obj : Names(n, o) \in ever' /\ Empty0(o) \in ever'
      BY <1>2, <1>3, <1>8, <3>1
    <3>3. \A o \in Obj : ~answer' /\ Kept(n, o)' /\ Empty0(o) \in always' => Kind[o] \notin {"reg", "dir"}
      BY <1>2, <1>3, <1>7, <2>0, <3>1
    <3> QED BY <1>4, <3>1, <3>2, <3>3 DEF EmptyMidway, EmptyHeld
  <2>2. CASE call.build = "c" /\ SizeIsZero(n) /\ Goes("isfile")
    <3>1. pc' = "isfile"
      BY <2>2 DEF Goes
    <3>2. \A o \in Obj : Kept(n, o)' => Kind[o] # "dir" /\ (Kind[o] = "reg" => Empty0(o) \in ever')
      BY <1>2, <1>3, <1>7, <2>0, <2>2 DEF SizeIsZero
    <3> QED BY <1>4, <2>2, <3>1, <3>2 DEF EmptyMidway, EmptyHeld, Done
  <2>3. CASE call.build = "c" /\ SizeIsNot(n) /\ Answers(FALSE)
    <3>1. pc' = "done" /\ ~answer'
      BY <2>3 DEF Answers, Goes
    <3>2. \A o \in Obj : Kept(n, o)' /\ Empty0(o) \in always' => Kind[o] \notin {"reg", "dir"}
      BY <1>2, <1>3, <1>7, <2>0, <2>3 DEF SizeIsNot
    <3> QED BY <1>4, <3>1, <3>2 DEF EmptyMidway, EmptyHeld
  <2> QED BY <1>11, <2>1, <2>2, <2>3 DEF EmptySize
<1>12. CASE EmptyIsFile
  <2>0. /\ pc = "isfile" /\ call.build = "c"
        /\ \A o \in Obj : Kept(n, o) => Kind[o] # "dir" /\ (Kind[o] = "reg" => Empty0(o) \in ever)
    BY <1>1, <1>12 DEF EmptyIsFile, Asks, EmptyMidway
  <2>1. pc' = "done" /\ answer' = fs_is_file("c", n)
    BY <1>12 DEF EmptyIsFile, Answers, Goes
  <2>2. fs_is_file("c", n) <=> KindAt(n) \in {"reg", "sock"}
    BY <1>1, <2>0, KindsAsked
  <2>3. ASSUME answer', NEW o \in Obj, Kept(n, o)'
        PROVE  Names(n, o) \in ever' /\ Empty0(o) \in ever'
    BY <1>2, <1>3, <1>5, <1>7, <2>0, <2>1, <2>2, <2>3
  <2>4. \A o \in Obj : ~answer' /\ Kept(n, o)' => Kind[o] \notin {"reg", "dir"}
    BY <1>2, <1>3, <1>7, <2>0, <2>1, <2>2
  <2> QED BY <1>4, <2>0, <2>1, <2>3, <2>4 DEF EmptyMidway, EmptyHeld
<1>13. CASE EmptyOpendir
  <2>0. pc = "opendir" /\ \A o \in Obj : Kept(n, o) => Kind[o] = "dir"
    BY <1>1, <1>13 DEF EmptyOpendir, Asks, EmptyMidway
  <2>1. CASE KindAt(n) = "dir" /\ met' = entry[n] /\ Goes("readdir")
    <3>1. pc' = "readdir" /\ met' \in Obj /\ Names(n, met') \in ever' /\ \A o \in Obj : Kept(n, o)' => o = met'
      BY <1>2, <1>3, <1>8, <2>1 DEF Goes
    <3> QED BY <1>4, <3>1 DEF EmptyMidway, EmptyHeld, Done, Names
  <2>2. CASE KindAt(n) # "dir" /\ Answers(FALSE)
    <3>1. pc' = "done" /\ ~answer' /\ \A o \in Obj : ~Kept(n, o)'
      BY <1>2, <1>3, <1>7, <2>0, <2>2 DEF Answers, Goes
    <3> QED BY <1>4, <3>1 DEF EmptyMidway, EmptyHeld
  <2> QED BY <1>13, <2>1, <2>2 DEF EmptyOpendir
<1>14. CASE EmptyReaddir
  <2>0. /\ pc = "readdir" /\ met \in Obj /\ Names(n, met) \in ever
        /\ \A o \in Obj : Kept(n, o) => o = met
    BY <1>1, <1>14 DEF EmptyReaddir, Asks, EmptyMidway
  <2>1. pc' = "done" /\ answer' = (met \notin full /\ ~DotsCount(call.build, met))
    BY <1>14 DEF EmptyReaddir, Answers, Goes
  <2>2. answer' => \E o \in Obj : Names(n, o) \in ever' /\ Empty0(o) \in ever'
    BY <1>2, <1>3, <2>0, <2>1
  <2>3. \A o \in Obj : ~answer' /\ Kept(n, o)' /\ Empty0(o) \in always' =>
          call.build = "c" /\ o \notin Typed
    BY <1>2, <1>3, <2>0, <2>1 DEF DotsCount
  <2> QED BY <1>4, <2>1, <2>2, <2>3 DEF EmptyMidway, EmptyHeld
<1> QED BY <1>10, <1>11, <1>12, <1>13, <1>14

(* fs_equivalent: what kept its place has the number it had.               *)
LEMMA SameSteps ==
  ASSUME IInv, AInv, Later, UNCHANGED <<treeVars, call>>, EquivalentFirst \/ EquivalentSecond
  PROVE  SameMidway' /\ SameHeld' /\ pc' \in {"stat2", "done"}
<1> DEFINE n == call.path
           m == call.other
<1>1. /\ TypeOK /\ Moments /\ SameMidway /\ Numbered /\ n \in Path /\ m \in Path /\ pc # "idle"
  BY CallType DEF IInv, AInv, TypeOK, EquivalentFirst, EquivalentSecond, Asks
<1>2. /\ entry[n] \in Obj \cup {NoObj} /\ entry[m] \in Obj \cup {NoObj}
      /\ \A o : /\ Kept(n, o) => entry[n] = o
                /\ Kept(m, o) => entry[m] = o
                /\ Kept(n, o)' => Kept(n, o)
                /\ Kept(m, o)' => Kept(m, o)
  BY <1>1, NowAndEver, LaterFacts DEF TypeOK
<1>3. call' = call
  OBVIOUS
<1>4. CASE EquivalentFirst
  <2>1. CASE Missing(n) /\ Answers(FALSE)
    <3>1. pc' = "done" /\ \A o \in Obj : ~Kept(n, o)'
      BY <1>2, <2>1, ObjAssumption DEF Answers, Goes, Missing, Is
    <3> QED BY <1>3, <3>1 DEF SameMidway, SameHeld
  <2>2. CASE ~Missing(n) /\ met' = entry[n] /\ Goes("stat2")
    <3>1. pc' = "stat2" /\ met' \in Obj /\ \A o \in Obj : Kept(n, o)' => o = met'
      BY <1>2, <2>2 DEF Goes, Missing, Is
    <3> QED BY <1>3, <3>1 DEF SameMidway, SameHeld, Done
  <2> QED BY <1>4, <2>1, <2>2 DEF EquivalentFirst
<1>5. CASE EquivalentSecond
  <2>1. pc = "stat2" /\ met \in Obj /\ \A o \in Obj : Kept(n, o) => o = met
    BY <1>1, <1>5 DEF EquivalentSecond, Asks, SameMidway
  <2>2. pc' = "done" /\ answer' = (~Missing(m) /\ Number[met] = Number[entry[m]])
    BY <1>5 DEF EquivalentSecond, Answers, Goes, SameFile
  <2>3. ASSUME NEW o1 \in Obj, NEW o2 \in Obj, Kept(n, o1)', Kept(m, o2)'
        PROVE  answer' <=> o1 = o2
    <3>1. entry[n] = o1 /\ entry[m] = o2 /\ met = o1 /\ ~Missing(m)
      BY <1>2, <2>1, <2>3, ObjAssumption DEF Missing, Is
    <3>2. Number[o1] = Number[o2] => o1 = o2
      BY <1>1, <3>1 DEF Numbered
    <3> QED BY <2>2, <3>1, <3>2
  <2> QED BY <1>3, <2>2, <2>3 DEF SameMidway, SameHeld
<1> QED BY <1>4, <1>5

(* A step of an inquiry, for what is promised of all calls.                *)
Promised ==
  /\ Belongs /\ EmptyMidway /\ SameMidway /\ VarsMidway /\ UsersMidway
  /\ EmptyHeld /\ SameHeld /\ AccountsHold

LEMMA InquiryKeepsPromised ==
  ASSUME IInv, AInv, Later, InquiryStep, UNCHANGED <<accountVars, text>>
  PROVE  Promised'
<1>1. UNCHANGED <<treeVars, call>>
  BY DEF InquiryStep, Ask, EmptyKind, EmptySize, EmptyIsFile, EmptyOpendir, EmptyReaddir,
         EquivalentFirst, EquivalentSecond, Goes, Answers
<1>2. Belongs
  BY DEF AInv
<1>3. CASE Ask
  <2>1. pc' = "done" /\ call.op \in Inquired
    BY <1>2, <1>3 DEF Ask, Asks, Answers, Goes, Belongs
  <2>2. EmptyHeld' /\ SameHeld' /\ AccountsHold'
    BY <1>1, <2>1, NotAsked DEF Inquired, Accounted, Owners, Homes
  <2> QED BY <2>1, <2>2 DEF Promised, Belongs, EmptyMidway, SameMidway, VarsMidway, UsersMidway
<1>4. CASE EmptyKind \/ EmptySize \/ EmptyIsFile \/ EmptyOpendir \/ EmptyReaddir
  <2>1. EmptyMidway' /\ EmptyHeld' /\ pc' \in {"size", "isfile", "opendir", "readdir", "done"}
    BY <1>1, <1>4, EmptySteps
  <2>2. call.op = "is_empty"
    BY <1>2, <1>4 DEF Belongs, EmptyKind, EmptySize, EmptyIsFile, EmptyOpendir, EmptyReaddir, Asks
  <2>3. SameHeld' /\ AccountsHold'
    BY <1>1, <2>2, NotAsked DEF Accounted, Owners, Homes
  <2> QED BY <1>1, <2>1, <2>2, <2>3 DEF Promised, Belongs, SameMidway, VarsMidway, UsersMidway
<1>5. CASE EquivalentFirst \/ EquivalentSecond
  <2>1. SameMidway' /\ SameHeld' /\ pc' \in {"stat2", "done"}
    BY <1>1, <1>5, SameSteps
  <2>2. call.op = "equivalent"
    BY <1>2, <1>5 DEF Belongs, EquivalentFirst, EquivalentSecond, Asks
  <2>3. EmptyHeld' /\ AccountsHold'
    BY <1>1, <2>2, NotAsked DEF Accounted, Owners, Homes
  <2> QED BY <1>1, <2>1, <2>2, <2>3 DEF Promised, Belongs, EmptyMidway, VarsMidway, UsersMidway
<1> QED BY <1>3, <1>4, <1>5 DEF InquiryStep

LEMMA WhichKeepsPromised ==
  ASSUME IInv, AInv, WhichStep, UNCHANGED call
  PROVE  Promised'
<1>1. call.op = "which"
  BY DEF AInv, Belongs, WhichStep, GivenIsDir, NameIsFile, NameIsExe, PartIsFile, PartIsExe, Asks
<1>2. pc' \in {"nameisfile", "nameisexe", "part", "partisexe", "done"}
  BY DEF WhichStep, GivenIsDir, NameIsFile, NameIsExe, PartIsFile, PartIsExe, Nothing, SearchBegins,
         LoopGoesOn, StepsTo, Goes
<1>3. EmptyHeld' /\ SameHeld' /\ AccountsHold'
  BY <1>1, NotAsked DEF Accounted, Owners, Homes
<1> QED BY <1>1, <1>2, <1>3 DEF Promised, Belongs, EmptyMidway, SameMidway, VarsMidway, UsersMidway

LEMMA BeginKeepsPromised ==
  ASSUME IInv, Begin
  PROVE  Promised'
<1>1. call.op \in Ops \cup Inquired
  BY CallType DEF IInv, TypeOK
<1>2. /\ pc' \in {"ask", "status", "stat1", "nameisfile", "given", "setenv", "xdg", "home", "tmpdir",
                  "owner", "lookup"}
      /\ pc' = "ask" => call.op \in Inquired
      /\ pc' = "status" => call.op = "is_empty"
      /\ pc' = "stat1" => call.op = "equivalent"
      /\ pc' \in {"nameisfile", "given"} => call.op = "which"
      /\ pc' = "setenv" => call.op = "setenv"
      /\ pc' = "xdg" => call.op = "user_config_dir"
      /\ pc' = "home" => call.op = "get_homedir"
      /\ pc' = "tmpdir" => call.op = "get_tempdir"
      /\ pc' = "owner" => call.op \in Owners
      /\ pc' = "lookup" => call.op \in Accounted \ Homes
  BY <1>1 DEF Begin, FirstStep, Ops, Inquired, Owners, Accounted, Homes
<1>3. UNCHANGED call
  BY DEF Begin
<1>4. EmptyHeld' /\ SameHeld' /\ AccountsHold'
  BY <1>2, <1>3, NotAsked
<1>5. Belongs'
  BY <1>2, <1>3 DEF Belongs, Homes
<1>6. EmptyMidway' /\ SameMidway'
  BY <1>2 DEF EmptyMidway, SameMidway
<1>7. VarsMidway'
  BY <1>2, <1>3 DEF VarsMidway, Homes, Accounted
<1>8. UsersMidway'
  BY <1>2, <1>3 DEF UsersMidway, Owned, Accounted, Homes
<1> QED BY <1>4, <1>5, <1>6, <1>7, <1>8 DEF Promised

-----------------------------------------------------------------------------
(* An answer that one of the variables gives.                              *)
Remembers(v, x) == <<"var", v, x>> \in ever'

LEMMA FromVariable ==
  ASSUME IInv, NEW v \in Var, pc # "idle", Later
  PROVE  /\ Has(v) => /\ fs_getenv(v) \in Text /\ fs_getenv(v) = environ[v]
                      /\ environ[v] # Unset /\ environ[v] # Empty /\ Remembers(v, environ[v])
         /\ ~Has(v) => Nowhere(v)'
<1>1. environ[v] \in Text \cup {Unset, Empty} /\ Remembers(v, environ[v])
  BY NowAndEver DEF IInv, TypeOK, Value, Was, Later, Remembers
<1>2. CASE Has(v)
  BY <1>1, <1>2 DEF Has, fs_getenv
<1>3. CASE ~Has(v)
  <2>1. environ[v] \in {Unset, Empty}
    BY <1>3 DEF Has, fs_getenv
  <2> QED BY <1>1, <1>3, <2>1 DEF Nowhere, Was, Remembers
<1> QED BY <1>2, <1>3

(* $XDG_CONFIG_HOME and $HOME.                                             *)
LEMMA HomeSteps ==
  ASSUME IInv, AInv, Later, ReadXdgConfigHome \/ ReadHome
  PROVE  Promised'
<1>1. /\ pc # "idle" /\ call.op \in Homes /\ pc \in {"xdg", "home"}
      /\ pc = "xdg" => call.op = "user_config_dir"
  BY DEF AInv, Belongs, ReadXdgConfigHome, ReadHome, Asks, Homes
<1>2. UNCHANGED call
  BY DEF ReadXdgConfigHome, ReadHome, Says, Onward, Goes
<1>3. EmptyHeld' /\ SameHeld'
  BY <1>1, <1>2, NotAsked DEF Homes
<1>4. \A v : Nowhere(v) => Nowhere(v)'
  BY LaterFacts
<1>5. ASSUME pc' = "done", HomesHold'
      PROVE  Promised'
  <2>1. AccountsHold'
    BY <1>1, <1>2, <1>5 DEF AccountsHold, TempdirHolds, NamesHold, OwnersHold, Done, Homes
  <2> QED BY <1>3, <1>5, <2>1 DEF Promised, Belongs, EmptyMidway, SameMidway, VarsMidway, UsersMidway
<1>6. CASE ReadXdgConfigHome
  <2> DEFINE v == "XDG_CONFIG_HOME"
  <2>1. pc = "xdg" /\ call.op = "user_config_dir" /\ v \in Var
    BY <1>1, <1>6 DEF ReadXdgConfigHome, Asks, Var
  <2>2. CASE Has(v)
    <3>1. pc' = "done" /\ text' = environ[v] /\ FromVar(v, text)'
      BY <1>1, <1>6, <2>1, <2>2, FromVariable DEF ReadXdgConfigHome, Says, Goes, FromVar, Was, Remembers
    <3> QED BY <1>2, <1>5, <2>1, <3>1 DEF HomesHold, Done
  <2>3. CASE ~Has(v)
    <3>1. pc' = "home" /\ Nowhere(v)'
      BY <1>1, <1>6, <2>1, <2>3, FromVariable DEF ReadXdgConfigHome, Onward, Goes
    <3>2. AccountsHold'
      BY <1>2, <3>1, NotAsked
    <3> QED BY <1>1, <1>2, <1>3, <3>1, <3>2
            DEF Promised, Belongs, EmptyMidway, SameMidway, VarsMidway, UsersMidway
  <2> QED BY <2>2, <2>3
<1>7. CASE ReadHome
  <2>1. pc = "home" /\ "HOME" \in Var /\ (call.op = "user_config_dir" => Nowhere("XDG_CONFIG_HOME")')
    BY <1>4, <1>7 DEF ReadHome, Asks, Var, AInv, VarsMidway
  <2>2. CASE Has("HOME")
    <3>1. /\ pc' = "done" /\ environ["HOME"] \in Text /\ Remembers("HOME", environ["HOME"])
          /\ text' = FromHome(fs_drop_slash(environ["HOME"]))
      BY <1>1, <1>7, <2>1, <2>2, FromVariable DEF ReadHome, Says, Goes
    <3>2. FromHomeVar(text)'
      BY <1>2, <3>1 DEF FromHomeVar, FromHome, fs_drop_slash, Was, Remembers
    <3> QED BY <1>1, <1>2, <1>5, <2>1, <3>1, <3>2 DEF HomesHold, Done, Homes
  <2>3. CASE ~Has("HOME")
    <3>1. pc' = "lookup" /\ Nowhere("HOME")'
      BY <1>1, <1>7, <2>1, <2>3, FromVariable DEF ReadHome, Onward, Goes
    <3>2. AccountsHold'
      BY <1>2, <3>1, NotAsked
    <3>3. Belongs' /\ VarsMidway'
      BY <1>1, <1>2, <2>1, <3>1 DEF Belongs, VarsMidway, Accounted
    <3>4. UsersMidway'
      BY <1>1, <1>2, <3>1 DEF UsersMidway, Owned, Homes
    <3> QED BY <1>3, <3>1, <3>2, <3>3, <3>4 DEF Promised, EmptyMidway, SameMidway
  <2> QED BY <2>2, <2>3
<1> QED BY <1>6, <1>7

(* The temporary directory.                                                *)
LEMMA TempdirSteps ==
  ASSUME IInv, AInv, Later, Moments, ReadTmpdir \/ TmpIsDir
  PROVE  Promised'
<1>1. /\ pc \in {"tmpdir", "tmpisdir"} /\ call.op = "get_tempdir" /\ call.build \in Builds
      /\ environ \in [Var -> Value] /\ Tmp \in Path
  BY CallType, TmpAssumption DEF AInv, Belongs, ReadTmpdir, TmpIsDir, Asks, IInv, TypeOK
<1>2. UNCHANGED call
  BY DEF ReadTmpdir, TmpIsDir, Says, Goes
<1>3. EmptyHeld' /\ SameHeld'
  BY <1>1, <1>2, NotAsked
<1>4. Written(Tmp) \in Text /\ Written(Tmp) # Empty /\ {"TMPDIR", "TMP"} \subseteq Var
  <2>1. Written(Tmp) \in Text
    BY <1>1 DEF Written, Text
  <2>2. {"TMPDIR", "TMP"} \subseteq Var
    BY DEF Var
  <2> QED BY <2>1, <2>2, NothingAssumption
<1>5. /\ \A v \in Var : Remembers(v, environ[v])
      /\ \A v, x : Was(v, x) => Remembers(v, x)
      /\ \A v : Nowhere(v) => Nowhere(v)'
  BY <1>1, NowAndEver, LaterFacts DEF Was, Later, Remembers
<1>6. ASSUME pc' = "done", TempdirHolds'
      PROVE  Promised'
  <2>1. AccountsHold'
    BY <1>1, <1>2, <1>6 DEF AccountsHold, HomesHold, NamesHold, OwnersHold, Done
  <2> QED BY <1>3, <1>6, <2>1 DEF Promised, Belongs, EmptyMidway, SameMidway, VarsMidway, UsersMidway
<1>7. ASSUME pc' = "tmpisdir", VarsMidway'
      PROVE  Promised'
  <2>1. AccountsHold'
    BY <1>2, <1>7, NotAsked
  <2> QED BY <1>1, <1>2, <1>3, <1>7, <2>1 DEF Promised, Belongs, EmptyMidway, SameMidway, UsersMidway
<1>8. CASE ReadTmpdir
  <2>1. CASE call.build = "cxx" /\ Goes("tmpisdir")
             /\ text' = IF environ["TMPDIR"] # Unset THEN environ["TMPDIR"]
                        ELSE IF environ["TMP"] # Unset THEN environ["TMP"] ELSE Written(Tmp)
    <3>1. pc' = "tmpisdir"
      BY <2>1 DEF Goes
    <3>2. environ["TMPDIR"] = Unset => Nowhere("TMPDIR")'
      BY <1>4, <1>5 DEF Nowhere, Was, Remembers
    <3>3. \/ Nowhere("TMPDIR")' /\ text' = Written(Tmp)
          \/ /\ text' \in Text \cup {Empty} /\ text' # Unset
             /\ Was("TMPDIR", text)' \/ (Nowhere("TMPDIR")' /\ Was("TMP", text)')
      BY <1>1, <1>4, <1>5, <2>1, <3>2 DEF Value, Was, Remembers
    <3>4. VarsMidway'
      BY <1>2, <2>1, <3>1, <3>3 DEF VarsMidway
    <3> QED BY <1>7, <3>1, <3>4
  <2>2. CASE call.build = "c" /\ Has("TMPDIR") /\ Says(fs_getenv("TMPDIR"))
    <3>1. pc' = "done" /\ text' # Empty /\ FromVar("TMPDIR", text)'
      BY <1>1, <1>4, <2>2, FromVariable DEF Says, Goes, FromVar, Was, Remembers
    <3>2. TempdirHolds'
      BY <1>2, <2>2, <3>1 DEF TempdirHolds
    <3> QED BY <1>6, <3>1, <3>2
  <2>3. CASE ~Has("TMPDIR") /\ text' = Written(Tmp) /\ Goes("tmpisdir")
    <3>1. pc' = "tmpisdir" /\ Nowhere("TMPDIR")' /\ text' = Written(Tmp)
      BY <1>1, <1>4, <2>3, FromVariable DEF Goes
    <3>2. VarsMidway'
      BY <3>1 DEF VarsMidway
    <3> QED BY <1>7, <3>1, <3>2
  <2> QED BY <1>8, <2>1, <2>2, <2>3 DEF ReadTmpdir
<1>9. CASE TmpIsDir
  <2>1. /\ pc = "tmpisdir" /\ pc' = "done"
        /\ text' = IF text # Empty /\ fs_is_dir(call.build, text.dir) THEN text ELSE Empty
    BY <1>9 DEF TmpIsDir, Asks, Says, Goes
  <2>2. \/ Nowhere("TMPDIR")' /\ text = Written(Tmp)
        \/ /\ call.build = "cxx" /\ text \in Text \cup {Empty} /\ text # Unset
           /\ Remembers("TMPDIR", text) \/ (Nowhere("TMPDIR")' /\ Remembers("TMP", text))
    BY <1>5, <2>1 DEF AInv, VarsMidway
  <2>3. \A n \in Path : /\ fs_is_dir(call.build, n) => <<"dir", n>> \in ever'
                        /\ <<"dir", n>> \in always' => fs_is_dir(call.build, n)
    BY <1>1, NowAndEver DEF Later
  <2>4. text \in Text => text.dir \in Path
    BY DEF Text
  <2>5. CASE text # Empty /\ fs_is_dir(call.build, text.dir)
    <3>1. text' = text /\ text \in Text /\ <<"dir", text.dir>> \in ever'
      BY <1>4, <2>1, <2>2, <2>3, <2>4, <2>5
    <3>2. /\ IsDirEver(text)' /\ text' # Empty
          /\ \/ FromVar("TMPDIR", text)'
             \/ call.build = "cxx" /\ Nowhere("TMPDIR")' /\ FromVar("TMP", text)'
             \/ Nowhere("TMPDIR")' /\ text' = Written(Tmp)
      BY <2>2, <2>5, <3>1, NothingAssumption DEF IsDirEver, FromVar, Was, Remembers
    <3>3. TempdirHolds'
      BY <1>2, <3>2 DEF TempdirHolds
    <3> QED BY <1>6, <2>1, <3>3
  <2>6. CASE ~(text # Empty /\ fs_is_dir(call.build, text.dir))
    <3>1. text' = Empty
      BY <2>1, <2>6
    <3>2. text # Empty => text \in Text /\ <<"dir", text.dir>> \notin always'
      BY <1>4, <2>2, <2>3, <2>4, <2>6
    <3>3. \/ ~IsDirAlways(Written(Tmp))'
          \/ \E v \in {"TMPDIR", "TMP"} :
               \/ call.build = "cxx" /\ Was(v, Empty)'
               \/ call.build = "cxx" /\ \E x \in Text : Was(v, x)' /\ ~IsDirAlways(x)'
      <4>1. CASE text = Written(Tmp)
        BY <1>4, <3>2, <4>1 DEF IsDirAlways, Written
      <4>2. CASE call.build = "cxx" /\ (Remembers("TMPDIR", text) \/ Remembers("TMP", text))
        BY <3>2, <4>2 DEF IsDirAlways, Was, Remembers
      <4> QED BY <2>2, <4>1, <4>2
    <3>4. TempdirHolds'
      BY <1>2, <3>1, <3>3 DEF TempdirHolds
    <3> QED BY <1>6, <2>1, <3>4
  <2> QED BY <2>5, <2>6
<1> QED BY <1>8, <1>9

(* The user database: who is asked for, and what the buffer holds.         *)
LEMMA UserSteps ==
  ASSUME IInv, AInv, Later, UNCHANGED looked, StatOwner \/ LookUp \/ CopyField
  PROVE  Promised'
<1>1. /\ call.op \in Accounted \cup Owners /\ pc \in {"owner", "lookup", "copy"}
      /\ pc = "owner" => call.op \in Owners
      /\ call \in Calls /\ call.path \in Path
  BY CallType DEF AInv, Belongs, StatOwner, LookUp, CopyField, Asks, IInv, TypeOK
<1>2. UNCHANGED call
  BY DEF StatOwner, LookUp, CopyField, Says, Goes
<1>3. EmptyHeld' /\ SameHeld'
  BY <1>1, <1>2, NotAsked DEF Accounted, Owners, Homes
<1>4. /\ Owned <=> call.op \in Owners
      /\ Base \in Db /\ Base' = Base /\ Field' = Field /\ Owned' = Owned
      /\ ~Owned => Base = "pw" /\ Wanted(Base) = Self
      /\ Owned => Wanted(Base) = Holder[Base][met] /\ Field = "name"
      /\ call.op \in Homes => Field = "dir"
  BY <1>1, <1>2 DEF Owned, Owners, Base, Field, Db, Wanted, Accounted, Homes
<1>5. /\ \A v : Nowhere(v) => Nowhere(v)'
      /\ Names(call.path, entry[call.path]) \in ever
      /\ \A o : Names(call.path, o) \in ever => Names(call.path, o) \in ever'
  BY <1>1, NowAndEver, LaterFacts DEF IInv, Later, Names
<1>6. \A db, i, f : Stated(db, i, f)' = Stated(db, i, f)
  BY <1>2 DEF Stated, FromHome
<1>7. ASSUME pc' = "done", pc \in {"lookup", "copy"}, UNCHANGED met,
             Base \notin looked => text' = Stated(Base, Wanted(Base), Field)
      PROVE  Promised'
  <2>1. HomesHold'
    <3> SUFFICES ASSUME call.op \in Homes
                 PROVE  /\ call.op = "user_config_dir" => Nowhere("XDG_CONFIG_HOME")'
                        /\ Nowhere("HOME")'
                        /\ "pw" \in looked \/ text' = Stated("pw", Self, "dir")
      BY <1>2, <1>6 DEF HomesHold, Done, Homes
    <3>1. ~Owned
      BY <1>4 DEF Homes, Owners
    <3> QED BY <1>4, <1>5, <1>7, <3>1 DEF AInv, VarsMidway
  <2>2. NamesHold'
    <3> SUFFICES ASSUME call.op \in {"get_username", "get_shell", "get_profile_dir"}, Base \notin looked
                 PROVE  text' = Stated("pw", Self, Field)
      BY <1>2, <1>4, <1>6 DEF NamesHold, Done
    <3>1. ~Owned
      BY <1>4 DEF Owners
    <3> QED BY <1>4, <1>7, <3>1
  <2>3. OwnersHold'
    <3> SUFFICES ASSUME call.op \in Owners, Base \notin looked
                 PROVE  \E o \in Obj : /\ Names(call.path, o) \in ever'
                                       /\ text' = Stated(Base, Holder[Base][o], "name")
      BY <1>2, <1>4, <1>6 DEF OwnersHold, Done, Owners, Names
    <3>1. met \in Obj /\ Names(call.path, met) \in ever
      BY <1>4, <1>7 DEF AInv, UsersMidway
    <3> QED BY <1>4, <1>5, <1>7, <3>1
  <2>4. TempdirHolds'
    BY <1>1, <1>2 DEF TempdirHolds, Done, Accounted, Homes, Owners
  <2>5. AccountsHold'
    BY <2>1, <2>2, <2>3, <2>4 DEF AccountsHold
  <2> QED BY <1>3, <1>7, <2>5 DEF Promised, Belongs, EmptyMidway, SameMidway, VarsMidway, UsersMidway
<1>8. CASE StatOwner
  <2>0. pc = "owner" /\ call.op \in Owners
    BY <1>1, <1>8 DEF StatOwner, Asks
  <2>1. CASE Missing(call.path) /\ Says(Empty)
    <3>1. pc' = "done" /\ text' = Empty /\ Names(call.path, NoObj) \in ever'
      BY <1>5, <2>1 DEF Says, Goes, Missing, Is
    <3>2. AccountsHold'
      BY <1>2, <2>0, <3>1
      DEF AccountsHold, HomesHold, TempdirHolds, NamesHold, OwnersHold, Done, Owners, Names
    <3> QED BY <1>3, <3>1, <3>2 DEF Promised, Belongs, EmptyMidway, SameMidway, VarsMidway, UsersMidway
  <2>2. CASE ~Missing(call.path) /\ met' = entry[call.path] /\ Goes("lookup")
    <3>1. pc' = "lookup" /\ met' \in Obj /\ Names(call.path, met') \in ever'
      BY <1>1, <1>5, <2>2 DEF Goes, Missing, Is, IInv, TypeOK
    <3>2. AccountsHold'
      BY <1>2, <3>1, NotAsked
    <3>3. VarsMidway' /\ UsersMidway'
      BY <1>2, <2>0, <3>1 DEF VarsMidway, UsersMidway, Owners, Homes, Names
    <3> QED BY <1>1, <1>2, <1>3, <3>1, <3>2, <3>3 DEF Promised, Belongs, EmptyMidway, SameMidway
  <2> QED BY <1>8, <2>1, <2>2 DEF StatOwner
<1>9. CASE LookUp
  <2>0. pc = "lookup"
    BY <1>9 DEF LookUp, Asks
  <2>1. CASE Record[Base][Wanted(Base)] = NoRecord /\ Says(Empty)
    <3>1. pc' = "done" /\ text' = Empty /\ UNCHANGED met
      BY <2>1 DEF Says, Goes, Keeps
    <3>2. text' = Stated(Base, Wanted(Base), Field)
      BY <2>1, <3>1 DEF Stated
    <3> QED BY <1>7, <2>0, <3>1, <3>2
  <2>2. CASE /\ Record[Base][Wanted(Base)] # NoRecord
             /\ buffer' = [buffer EXCEPT ![Base] = Wanted(Base)]
             /\ Goes("copy") /\ UNCHANGED <<environ, met, answer, text>>
    <3>1. pc' = "copy" /\ UNCHANGED met /\ buffer'[Base] = Wanted(Base)
      BY <1>4, <2>2 DEF Goes, IInv, TypeOK
    <3>2. AccountsHold'
      BY <1>2, <3>1, NotAsked
    <3>3. VarsMidway'
      BY <1>2, <1>5, <2>0, <3>1 DEF VarsMidway, AInv
    <3>4. Wanted(Base)' = Wanted(Base)
      BY <1>2, <3>1 DEF Wanted, Owned, Base
    <3>5. UsersMidway'
      BY <1>2, <1>4, <1>5, <2>0, <2>2, <3>1, <3>4 DEF UsersMidway, AInv, Names
    <3> QED BY <1>1, <1>2, <1>3, <3>1, <3>2, <3>3, <3>5 DEF Promised, Belongs, EmptyMidway, SameMidway
  <2> QED BY <1>9, <2>1, <2>2 DEF LookUp
<1>10. CASE CopyField
  <2>1. pc = "copy" /\ pc' = "done" /\ text' = ReadFrom(Base, Field) /\ UNCHANGED met
    BY <1>10 DEF CopyField, Asks, Says, Goes, Keeps
  <2>2. Wanted(Base) \in Id
    BY <1>4, <2>1, SelfAssumption, HolderAssumption DEF AInv, UsersMidway
  <2>3. Base \notin looked => text' = Stated(Base, Wanted(Base), Field)
    BY <2>1, <2>2, SelfAssumption DEF AInv, UsersMidway, ReadFrom, Stated, fs_drop_slash
  <2> QED BY <1>7, <2>1, <2>3
<1> QED BY <1>8, <1>9, <1>10

LEMMA AccountKeepsPromised ==
  ASSUME IInv, AInv, Later, UNCHANGED looked, AccountStep
  PROVE  Promised'
<1>1. CASE Setenv
  <2>1. call.op = "setenv" /\ pc' = "done" /\ UNCHANGED call
    BY <1>1 DEF Setenv, Asks, Answers, Goes, AInv, Belongs
  <2>2. EmptyHeld' /\ SameHeld' /\ AccountsHold'
    BY <2>1, NotAsked DEF Accounted, Owners, Homes
  <2> QED BY <2>1, <2>2 DEF Promised, Belongs, EmptyMidway, SameMidway, VarsMidway, UsersMidway
<1>2. CASE ReadXdgConfigHome \/ ReadHome
  BY <1>2, HomeSteps
<1>3. CASE ReadTmpdir \/ TmpIsDir
  <2>1. Moments
    BY DEF IInv
  <2> QED BY <1>3, <2>1, TempdirSteps
<1>4. CASE StatOwner \/ LookUp \/ CopyField
  BY <1>4, UserSteps
<1> QED BY <1>1, <1>2, <1>3, <1>4 DEF AccountStep

(* The others disturb nothing that was so at some moment, and fill no      *)
(* buffer without being remembered for it.                                 *)
LEMMA EnvKeepsPromised ==
  ASSUME IInv, AInv, Later, Env
  PROVE  Promised'
<1>1. UNCHANGED <<call, pc, met, text>> /\ pc # "done"
  BY DEF Env, Other, Busy
<1>2. EmptyHeld' /\ SameHeld' /\ AccountsHold'
  BY <1>1, NotAsked
<1>3. /\ \A n, o : Kept(n, o)' => Kept(n, o)
      /\ \A v, x : Was(v, x) => Was(v, x)'
      /\ \A v : Nowhere(v) => Nowhere(v)'
      /\ \A n, o : Names(n, o) \in ever => Names(n, o) \in ever'
      /\ \A o : <<"empty", o>> \in ever => <<"empty", o>> \in ever'
  BY LaterFacts DEF Later
<1>4. Belongs'
  BY <1>1 DEF AInv, Belongs
<1>5. EmptyMidway'
  BY <1>1, <1>3 DEF AInv, EmptyMidway, Kept, Names
<1>6. SameMidway'
  BY <1>1, <1>3 DEF AInv, SameMidway, Kept, Names
<1>7. VarsMidway'
  BY <1>1, <1>3 DEF AInv, VarsMidway, Was
<1>8. looked \subseteq looked' /\ \A db \in Db \ looked' : buffer'[db] = buffer[db]
  BY DEF Env, EnvPut, EnvFill, EnvSetenv, EnvSetPath, EnvLooksUp, OtherSetenv, fs_setenv, OtherLooksUp,
         accountVars, IInv, TypeOK
<1>9. UsersMidway'
  <2>1. Base \in Db /\ Base' = Base /\ Owned' = Owned /\ Wanted(Base)' = Wanted(Base)
    BY <1>1 DEF Base, Db, Wanted, Owned
  <2> QED BY <1>1, <1>3, <1>8, <2>1 DEF AInv, UsersMidway, Names
<1> QED BY <1>2, <1>4, <1>5, <1>6, <1>7, <1>9 DEF Promised

(* An inode number is given anew only when nothing has it.                 *)
LEMMA NumberedStays ==
  ASSUME IInv, AInv, Next
  PROVE  Numbered'
<1>1. CASE UNCHANGED entry
  BY <1>1 DEF AInv, Numbered
<1>2. ASSUME NEW n \in Path, NEW o \in Obj \cup {NoObj}, EnvPut(n, o)
      PROVE  Numbered'
  <2>1. entry \in [Path -> Obj \cup {NoObj}] /\ entry' = [entry EXCEPT ![n] = o]
    BY <1>2 DEF IInv, TypeOK, EnvPut
  <2>2. \A i \in Path : o # NoObj /\ entry[i] \in Obj /\ Number[entry[i]] = Number[o] => entry[i] = o
    BY <1>2, ObjAssumption DEF EnvPut, Distinct
  <2>3. \A i \in Path : entry'[i] = IF i = n THEN o ELSE entry[i]
    BY <2>1
  <2> QED BY <2>2, <2>3, ObjAssumption DEF AInv, Numbered
<1>3. CASE Begin
  BY <1>1, <1>3 DEF Begin
<1>4. CASE Step
  <2>1. UNCHANGED entry
    BY <1>4 DEF Step, InquiryStep, Ask, EmptyKind, EmptySize, EmptyIsFile, EmptyOpendir, EmptyReaddir,
                EquivalentFirst, EquivalentSecond, AccountStep, Setenv, ReadXdgConfigHome, ReadHome,
                ReadTmpdir, TmpIsDir, StatOwner, LookUp, CopyField, Says, Onward, WhichStep, GivenIsDir,
                NameIsFile, NameIsExe, PartIsFile, PartIsExe, Nothing, SearchBegins, LoopGoesOn, StepsTo,
                Answers, Goes, treeVars
  <2> QED BY <1>1, <2>1
<1>5. CASE Env
  BY <1>1, <1>2, <1>5 DEF Env, EnvFill, EnvSetenv, EnvSetPath, EnvLooksUp, treeVars
<1> QED BY <1>3, <1>4, <1>5 DEF Next

LEMMA AInit == Init => AInv
<1> SUFFICES ASSUME Init PROVE AInv
  OBVIOUS
<1>1. pc = "idle"
  BY DEF Init
<1>2. Numbered
  BY NumbersAssumption DEF Init, Numbered
<1> QED BY <1>1, <1>2 DEF AInv, Belongs, EmptyMidway, SameMidway, VarsMidway, UsersMidway, EmptyHeld,
                          SameHeld, AccountsHold, HomesHold, TempdirHolds, NamesHold, OwnersHold, Done

LEMMA ANext ==
  ASSUME IInv, AInv, [Next]_vars
  PROVE  AInv'
<1>1. ASSUME Promised', Numbered'
      PROVE  AInv'
  BY <1>1 DEF AInv, Promised
<1>2. CASE Begin
  BY <1>1, <1>2, BeginKeepsPromised, NumberedStays DEF Next
<1>3. CASE Step
  <2>1. Later /\ UNCHANGED looked
    BY <1>3, Remembered DEF Step, Later
  <2>2. InquiryStep /\ UNCHANGED <<accountVars, text>> => Promised'
    BY <2>1, InquiryKeepsPromised
  <2>3. AccountStep => Promised'
    BY <2>1, AccountKeepsPromised
  <2>4. WhichStep => Promised'
    <3>1. WhichStep => UNCHANGED call
      BY DEF WhichStep, GivenIsDir, NameIsFile, NameIsExe, PartIsFile, PartIsExe, Nothing, SearchBegins,
             LoopGoesOn, StepsTo, Goes
    <3> QED BY <3>1, WhichKeepsPromised
  <2> QED BY <1>1, <1>3, <2>2, <2>3, <2>4, NumberedStays DEF Step, Next
<1>4. CASE Env
  <2>1. Later
    BY <1>4, Remembered DEF Env, Later
  <2> QED BY <1>1, <1>4, <2>1, EnvKeepsPromised, NumberedStays DEF Next
<1>5. CASE UNCHANGED vars
  <2>1. Belongs' /\ Numbered' /\ EmptyMidway' /\ SameMidway'
    BY <1>5 DEF vars, AInv, Belongs, Numbered, EmptyMidway, SameMidway, Kept, Names
  <2>2. VarsMidway' /\ UsersMidway'
    BY <1>5 DEF vars, AInv, VarsMidway, UsersMidway, Nowhere, Was, Owned, Base, Wanted, Names
  <2>3. EmptyHeld' /\ SameHeld'
    BY <1>5 DEF vars, AInv, EmptyHeld, SameHeld, Kept, Names, Done
  <2>4. HomesHold' /\ TempdirHolds'
    BY <1>5 DEF vars, AInv, AccountsHold, HomesHold, TempdirHolds, Done, FromVar, FromHomeVar, FromHome,
                Nowhere, Was, Stated, IsDirEver, IsDirAlways
  <2>5. NamesHold' /\ OwnersHold'
    BY <1>5 DEF vars, AInv, AccountsHold, NamesHold, OwnersHold, Done, Base, Field, Stated, FromHome, Names
  <2> QED BY <2>1, <2>2, <2>3, <2>4, <2>5 DEF AInv, AccountsHold
<1> QED BY <1>2, <1>3, <1>4, <1>5 DEF Next

LEMMA AlwaysPromised == Spec => [](IInv /\ AInv)
<1>1. Init => IInv /\ AInv
  BY InvInit, AInit
<1>2. IInv /\ AInv /\ [Next]_vars => (IInv /\ AInv)'
  BY InvNext, ANext
<1> QED BY <1>1, <1>2, PTL DEF Spec

(* fs_is_empty calls empty only what was so during the call, fs_equivalent *)
(* is right about what kept its place, and the inquiries about the kind of *)
(* an object exclude each other (size.cpp:52, equivalent.cpp:42,           *)
(* inquire.cpp:126).                                                       *)
THEOREM InquiriesAlwaysHold == Spec => []InquiriesHold
<1>1. IInv /\ AInv => InquiriesHold
  BY KindsAlways DEF IInv, AInv, InquiriesHold
<1> QED BY <1>1, AlwaysPromised, PTL

(* Directories and names come from where the order of the variables and    *)
(* the databases says, unless another thread has filled the static buffer  *)
(* meanwhile (home.cpp:28, tempdir.cpp:25, owner.cpp:82, owner.cpp:123).   *)
THEOREM AccountsAlwaysHold == Spec => []AccountsHold
<1>1. IInv /\ AInv => AccountsHold
  BY DEF AInv
<1> QED BY <1>1, AlwaysPromised, PTL
=============================================================================
