--------------------------- MODULE Driver_proofs ---------------------------
(***************************************************************************)
(* For any input, any tables and any changes by others: every line that    *)
(* the driver is through with was answered once and in order, by the right *)
(* table; what is lost is lost for the reasons NothingLost gives; and a    *)
(* chdir or set_perm was carried out, or was reported for a reason.        *)
(***************************************************************************)
EXTENDS Driver, TLAPS

Steps == {"read", "ended", "thrown", "no_arg", "one_arg", "two_arg", "chdir", "cwd", "set_perm",
          "perm", "unknown"}
InLine == pc \in Steps \ {"read", "ended"}

Types ==
  /\ build \in {"cxx", "c"} /\ input \in Inputs /\ input \in Seq(Line)
  /\ at \in 0..Len(input) /\ args \in Seq(Word \cup {NoWord}) /\ pc \in Steps
  /\ cwd \in Places /\ lost \in BOOLEAN /\ disk \in [Places -> Thing \cup {Nothing}]
  /\ said \in Seq([line : Nat, by : {"no_arg", "one_arg", "two_arg", "unknown"}])
  /\ errors \subseteq 1..at /\ seen \subseteq [line : 1..at, thing : Thing \cup {Nothing}, lost : BOOLEAN]
  /\ nEnv \in 0..MaxEnv

(* What is at the path of the line in progress is among what was seen.     *)
Watching == InLine /\ pc # "thrown" => Sight \in seen

(* The words of the line in progress, and why it has come where it is.     *)
Words ==
  InLine =>
    /\ at >= 1 /\ Asked(at) # <<>>
    /\ Len(args) >= Len(Asked(at)) /\ \A n \in 1..Len(args) : args[n] = Arg(at, n)
    /\ pc # "no_arg" => Len(args) >= 2
    /\ pc \in {"two_arg", "set_perm", "perm", "unknown"} => Len(args) >= 3

Unlisted(i)   == \E s \in Sights(i) : ~Lists(s.thing)
Entered(i)    == \E s \in Sights(i) : Enters(s.thing) /\ ~s.lost
HasChanged(i) == \E s \in Sights(i) : s.thing # Nothing /\ s.thing = Changed(s.thing, Arg(i, 3))

Tables ==
  /\ pc \notin {"read", "ended", "no_arg"} => args[1] \notin NoArgs
  /\ pc \in {"chdir", "cwd"} => args[1] \in Chdir
  /\ pc \in {"two_arg", "unknown"} => args[1] \notin OneArgs \cup Chdir \cup {"ls"}
  /\ pc \in {"set_perm", "perm"} => args[1] = "set_perm"
  /\ pc = "unknown" => Owner(args[1]) = "unknown" \/ (args[1] = "set_perm" /\ Missed(at))
  /\ pc = "thrown" => args[1] = "ls" /\ Unlisted(at)
  /\ pc = "cwd" => args[2] = cwd /\ Entered(at)
  /\ pc = "perm" => at \in errors \/ HasChanged(at)

(* What was answered: nothing yet of the line in progress.                 *)
Behind ==
  \A k \in DOMAIN said : said[k].line \in 1..at /\ (InLine => said[k].line < at)

IInv == Types /\ Watching /\ Words /\ Tables /\ Behind /\ SessionHolds

-----------------------------------------------------------------------------
(* The lines of the input.                                                 *)
LEMMA LineFacts ==
  ASSUME Types, NEW i \in 1..Len(input)
  PROVE  /\ input[i] \in Line /\ Asked(i) \in Seq(Word) /\ Len(Asked(i)) \in Nat
         /\ Asked(i) # <<>> => Len(Asked(i)) >= 1 /\ Asked(i)[1] \in Word
         /\ Len(Asked(i)) >= 2 => Asked(i)[2] \in Word
<1>1. input[i] \in Line
  BY DEF Types
<1>2. Asked(i) \in Seq(Word)
  BY <1>1 DEF Line, Asked
<1> QED BY <1>1, <1>2

(* A word of a line, or the empty one.                                     *)
LEMMA ArgFacts ==
  ASSUME Types, NEW i \in 1..Len(input), NEW n \in {2, 3}
  PROVE  Arg(i, n) \in Word \cup {NoWord}
BY LineFacts DEF Arg

(* The words of the line in progress.                                      *)
LEMMA WordFacts ==
  ASSUME Types, Words, InLine
  PROVE  /\ at \in 1..Len(input) /\ args[1] = Asked(at)[1] /\ args[1] = Arg(at, 1)
         /\ pc # "no_arg" => args[2] = Arg(at, 2)
         /\ pc \in {"two_arg", "set_perm", "perm", "unknown"} => args[3] = Arg(at, 3)
<1>1. at \in 1..Len(input) /\ Len(args) \in Nat
  BY DEF Types, Words
<1>2. Len(Asked(at)) \in Nat /\ Len(Asked(at)) >= 1
  BY <1>1, LineFacts DEF Words
<1>3. args[1] = Asked(at)[1] /\ args[1] = Arg(at, 1)
  BY <1>1, <1>2 DEF Words, Arg
<1> QED BY <1>1, <1>3 DEF Words

(* What the driver finds at the path of the line in progress.              *)
LEMMA SightFacts ==
  ASSUME Types, Watching, Words, InLine, pc \notin {"no_arg", "thrown"}
  PROVE  \E s \in Sights(at) : s.thing = Found(args[2]) /\ s.lost = lost
<1>1. Sight \in seen /\ Sight.line = at /\ Sight.thing = Found(args[2]) /\ Sight.lost = lost
  BY WordFacts DEF Watching, Sight
<1> QED BY <1>1 DEF Sights

(* A path is a word of the line.                                           *)
LEMMA PlaceIsAsked ==
  ASSUME Types, Words, InLine, pc # "no_arg", args[2] \in Places
  PROVE  args[2] = Asked(at)[2]
<1>1. args[2] # NoWord
  BY PlacesAssumption, WordAssumption
<1> QED BY <1>1, WordFacts DEF Arg

(* What was seen is not forgotten.                                         *)
LEMMA Remembered ==
  ASSUME UNCHANGED <<build, input>>, seen \subseteq seen'
  PROVE  /\ \A i : Asked(i)' = Asked(i) /\ (\A n : Arg(i, n)' = Arg(i, n))
         /\ \A i : Missed(i) => Missed(i)'
         /\ \A i : Unlisted(i) => Unlisted(i)'
         /\ \A i : Entered(i) => Entered(i)'
         /\ \A i : HasChanged(i) => HasChanged(i)'
         /\ \A i : Caused(i) => Caused(i)'
         /\ \A i : CarriedOut(i) => CarriedOut(i)'
<1>1. \A i : Sights(i) \subseteq Sights(i)'
  BY DEF Sights
<1>2. \A i : Asked(i)' = Asked(i) /\ (\A n : Arg(i, n)' = Arg(i, n))
  BY DEF Asked, Arg
<1>3. \A t, w : MayChange(t, w)' <=> MayChange(t, w)
  BY DEF MayChange
<1>4. \A i : Missed(i) => Missed(i)'
  BY <1>1 DEF Missed
<1>5. \A i : Unlisted(i) => Unlisted(i)'
  BY <1>1 DEF Unlisted
<1>6. \A i : Entered(i) => Entered(i)'
  BY <1>1 DEF Entered
<1>7. \A i : HasChanged(i) => HasChanged(i)'
  BY <1>1, <1>2 DEF HasChanged
<1>8. ASSUME NEW i, Caused(i)
      PROVE  Caused(i)'
  <2>1. CASE Owner(Asked(i)[1]) = "unknown" \/ Asked(i)[1] = "ls"
    BY <1>2, <2>1 DEF Caused, Owner
  <2>2. CASE Asked(i)[1] \in Chdir /\ \E s \in Sights(i) : s.lost \/ ~Enters(s.thing)
    BY <1>1, <1>2, <2>2 DEF Caused
  <2>3. CASE Asked(i)[1] = "set_perm" /\ \E s \in Sights(i) : ~MayChange(s.thing, Arg(i, 3))
    <3>1. PICK s \in Sights(i) : ~MayChange(s.thing, Arg(i, 3))
      BY <2>3
    <3>2. s \in Sights(i)' /\ ~MayChange(s.thing, Arg(i, 3))'
      BY <1>1, <1>2, <1>3, <3>1 DEF MayChange
    <3> QED BY <1>2, <2>3, <3>2 DEF Caused
  <2> QED BY <1>8, <2>1, <2>2, <2>3 DEF Caused
<1>9. ASSUME NEW i, CarriedOut(i)
      PROVE  CarriedOut(i)'
  <2>1. Asked(i)[1] \in Chdir => Entered(i)'
    BY <1>6, <1>9 DEF CarriedOut, Entered
  <2>2. Asked(i)[1] = "set_perm" => HasChanged(i)'
    BY <1>7, <1>9 DEF CarriedOut, HasChanged
  <2> QED BY <1>2, <2>1, <2>2 DEF CarriedOut, Entered, HasChanged
<1> QED BY <1>2, <1>4, <1>5, <1>6, <1>7, <1>8, <1>9

LEMMA WatchedFacts ==
  ASSUME Types, Watched, UNCHANGED input, at' \in 0..Len(input), at <= at', pc' \in Steps,
         pc' \notin {"read", "ended", "thrown"} => at' >= 1,
         lost' \in BOOLEAN, disk' \in [Places -> Thing \cup {Nothing}]
  PROVE  /\ seen \subseteq seen' /\ Watching'
         /\ seen' \subseteq [line : 1..at', thing : Thing \cup {Nothing}, lost : BOOLEAN]
<1>1. at \in Nat /\ at' \in Nat /\ 1..at \subseteq 1..at'
  BY DEF Types
<1>2. seen \subseteq [line : 1..at', thing : Thing \cup {Nothing}, lost : BOOLEAN]
  BY <1>1 DEF Types
<1>3. CASE pc' \in {"read", "ended", "thrown"}
  BY <1>2, <1>3 DEF Watched, Watching, InLine
<1>4. CASE pc' \notin {"read", "ended", "thrown"}
  <2>1. at' \in 1..at'
    BY <1>1, <1>4
  <2>2. \A p : Found(p)' \in Thing \cup {Nothing}
    BY DEF Found
  <2>3. Sight' \in [line : 1..at', thing : Thing \cup {Nothing}, lost : BOOLEAN]
    <3>1. Sight' = [line |-> at', thing |-> Found(Arg(at, 2))', lost |-> lost']
      BY DEF Sight
    <3>2. Found(Arg(at, 2))' \in Thing \cup {Nothing}
      BY DEF Found
    <3> QED BY <2>1, <3>1, <3>2
  <2>4. seen' = seen \cup {Sight'}
    BY <1>4 DEF Watched
  <2> QED BY <1>2, <2>3, <2>4 DEF Watching
<1> QED BY <1>3, <1>4

(* Changing permissions once more changes nothing.                         *)
LEMMA ChangedTwice ==
  ASSUME NEW t \in Thing, NEW w \in Word \cup {NoWord}
  PROVE  /\ Changed(t, w) \in Thing /\ Changed(t, w) # Nothing
         /\ Changed(t, w) = Changed(Changed(t, w), w)
<1>1. Gives[w] \subseteq Bits /\ Takes[w] \subseteq Bits
  BY PlacesAssumption
<1>2. t = [kind |-> t.kind, owned |-> t.owned, bits |-> t.bits] /\ t.kind \in {"file", "dir"}
      /\ t.owned \in BOOLEAN /\ t.bits \subseteq Bits
  BY DEF Thing
<1>3. Changed(t, w) = [kind |-> t.kind, owned |-> t.owned, bits |-> (t.bits \cup Gives[w]) \ Takes[w]]
  BY <1>2 DEF Changed
<1>4. ((((t.bits \cup Gives[w]) \ Takes[w]) \cup Gives[w]) \ Takes[w]) = (t.bits \cup Gives[w]) \ Takes[w]
  OBVIOUS
<1>5. Changed(Changed(t, w), w) = [kind |-> t.kind, owned |-> t.owned, bits |-> (t.bits \cup Gives[w]) \ Takes[w]]
  BY <1>3, <1>4 DEF Changed
<1>6. Changed(t, w) \in Thing
  BY <1>1, <1>2, <1>3 DEF Thing
<1>7. Changed(t, w) # Nothing
  BY <1>2, <1>3 DEF Nothing
<1> QED BY <1>3, <1>5, <1>6, <1>7

-----------------------------------------------------------------------------
(***************************************************************************)
(* A step in the middle of a line, or at its end.                          *)
(***************************************************************************)
Right(by) ==
  \/ by = Owner(Asked(at)[1])
  \/ by = "unknown" /\ Asked(at)[1] = "set_perm" /\ Missed(at)

Moves(i) == Asked(i) # <<>> /\ Asked(i)[1] \in Chdir

LEMMA MiddleOfLine ==
  ASSUME IInv, InLine, InLine', UNCHANGED <<build, input, at, said>>, seen \subseteq seen'
  PROVE  AnsweredOnce' /\ Behind'
<1>1. \A i : Over(i)' => Over(i)
  BY DEF Over, InLine
<1>2. \A i : Verdicts(i)' = Verdicts(i) /\ Asked(i)' = Asked(i) /\ (Missed(i) => Missed(i)')
  BY Remembered DEF Verdicts
<1>3. \A i : Owner(Asked(i)[1])' = Owner(Asked(i)[1])
  BY <1>2 DEF Owner
<1>4. ASSUME NEW i \in 1..at', Over(i)'
      PROVE  \/ Asked(i)' = <<>> /\ Verdicts(i)' = {}
             \/ \E k \in DOMAIN said' :
                  /\ Verdicts(i)' = {k}
                  /\ \/ said'[k].by = Owner(Asked(i)'[1])
                     \/ said'[k].by = "unknown" /\ Asked(i)'[1] = "set_perm" /\ Missed(i)'
  BY <1>1, <1>2, <1>3, <1>4 DEF IInv, SessionHolds, AnsweredOnce, Owner
<1>5. AnsweredOnce'
  BY <1>4 DEF IInv, SessionHolds, AnsweredOnce, Owner
<1> QED BY <1>5 DEF IInv, Behind

(* The answer is the only one to its line, and the last one so far.        *)
LEMMA EndOfLine ==
  ASSUME IInv, InLine, NEW by \in {"no_arg", "one_arg", "two_arg", "unknown"}, Answered(by, "read"), Right(by),
         UNCHANGED <<build, input, at>>, seen \subseteq seen'
  PROVE  AnsweredOnce' /\ Behind' /\ said' \in Seq([line : Nat, by : {"no_arg", "one_arg", "two_arg", "unknown"}])
<1> DEFINE n == Len(said)
<1>1. /\ n \in Nat /\ DOMAIN said = 1..n /\ said' = Append(said, [line |-> at, by |-> by])
      /\ pc' = "read" /\ at \in Nat /\ at \in 1..Len(input) /\ Asked(at) # <<>>
  BY DEF IInv, Types, Words, Answered
<1>2. said' \in Seq([line : Nat, by : {"no_arg", "one_arg", "two_arg", "unknown"}])
  BY <1>1 DEF IInv, Types
<1>3. /\ DOMAIN said' = 1..(n + 1) /\ said'[n + 1] = [line |-> at, by |-> by]
      /\ \A k \in 1..n : said'[k] = said[k]
  BY <1>1 DEF IInv, Types
<1>4. \A k \in DOMAIN said' : k \in DOMAIN said \/ k = n + 1
  BY <1>1, <1>3
<1>5. \A k \in DOMAIN said : said[k].line \in 1..at /\ said[k].line < at
  BY DEF IInv, Behind
<1>6. \A i : Asked(i)' = Asked(i) /\ (Missed(i) => Missed(i)')
  BY Remembered
<1>7. Verdicts(at)' = {n + 1}
  <2>1. \A k \in DOMAIN said' : said'[k].line = at <=> k = n + 1
    BY <1>1, <1>3, <1>4, <1>5
  <2>2. n + 1 \in DOMAIN said'
    BY <1>1, <1>3
  <2> QED BY <2>1, <2>2 DEF Verdicts
<1>8. ASSUME NEW i \in 1..at, i # at
      PROVE  Verdicts(i)' = Verdicts(i) /\ Over(i)
  BY <1>1, <1>3, <1>4, <1>8 DEF Verdicts, Over
<1>9. ASSUME NEW i \in 1..at'
      PROVE  \/ Asked(i)' = <<>> /\ Verdicts(i)' = {}
             \/ \E k \in DOMAIN said' :
                  /\ Verdicts(i)' = {k}
                  /\ \/ said'[k].by = Owner(Asked(i)'[1])
                     \/ said'[k].by = "unknown" /\ Asked(i)'[1] = "set_perm" /\ Missed(i)'
  <2>1. CASE i = at
    BY <1>1, <1>3, <1>6, <1>7, <2>1 DEF Right
  <2>2. CASE i # at
    <3>1. \/ Asked(i) = <<>> /\ Verdicts(i) = {}
          \/ \E k \in DOMAIN said :
               /\ Verdicts(i) = {k}
               /\ \/ said[k].by = Owner(Asked(i)[1])
                  \/ said[k].by = "unknown" /\ Asked(i)[1] = "set_perm" /\ Missed(i)
      BY <1>8, <2>2 DEF IInv, SessionHolds, AnsweredOnce
    <3> QED BY <1>1, <1>3, <1>6, <1>8, <2>2, <3>1
  <2> QED BY <2>1, <2>2
<1>10. ASSUME NEW j \in DOMAIN said', NEW k \in DOMAIN said', j < k
       PROVE  said'[j].line < said'[k].line
  <2>1. j \in DOMAIN said
    BY <1>1, <1>3, <1>10
  <2>2. CASE k \in DOMAIN said
    BY <1>1, <1>3, <1>10, <2>1, <2>2 DEF IInv, SessionHolds, AnsweredOnce
  <2>3. CASE k = n + 1
    BY <1>1, <1>3, <1>5, <2>1, <2>3
  <2> QED BY <1>4, <2>2, <2>3
<1>11. AnsweredOnce'
  BY <1>9, <1>10 DEF AnsweredOnce, Owner
<1>12. Behind'
  BY <1>1, <1>3, <1>4, <1>5 DEF Behind, InLine
<1> QED BY <1>2, <1>11, <1>12

(* What a step in a line has to do so that a command is carried out or     *)
(* reported.                                                               *)
LEMMA LineKeepsMoves ==
  ASSUME IInv, InLine, UNCHANGED <<build, input, at>>, seen \subseteq seen', pc' # "ended",
         cwd' = cwd \/ Asked(at)[1] \in Chdir,
         errors' = errors \/ (errors' = errors \cup {at} /\ Caused(at)),
         pc' = "read" /\ at \notin errors' =>
           CarriedOut(at) /\ (Asked(at)[1] \in Chdir => cwd' = Asked(at)[2])
  PROVE  DoneOrReported' /\ errors' \subseteq 1..at'
<1>1. at \in Nat /\ at \in 1..at /\ Asked(at) # <<>> /\ errors \subseteq 1..at
  BY DEF IInv, Types, Words
<1>2. \A i : Asked(i)' = Asked(i) /\ (Caused(i) => Caused(i)') /\ (CarriedOut(i) => CarriedOut(i)')
  BY Remembered
<1>3. ASSUME NEW i \in 1..at, Over(i)', Asked(i) # <<>>, i \notin errors'
      PROVE  CarriedOut(i) /\ (Moves(i) /\ (\A j \in (i + 1)..at : ~Moves(j)) => cwd' = Asked(i)[2])
  <2>1. CASE i = at
    BY <1>1, <1>3, <2>1 DEF Over, Moves
  <2>2. CASE i # at
    <3>1. i < at /\ at \in (i + 1)..at
      BY <1>1, <2>2
    <3>2. Over(i) /\ i \notin errors /\ (cwd' = cwd \/ Moves(at))
      BY <1>1, <1>3, <3>1 DEF Moves, Over
    <3> QED BY <1>3, <3>1, <3>2 DEF IInv, SessionHolds, DoneOrReported, Moves
  <2> QED BY <2>1, <2>2
<1>4. ASSUME NEW i \in errors'
      PROVE  Caused(i)'
  BY <1>2, <1>4 DEF IInv, SessionHolds, DoneOrReported
<1>5. \A i : Moves(i)' <=> Moves(i)
  BY <1>2 DEF Moves
<1>6. DoneOrReported'
  BY <1>2, <1>3, <1>4, <1>5 DEF DoneOrReported, Moves
<1> QED BY <1>1, <1>6

LEMMA LineKeepsSession ==
  ASSUME IInv, InLine, UNCHANGED <<build, input, at>>, seen \subseteq seen',
         \/ InLine' /\ UNCHANGED said
         \/ \E by \in {"no_arg", "one_arg", "two_arg", "unknown"} : Answered(by, "read") /\ Right(by),
         pc' = "thrown" => Asked(at)[1] = "ls" /\ Unlisted(at),
         cwd' = cwd \/ Asked(at)[1] \in Chdir,
         errors' = errors \/ (errors' = errors \cup {at} /\ Caused(at)),
         pc' = "read" /\ at \notin errors' =>
           CarriedOut(at) /\ (Asked(at)[1] \in Chdir => cwd' = Asked(at)[2])
  PROVE  /\ SessionHolds' /\ Behind' /\ errors' \subseteq 1..at'
         /\ said' \in Seq([line : Nat, by : {"no_arg", "one_arg", "two_arg", "unknown"}])
<1>1. AnsweredOnce' /\ Behind'
      /\ said' \in Seq([line : Nat, by : {"no_arg", "one_arg", "two_arg", "unknown"}])
  BY MiddleOfLine, EndOfLine DEF IInv, Types
<1>2. pc' # "ended"
  BY DEF InLine, Answered
<1>3. NothingLost'
  <2>1. Asked(at)' = Asked(at) /\ (Unlisted(at) => Unlisted(at)')
    BY Remembered DEF Asked, Unlisted, Sights
  <2> QED BY <1>2, <2>1 DEF NothingLost, Unlisted
<1>4. DoneOrReported' /\ errors' \subseteq 1..at'
  BY <1>2, LineKeepsMoves
<1> QED BY <1>1, <1>3, <1>4 DEF SessionHolds

-----------------------------------------------------------------------------
(***************************************************************************)
(* The steps of a line.                                                    *)
(***************************************************************************)
(* Filling up with empty words leaves the words of the line where they are.*)
LEMMA PaddedFacts ==
  ASSUME Types, Words, InLine, NEW n \in {2, 3}, Len(args) >= n - 1
  PROVE  /\ Padded(n) \in Seq(Word \cup {NoWord}) /\ Len(Padded(n)) >= n /\ Len(Padded(n)) >= Len(Asked(at))
         /\ \A k \in 1..Len(Padded(n)) : Padded(n)[k] = Arg(at, k)
<1>1. /\ args \in Seq(Word \cup {NoWord}) /\ Len(args) \in Nat /\ Len(args) >= Len(Asked(at))
      /\ \A k \in 1..Len(args) : args[k] = Arg(at, k)
      /\ Len(Asked(at)) \in Nat
  BY WordFacts, LineFacts DEF Types, Words
<1>2. /\ Append(args, NoWord) \in Seq(Word \cup {NoWord}) /\ Len(Append(args, NoWord)) = Len(args) + 1
      /\ Append(args, NoWord)[Len(args) + 1] = NoWord
      /\ \A i \in 1..Len(args) : Append(args, NoWord)[i] = args[i]
  BY <1>1
<1>3. Arg(at, Len(args) + 1) = NoWord
  BY <1>1 DEF Arg
<1>4. CASE Len(args) < n
  <2>1. \A k \in 1..(Len(args) + 1) : k \in 1..Len(args) \/ k = Len(args) + 1
    BY <1>1
  <2> QED BY <1>1, <1>2, <1>3, <1>4, <2>1 DEF Padded
<1>5. CASE ~(Len(args) < n)
  BY <1>1, <1>5 DEF Padded
<1> QED BY <1>4, <1>5

(* The types and the words after a step within a line.                     *)
Fills == \/ pc = "no_arg" /\ args' = Padded(2) /\ pc' = "one_arg"
         \/ pc = "one_arg" /\ args' = Padded(3) /\ pc' = "two_arg"

Keeps == /\ UNCHANGED args /\ pc' # "two_arg"
         /\ pc = "no_arg" => pc' = "read"
         /\ pc' \in {"set_perm", "perm", "unknown"} => pc \in {"two_arg", "set_perm", "perm"}

LEMMA LineKeepsTypes ==
  ASSUME IInv, InLine, UNCHANGED <<build, input, nEnv, at>>, Watched, pc' \in Steps \ {"ended", "no_arg"},
         said' \in Seq([line : Nat, by : {"no_arg", "one_arg", "two_arg", "unknown"}]),
         errors' \subseteq 1..at', cwd' \in Places, lost' \in BOOLEAN,
         disk' \in [Places -> Thing \cup {Nothing}], Fills \/ Keeps
  PROVE  Types' /\ Watching' /\ Words'
<1>1. /\ Types /\ Words /\ Len(args) \in Nat /\ Len(args) >= 1 /\ (pc # "no_arg" => Len(args) >= 2)
      /\ at \in 1..Len(input) /\ at \in Nat
  <2>1. Len(Asked(at)) \in Nat /\ Len(Asked(at)) >= 1 /\ Len(args) \in Nat /\ at \in 1..Len(input)
    BY WordFacts, LineFacts DEF IInv, Types, Words
  <2> QED BY <2>1 DEF IInv, Words
<1>2. Asked(at)' = Asked(at) /\ (\A n : Arg(at, n)' = Arg(at, n)) /\ at' = at
  BY DEF Asked, Arg
<1>3. args' \in Seq(Word \cup {NoWord})
  BY <1>1, PaddedFacts DEF Types, Fills, Keeps
<1>4. Watching' /\ seen' \subseteq [line : 1..at', thing : Thing \cup {Nothing}, lost : BOOLEAN]
  BY <1>1, WatchedFacts DEF Types
<1>5. Types'
  BY <1>1, <1>3, <1>4 DEF Types
<1>6. Words'
  <2>1. CASE Keeps
    BY <1>1, <1>2, <2>1 DEF Words, InLine, Keeps
  <2>2. CASE Fills
    <3>1. PICK n \in {2, 3} : args' = Padded(n) /\ Len(args) >= n - 1 /\ (n = 2 => pc' = "one_arg") /\ pc' # "no_arg"
      BY <1>1, <2>2 DEF Fills
    <3>2. /\ Len(args') >= n /\ Len(args') >= Len(Asked(at)) /\ Len(args') \in Nat
          /\ \A k \in 1..Len(args') : args'[k] = Arg(at, k)
      BY <1>1, <1>3, <3>1, PaddedFacts
    <3> QED BY <1>1, <1>2, <3>1, <3>2 DEF Words
  <2> QED BY <2>1, <2>2
<1> QED BY <1>4, <1>5, <1>6

(* The commands of the tables are told apart.                              *)
LEMMA OwnerFacts ==
  /\ \A w \in NoArgs : Owner(w) = "no_arg"
  /\ \A w \in (OneArgs \cup Chdir \cup {"ls"}) \ NoArgs : Owner(w) = "one_arg"
  /\ \A w \in (TwoArgs \cup {"set_perm"}) \ (NoArgs \cup OneArgs \cup Chdir \cup {"ls"}) : Owner(w) = "two_arg"
  /\ \A w : w \notin NoArgs \cup OneArgs \cup Chdir \cup {"ls"} \cup TwoArgs \cup {"set_perm"} =>
       Owner(w) = "unknown"
  /\ "set_perm" \notin NoArgs \cup OneArgs \cup Chdir \cup {"ls"}
  /\ (Chdir \cup {"ls"}) \cap (NoArgs \cup OneArgs \cup TwoArgs) = {} /\ "ls" \notin Chdir
BY TableAssumption DEF Owner, Chdir

LEMMA WordsNext ==
  ASSUME Types', Words', InLine', UNCHANGED <<input, at>>
  PROVE  args'[1] = Asked(at)[1]
<1>1. at \in 1..Len(input) /\ Len(args') \in Nat /\ Asked(at)' = Asked(at) /\ Arg(at, 1)' = Arg(at, 1)
  BY DEF Types, Words, Asked, Arg
<1>2. Len(Asked(at)) \in Nat /\ Len(Asked(at)) >= 1
  <2>1. input \in Seq(Line)
    BY DEF Types
  <2>2. input[at] \in Line
    BY <1>1, <2>1
  <2>3. Asked(at) \in Seq(Word)
    BY <2>2 DEF Asked, Line
  <2>4. Asked(at) # <<>>
    BY <1>1 DEF Words
  <2> QED BY <2>3, <2>4
<1>3. args'[1] = Arg(at, 1)
  BY <1>1, <1>2 DEF Words
<1> QED BY <1>2, <1>3 DEF Arg

LEMMA LineStep ==
  ASSUME IInv, InLine, Step
  PROVE  IInv'
<1>1. /\ Types /\ Watching /\ Words /\ Tables /\ UNCHANGED <<build, input, nEnv>> /\ Watched
      /\ args[1] = Asked(at)[1] /\ cwd \in Places /\ errors \subseteq 1..at /\ lost \in BOOLEAN
      /\ disk \in [Places -> Thing \cup {Nothing}] /\ at \in 1..Len(input) /\ Asked(at) # <<>>
  BY WordFacts DEF IInv, Step, Words, Types
<1>2. pc # "read" /\ pc # "ended"
  BY DEF InLine
<1>3. seen \subseteq seen'
  BY <1>1 DEF Watched
<1>4. CASE no_arg
  <2>1. /\ pc = "no_arg" /\ UNCHANGED <<at, cwd, lost, disk, errors>> /\ pc' \in {"read", "one_arg"}
        /\ \/ Answered("no_arg", "read") /\ UNCHANGED args /\ args[1] \in NoArgs
           \/ UNCHANGED said /\ args' = Padded(2) /\ pc' = "one_arg" /\ args[1] \notin NoArgs
    BY <1>4 DEF no_arg, Answered, NotMine
  <2>2. args[1] \in NoArgs => CarriedOut(at) /\ Asked(at)[1] \notin Chdir
    BY <1>1, OwnerFacts DEF CarriedOut
  <2>7. /\ SessionHolds' /\ Behind' /\ errors' \subseteq 1..at'
        /\ said' \in Seq([line : Nat, by : {"no_arg", "one_arg", "two_arg", "unknown"}])
    BY <1>1, <1>3, <2>1, <2>2, OwnerFacts, LineKeepsSession DEF Right, InLine, Steps, Answered
  <2>8. Types' /\ Watching' /\ Words'
    BY <1>1, <2>1, <2>7, LineKeepsTypes DEF Steps, Answered, Fills, Keeps
  <2>9. Tables'
    <3>1. CASE pc' = "read"
      BY <3>1 DEF Tables
    <3>2. CASE pc' = "one_arg" /\ args' = Padded(2) /\ args[1] \notin NoArgs
      <4>1. args'[1] = args[1]
        BY <1>1, <2>1, <2>8, <3>2, WordsNext DEF InLine, Steps
      <4> QED BY <2>1, <3>2, <4>1 DEF Tables
    <3> QED BY <2>1, <3>1, <3>2 DEF Answered
  <2> QED BY <2>7, <2>8, <2>9 DEF IInv
<1>5. CASE one_arg
  <2>1. /\ pc = "one_arg" /\ UNCHANGED <<at, cwd, lost, disk, errors>>
        /\ args[1] \notin Chdir \cup {"ls"} /\ args[1] \notin NoArgs /\ pc' \in {"read", "two_arg"}
        /\ \/ Answered("one_arg", "read") /\ UNCHANGED args /\ args[1] \in OneArgs
           \/ UNCHANGED said /\ args' = Padded(3) /\ pc' = "two_arg" /\ args[1] \notin OneArgs
    BY <1>1, <1>5 DEF one_arg, Answered, NotMine, Tables
  <2>2. args[1] \in OneArgs => CarriedOut(at) /\ Asked(at)[1] \notin Chdir
    BY <1>1, OwnerFacts DEF CarriedOut
  <2>7. /\ SessionHolds' /\ Behind' /\ errors' \subseteq 1..at'
        /\ said' \in Seq([line : Nat, by : {"no_arg", "one_arg", "two_arg", "unknown"}])
    BY <1>1, <1>3, <2>1, <2>2, OwnerFacts, LineKeepsSession DEF Right, InLine, Steps, Answered
  <2>8. Types' /\ Watching' /\ Words'
    BY <1>1, <2>1, <2>7, LineKeepsTypes DEF Steps, Answered, Fills, Keeps
  <2>9. Tables'
    <3>1. CASE pc' = "read"
      BY <3>1 DEF Tables
    <3>2. CASE pc' = "two_arg" /\ args' = Padded(3) /\ args[1] \notin OneArgs
      <4>1. args'[1] = args[1]
        BY <1>1, <2>1, <2>8, <3>2, WordsNext DEF InLine, Steps
      <4> QED BY <2>1, <3>2, <4>1 DEF Tables
    <3> QED BY <2>1, <3>1, <3>2 DEF Answered
  <2> QED BY <2>7, <2>8, <2>9 DEF IInv
<1>6. CASE CwdBefore
  <2>1. /\ pc = "one_arg" /\ args[1] \in Chdir /\ UNCHANGED <<at, args, cwd, lost, disk>> /\ args[1] \notin NoArgs
        /\ pc' \in {"read", "chdir"}
        /\ \/ UNCHANGED <<said, errors>> /\ pc' = "chdir"
           \/ Answered("one_arg", "read") /\ errors' = errors \cup {at} /\ lost
    BY <1>1, <1>6 DEF CwdBefore, Answered, Complains, Tables
  <2>2. lost => Caused(at)
    BY <1>1, <2>1, SightFacts DEF Caused, InLine, Steps
  <2>7. /\ SessionHolds' /\ Behind' /\ errors' \subseteq 1..at'
        /\ said' \in Seq([line : Nat, by : {"no_arg", "one_arg", "two_arg", "unknown"}])
    BY <1>1, <1>3, <2>1, <2>2, OwnerFacts, LineKeepsSession DEF Right, InLine, Steps, Answered
  <2>8. Types' /\ Watching' /\ Words'
    BY <1>1, <2>1, <2>7, LineKeepsTypes DEF Steps, Answered, Fills, Keeps
  <2>9. Tables'
    BY <2>1 DEF Tables, Answered
  <2> QED BY <2>7, <2>8, <2>9 DEF IInv
<1>7. CASE SetCwd
  <2>1. /\ pc = "chdir" /\ args[1] \in Chdir /\ UNCHANGED <<at, args, disk>> /\ args[1] \notin NoArgs
        /\ pc' \in {"read", "cwd"}
        /\ \/ /\ Enters(Found(args[2])) /\ cwd' = args[2] /\ lost' = FALSE
              /\ UNCHANGED <<said, errors>> /\ pc' = "cwd"
           \/ /\ ~Enters(Found(args[2])) /\ Answered("one_arg", "read")
              /\ errors' = errors \cup {at} /\ UNCHANGED <<cwd, lost>>
    BY <1>1, <1>7 DEF SetCwd, Answered, Complains, Tables
  <2>2. ~Enters(Found(args[2])) => Caused(at)
    BY <1>1, <2>1, SightFacts DEF Caused, InLine, Steps
  <2>3. cwd' \in Places /\ lost' \in BOOLEAN
    BY <1>1, <2>1 DEF Enters, Found, Nothing
  <2>7. /\ SessionHolds' /\ Behind' /\ errors' \subseteq 1..at'
        /\ said' \in Seq([line : Nat, by : {"no_arg", "one_arg", "two_arg", "unknown"}])
    BY <1>1, <1>3, <2>1, <2>2, OwnerFacts, LineKeepsSession DEF Right, InLine, Steps, Answered
  <2>8. Types' /\ Watching' /\ Words'
    BY <1>1, <2>1, <2>3, <2>7, LineKeepsTypes DEF Steps, Answered, Fills, Keeps
  <2>9. Tables'
    <3>1. CASE pc' = "read"
      BY <3>1 DEF Tables
    <3>2. CASE pc' = "cwd" /\ cwd' = args[2] /\ lost' = FALSE /\ Enters(Found(args[2]))
      <4>1. args[2] = Arg(at, 2)
        BY <1>1, <2>1, WordFacts
      <4>2. Found(Arg(at, 2))' = Found(args[2]) /\ Sight' = [line |-> at, thing |-> Found(Arg(at, 2))', lost |-> FALSE]
        BY <1>1, <2>1, <3>2, <4>1 DEF Sight, Found, Arg, Asked
      <4>3. Sight' \in seen' /\ Sight'.line = at /\ Sight'.thing = Found(args[2]) /\ ~Sight'.lost
        BY <1>1, <3>2, <4>2 DEF Watched
      <4>4. Entered(at)'
        BY <2>1, <3>2, <4>3 DEF Entered, Sights, Enters
      <4> QED BY <2>1, <3>2, <4>4 DEF Tables
    <3> QED BY <2>1, <3>1, <3>2 DEF Answered
  <2> QED BY <2>7, <2>8, <2>9 DEF IInv
<1>8. CASE CwdAfter
  <2>1. /\ pc = "cwd" /\ args[1] \in Chdir /\ UNCHANGED <<at, args, cwd, lost, disk>> /\ args[1] \notin NoArgs
        /\ pc' = "read" /\ args[2] = cwd /\ Answered("one_arg", "read") /\ Entered(at)
        /\ errors' = errors \/ (errors' = errors \cup {at} /\ lost)
    BY <1>1, <1>8 DEF CwdAfter, Answered, Complains, Tables
  <2>2. lost => Caused(at)
    BY <1>1, <2>1, SightFacts DEF Caused, InLine, Steps
  <2>3. cwd = Asked(at)[2]
    BY <1>1, <2>1, PlaceIsAsked
  <2>4. CarriedOut(at)
    BY <1>1, <2>1, OwnerFacts DEF CarriedOut, Entered, Chdir
  <2>7. /\ SessionHolds' /\ Behind' /\ errors' \subseteq 1..at'
        /\ said' \in Seq([line : Nat, by : {"no_arg", "one_arg", "two_arg", "unknown"}])
    BY <1>1, <1>3, <2>1, <2>2, <2>3, <2>4, OwnerFacts, LineKeepsSession DEF Right, InLine, Steps, Answered
  <2>8. Types' /\ Watching' /\ Words'
    BY <1>1, <2>1, <2>7, LineKeepsTypes DEF Steps, Answered, Fills, Keeps
  <2>9. Tables'
    BY <2>1 DEF Tables
  <2> QED BY <2>7, <2>8, <2>9 DEF IInv
<1>9. CASE Ls
  <2>1. /\ pc = "one_arg" /\ args[1] = "ls" /\ UNCHANGED <<at, args, cwd, lost, disk>> /\ args[1] \notin NoArgs
        /\ pc' \in {"read", "thrown"}
        /\ \/ ~Lists(Found(args[2])) /\ pc' = "thrown" /\ UNCHANGED <<said, errors>>
           \/ Answered("one_arg", "read") /\ (errors' = errors \/ errors' = errors \cup {at})
    BY <1>1, <1>9 DEF Ls, Answered, Complains, Tables
  <2>2. ~Lists(Found(args[2])) => Unlisted(at)
    BY <1>1, <2>1, SightFacts DEF Unlisted, InLine, Steps
  <2>3. Caused(at) /\ CarriedOut(at) /\ Asked(at)[1] \notin Chdir
    BY <1>1, <2>1, OwnerFacts DEF Caused, CarriedOut
  <2>7. /\ SessionHolds' /\ Behind' /\ errors' \subseteq 1..at'
        /\ said' \in Seq([line : Nat, by : {"no_arg", "one_arg", "two_arg", "unknown"}])
    BY <1>1, <1>3, <2>1, <2>2, <2>3, OwnerFacts, LineKeepsSession DEF Right, InLine, Steps, Answered
  <2>8. Types' /\ Watching' /\ Words'
    BY <1>1, <2>1, <2>7, LineKeepsTypes DEF Steps, Answered, Fills, Keeps
  <2>9. Tables'
    <3>1. Unlisted(at) => Unlisted(at)'
      BY <1>1, <1>3, <2>1 DEF Unlisted, Sights
    <3> QED BY <2>1, <2>2, <3>1 DEF Tables, Answered
  <2> QED BY <2>7, <2>8, <2>9 DEF IInv
<1>10. CASE two_arg
  <2>1. /\ pc = "two_arg" /\ args[1] # "set_perm" /\ UNCHANGED <<at, args, cwd, lost, disk, errors>>
        /\ args[1] \notin NoArgs \cup OneArgs \cup Chdir \cup {"ls"} /\ pc' \in {"read", "unknown"}
        /\ \/ args[1] \in TwoArgs /\ Answered("two_arg", "read")
           \/ args[1] \notin TwoArgs /\ pc' = "unknown" /\ UNCHANGED said
    BY <1>1, <1>10 DEF two_arg, Answered, Tables
  <2>2. CarriedOut(at) /\ Asked(at)[1] \notin Chdir
    BY <1>1, <2>1 DEF CarriedOut
  <2>7. /\ SessionHolds' /\ Behind' /\ errors' \subseteq 1..at'
        /\ said' \in Seq([line : Nat, by : {"no_arg", "one_arg", "two_arg", "unknown"}])
    BY <1>1, <1>3, <2>1, <2>2, OwnerFacts, LineKeepsSession DEF Right, InLine, Steps, Answered
  <2>8. Types' /\ Watching' /\ Words'
    BY <1>1, <2>1, <2>7, LineKeepsTypes DEF Steps, Answered, Fills, Keeps
  <2>9. Tables'
    BY <2>1, OwnerFacts DEF Tables, Answered, Owner
  <2> QED BY <2>7, <2>8, <2>9 DEF IInv
<1>11. CASE PermBefore
  <2>1. /\ pc = "two_arg" /\ args[1] = "set_perm" /\ UNCHANGED <<at, args, cwd, lost, disk, said>>
        /\ args[1] \notin NoArgs \cup OneArgs \cup Chdir \cup {"ls"}
        /\ \/ Found(args[2]) # Nothing /\ pc' = "set_perm" /\ errors' = errors
           \/ Found(args[2]) = Nothing /\ pc' = "unknown" /\ errors' = errors \cup {at}
    BY <1>1, <1>11 DEF PermBefore, GivesUp, Complains, Tables
  <2>2. Found(args[2]) = Nothing => Missed(at) /\ Caused(at)
    BY <1>1, <2>1, SightFacts DEF Missed, Caused, MayChange, InLine, Steps
  <2>7. /\ SessionHolds' /\ Behind' /\ errors' \subseteq 1..at'
        /\ said' \in Seq([line : Nat, by : {"no_arg", "one_arg", "two_arg", "unknown"}])
    BY <1>1, <1>3, <2>1, <2>2, LineKeepsSession DEF Right, InLine, Steps, Answered
  <2>8. Types' /\ Watching' /\ Words'
    BY <1>1, <2>1, <2>7, LineKeepsTypes DEF Steps, Answered, Fills, Keeps
  <2>9. Tables'
    <3>1. Missed(at) => Missed(at)'
      BY <1>1, <1>3, <2>1 DEF Missed, Sights
    <3> QED BY <2>1, <2>2, <3>1 DEF Tables
  <2> QED BY <2>7, <2>8, <2>9 DEF IInv
<1>12. CASE SetPerm
  <2>1. /\ pc = "set_perm" /\ args[1] = "set_perm" /\ UNCHANGED <<at, args, cwd, lost, said>> /\ pc' = "perm"
        /\ args[1] \notin NoArgs
        /\ errors' = IF ~MayChange(Found(args[2]), args[3]) THEN errors \cup {at} ELSE errors
        /\ disk' = [p \in Places |-> IF p = args[2] /\ MayChange(disk[p], args[3])
                                       THEN Changed(disk[p], args[3]) ELSE disk[p]]
    BY <1>1, <1>12 DEF SetPerm, Complains, Tables
  <2>2. args[2] = Arg(at, 2) /\ args[3] = Arg(at, 3) /\ args[3] \in Word \cup {NoWord}
    BY <1>1, <2>1, WordFacts, ArgFacts
  <2>3. ~MayChange(Found(args[2]), args[3]) => Caused(at)
    BY <1>1, <2>1, <2>2, SightFacts DEF Caused, InLine, Steps
  <2>4. disk' \in [Places -> Thing \cup {Nothing}]
    BY <1>1, <2>1, <2>2, ChangedTwice DEF MayChange
  <2>7. /\ SessionHolds' /\ Behind' /\ errors' \subseteq 1..at'
        /\ said' \in Seq([line : Nat, by : {"no_arg", "one_arg", "two_arg", "unknown"}])
    BY <1>1, <1>3, <2>1, <2>3, LineKeepsSession DEF Right, InLine, Steps, Answered
  <2>8. Types' /\ Watching' /\ Words'
    BY <1>1, <2>1, <2>4, <2>7, LineKeepsTypes DEF Steps, Answered, Fills, Keeps
  <2>9. Tables'
    <3>1. CASE ~MayChange(Found(args[2]), args[3])
      BY <2>1, <3>1 DEF Tables
    <3>2. CASE MayChange(Found(args[2]), args[3])
      <4> DEFINE t == disk[args[2]]
      <4>1. args[2] \in Places /\ t \in Thing /\ Found(args[2]) = t
        BY <1>1, <3>2 DEF MayChange, Found
      <4>2. disk'[args[2]] = Changed(t, args[3])
        BY <2>1, <3>2, <4>1
      <4>3. Sight' = [line |-> at, thing |-> Changed(t, args[3]), lost |-> lost]
        BY <1>1, <2>1, <2>2, <4>1, <4>2 DEF Sight, Found, Arg, Asked
      <4>4. Sight' \in seen'
        BY <1>1, <2>1 DEF Watched
      <4>5. Changed(t, args[3]) # Nothing /\ Changed(t, args[3]) = Changed(Changed(t, args[3]), args[3])
        BY <2>2, <4>1, ChangedTwice
      <4>6. Arg(at, 3)' = args[3] /\ at' = at
        BY <1>1, <2>1, <2>2 DEF Arg, Asked
      <4>7. /\ Sight' \in Sights(at)' /\ Sight'.thing # Nothing
            /\ Sight'.thing = Changed(Sight'.thing, Arg(at, 3)')
        BY <4>3, <4>4, <4>5, <4>6 DEF Sights
      <4> HIDE DEF t
      <4>8. HasChanged(at)'
        BY <4>7 DEF HasChanged, Changed
      <4> QED BY <2>1, <4>8 DEF Tables
    <3> QED BY <3>1, <3>2
  <2> QED BY <2>7, <2>8, <2>9 DEF IInv
<1>13. CASE PermAfter
  <2>1. /\ pc = "perm" /\ args[1] = "set_perm" /\ UNCHANGED <<at, args, cwd, lost, disk>> /\ pc' = "read"
        /\ args[1] \notin NoArgs /\ Answered("two_arg", "read") /\ (at \in errors \/ HasChanged(at))
        /\ errors' = errors \/ (Found(args[2]) = Nothing /\ errors' = errors \cup {at})
    BY <1>1, <1>13 DEF PermAfter, Complains, Tables, Answered
  <2>2. Found(args[2]) = Nothing => Caused(at)
    BY <1>1, <2>1, SightFacts DEF Caused, MayChange, InLine, Steps
  <2>3. at \notin errors' => CarriedOut(at)
    BY <1>1, <2>1 DEF CarriedOut, HasChanged, Chdir
  <2>4. Asked(at)[1] \notin Chdir
    BY <1>1, <2>1 DEF Chdir
  <2>7. /\ SessionHolds' /\ Behind' /\ errors' \subseteq 1..at'
        /\ said' \in Seq([line : Nat, by : {"no_arg", "one_arg", "two_arg", "unknown"}])
    BY <1>1, <1>3, <2>1, <2>2, <2>3, <2>4, OwnerFacts, LineKeepsSession DEF Right, InLine, Steps, Answered
  <2>8. Types' /\ Watching' /\ Words'
    BY <1>1, <2>1, <2>7, LineKeepsTypes DEF Steps, Answered, Fills, Keeps
  <2>9. Tables'
    BY <2>1 DEF Tables
  <2> QED BY <2>7, <2>8, <2>9 DEF IInv
<1>14. CASE Unknown
  <2>1. /\ pc = "unknown" /\ UNCHANGED <<at, args, cwd, lost, disk>> /\ pc' = "read" /\ Answered("unknown", "read")
        /\ errors' = errors \cup {at} /\ args[1] \notin Chdir
        /\ Owner(args[1]) = "unknown" \/ (args[1] = "set_perm" /\ Missed(at))
    BY <1>1, <1>14 DEF Unknown, Complains, Tables, Answered
  <2>2. Caused(at)
    BY <1>1, <2>1 DEF Caused, Missed, MayChange
  <2>7. /\ SessionHolds' /\ Behind' /\ errors' \subseteq 1..at'
        /\ said' \in Seq([line : Nat, by : {"no_arg", "one_arg", "two_arg", "unknown"}])
    BY <1>1, <1>3, <2>1, <2>2, LineKeepsSession DEF Right, InLine, Steps, Answered
  <2>8. Types' /\ Watching' /\ Words'
    BY <1>1, <2>1, <2>7, LineKeepsTypes DEF Steps, Answered, Fills, Keeps
  <2>9. Tables'
    BY <2>1 DEF Tables
  <2> QED BY <2>7, <2>8, <2>9 DEF IInv
<1> QED BY <1>2, <1>4, <1>5, <1>6, <1>7, <1>8, <1>9, <1>10, <1>11, <1>12, <1>13, <1>14 DEF Step, ReadLine

-----------------------------------------------------------------------------
(* Between lines.                                                          *)
LEMMA ReadLineStep ==
  ASSUME IInv, ReadLine, UNCHANGED <<build, input, nEnv>>, Watched
  PROVE  IInv'
<1>1. /\ Types /\ pc = "read" /\ UNCHANGED <<cwd, lost, disk, said, errors>> /\ Behind /\ SessionHolds
      /\ at \in Nat /\ Len(input) \in Nat /\ at <= Len(input) /\ seen \subseteq seen'
  BY DEF IInv, ReadLine, Types, Watched
<1>2. \A i : /\ Asked(i)' = Asked(i) /\ Verdicts(i)' = Verdicts(i) /\ (Missed(i) => Missed(i)')
             /\ (\A n : Arg(i, n)' = Arg(i, n))
             /\ (Caused(i) => Caused(i)') /\ (CarriedOut(i) => CarriedOut(i)')
  BY <1>1, Remembered DEF Verdicts
<1>4. CASE (at = Len(input) \/ Quits(input[at + 1])) /\ pc' = "ended" /\ UNCHANGED <<at, args>>
  <2>1. Types' /\ Watching' /\ Words' /\ Tables' /\ Behind'
    BY <1>1, <1>4 DEF Types, Watching, Words, Tables, Behind, InLine, Steps, Watched
  <2>2. \A i : Over(i)' => Over(i)
    BY <1>1, <1>4 DEF Over
  <2>3. AnsweredOnce'
    <3>1. ASSUME NEW i \in 1..at', Over(i)'
          PROVE  \/ Asked(i) = <<>> /\ Verdicts(i) = {}
                 \/ \E k \in DOMAIN said :
                      /\ Verdicts(i) = {k}
                      /\ \/ said[k].by = Owner(Asked(i)[1])
                         \/ said[k].by = "unknown" /\ Asked(i)[1] = "set_perm" /\ Missed(i)
      BY <1>1, <1>4, <2>2, <3>1 DEF SessionHolds, AnsweredOnce
    <3> QED BY <1>1, <1>2, <3>1 DEF SessionHolds, AnsweredOnce, Owner
  <2>4. NothingLost'
    BY <1>1, <1>4 DEF NothingLost
  <2>5. DoneOrReported'
    BY <1>1, <1>2, <1>4, <2>2 DEF SessionHolds, DoneOrReported
  <2> QED BY <2>1, <2>3, <2>4, <2>5 DEF IInv, SessionHolds
<1>5. CASE at # Len(input) /\ ~Quits(input[at + 1])
  <2>1. /\ at' = at + 1 /\ args' = Asked(at + 1) /\ at + 1 \in 1..Len(input)
        /\ pc' = IF Asked(at + 1) = <<>> THEN "read" ELSE "no_arg"
    BY <1>1, <1>5 DEF ReadLine, NextLine, Asked
  <2>2. /\ Asked(at + 1) \in Seq(Word)
        /\ Asked(at + 1) # <<>> => Len(Asked(at + 1)) >= 1
    BY <1>1, <2>1, LineFacts
  <2>3. Types' /\ Watching'
    <3>1. at' \in 0..Len(input) /\ errors \subseteq 1..at' /\ pc' \in Steps
      BY <1>1, <2>1 DEF Types, Steps
    <3>2. args' \in Seq(Word \cup {NoWord})
      BY <2>1, <2>2
    <3>3. /\ at' <= Len(input) /\ at <= at' /\ at' >= 1 /\ lost' \in BOOLEAN
          /\ disk' \in [Places -> Thing \cup {Nothing}]
      BY <1>1, <2>1 DEF Types
    <3>4. Watching' /\ seen' \subseteq [line : 1..at', thing : Thing \cup {Nothing}, lost : BOOLEAN]
      BY <1>1, <3>1, <3>3, WatchedFacts
    <3> QED BY <1>1, <3>1, <3>2, <3>4 DEF Types
  <2>4. Words' /\ Tables'
    <3>1. CASE Asked(at + 1) = <<>>
      BY <2>1, <3>1 DEF Words, Tables, InLine
    <3>2. CASE Asked(at + 1) # <<>>
      <4>1. pc' = "no_arg" /\ at' >= 1 /\ Asked(at)' = args' /\ Len(args') \in Nat /\ args' # <<>>
        BY <1>1, <1>2, <2>1, <2>2, <3>2
      <4>2. \A n \in 1..Len(args') : Arg(at, n)' = args'[n]
        BY <4>1 DEF Arg
      <4>3. Words'
        BY <4>1, <4>2 DEF Words, Arg, Asked
      <4> QED BY <4>1, <4>3 DEF Tables
    <3> QED BY <3>1, <3>2
  <2>5. \A k \in DOMAIN said : said[k].line \in 1..at
    BY <1>1 DEF Behind
  <2>6. Behind'
    BY <1>1, <2>1, <2>5 DEF Behind
  <2>7. \A i \in 1..at' : i # at + 1 => i \in 1..at /\ Over(i)
    BY <1>1, <2>1 DEF Over
  <2>8. \A i : i = at + 1 /\ Over(i)' => Asked(i) = <<>>
    BY <1>1, <2>1 DEF Over
  <2>9. Verdicts(at + 1) = {}
    BY <1>1, <2>5 DEF Verdicts
  <2>10. AnsweredOnce'
    <3>1. ASSUME NEW i \in 1..at', Over(i)'
          PROVE  \/ Asked(i) = <<>> /\ Verdicts(i) = {}
                 \/ \E k \in DOMAIN said :
                      /\ Verdicts(i) = {k}
                      /\ \/ said[k].by = Owner(Asked(i)[1])
                         \/ said[k].by = "unknown" /\ Asked(i)[1] = "set_perm" /\ Missed(i)
      BY <1>1, <2>7, <2>8, <2>9, <3>1 DEF SessionHolds, AnsweredOnce
    <3> QED BY <1>1, <1>2, <3>1 DEF SessionHolds, AnsweredOnce, Owner
  <2>11. NothingLost'
    BY <2>1 DEF NothingLost
  <2>12. DoneOrReported'
    <3>1. ASSUME NEW i \in 1..at', Over(i)', Asked(i) # <<>>, i \notin errors
          PROVE  /\ CarriedOut(i)
                 /\ Moves(i) /\ (\A j \in (i + 1)..at' : ~Moves(j)) => cwd = Asked(i)[2]
      <4>1. i # at + 1
        BY <2>8, <3>1
      <4>2. i \in 1..at /\ Over(i) /\ \A j \in (i + 1)..at : j \in (i + 1)..at'
        BY <1>1, <2>1, <2>7, <4>1
      <4> QED BY <1>1, <3>1, <4>2 DEF SessionHolds, DoneOrReported, Moves
    <3>2. \A i \in errors : Caused(i)
      BY <1>1 DEF SessionHolds, DoneOrReported
    <3>3. \A i : Moves(i)' <=> Moves(i)
      BY <1>2 DEF Moves
    <3> QED BY <1>1, <1>2, <3>1, <3>2, <3>3 DEF DoneOrReported, Moves
  <2> QED BY <2>3, <2>4, <2>6, <2>10, <2>11, <2>12 DEF IInv, SessionHolds
<1> QED BY <1>4, <1>5 DEF ReadLine

(* What was seen by one moment stays seen.                                 *)
LEMMA EnvStep ==
  ASSUME IInv, Env
  PROVE  IInv'
<1>1. /\ UNCHANGED <<build, input, at, args, pc, cwd, said, errors>> /\ nEnv' = nEnv + 1 /\ nEnv < MaxEnv
      /\ Watched /\ seen \subseteq seen' /\ pc \notin {"ended", "thrown"}
      /\ nEnv \in Nat /\ MaxEnv \in Nat /\ Types /\ at \in Nat
  BY PlacesAssumption DEF IInv, Env, Types, Watched
<1>2. lost' \in BOOLEAN /\ disk' \in [Places -> Thing \cup {Nothing}]
  <2>1. PICK p \in Places :
          /\ \E t \in Put : disk' = [disk EXCEPT ![p] = t]
          /\ lost' \in IF p = cwd THEN {lost, TRUE} ELSE {lost}
    BY DEF Env
  <2>2. PICK t \in Put : disk' = [disk EXCEPT ![p] = t]
    BY <2>1
  <2> QED BY <1>1, <2>1, <2>2, PlacesAssumption DEF Types
<1>3. \A i : /\ Asked(i)' = Asked(i) /\ Verdicts(i)' = Verdicts(i) /\ (Over(i)' <=> Over(i))
             /\ (\A n : Arg(i, n)' = Arg(i, n)) /\ (Missed(i) => Missed(i)')
             /\ (Entered(i) => Entered(i)') /\ (HasChanged(i) => HasChanged(i)')
             /\ (Caused(i) => Caused(i)') /\ (CarriedOut(i) => CarriedOut(i)')
  BY <1>1, Remembered DEF Verdicts, Over
<1>4. Types' /\ Watching'
  <2>1. pc' \notin {"read", "ended", "thrown"} => at' >= 1
    BY <1>1 DEF IInv, Words, InLine, Types
  <2>2. at' \in 0..Len(input) /\ at <= at' /\ pc' \in Steps
    BY <1>1 DEF Types
  <2>3. Watching' /\ seen' \subseteq [line : 1..at', thing : Thing \cup {Nothing}, lost : BOOLEAN]
    BY <1>1, <1>2, <2>1, <2>2, WatchedFacts
  <2> QED BY <1>1, <1>2, <2>3 DEF Types
<1>5. Words'
  BY <1>1, <1>3 DEF IInv, Words, InLine
<1>6. Tables'
  BY <1>1, <1>3 DEF IInv, Tables, Owner
<1>7. Behind'
  BY <1>1 DEF IInv, Behind, InLine
<1>8. AnsweredOnce'
  BY <1>1, <1>3 DEF IInv, SessionHolds, AnsweredOnce, Owner
<1>9. NothingLost'
  BY <1>1, <1>3 DEF IInv, SessionHolds, NothingLost
<1>10. DoneOrReported'
  BY <1>1, <1>3 DEF IInv, SessionHolds, DoneOrReported
<1> QED BY <1>4, <1>5, <1>6, <1>7, <1>8, <1>9, <1>10 DEF IInv, SessionHolds

LEMMA InvInit == Init => IInv
<1> SUFFICES ASSUME Init PROVE IInv
  OBVIOUS
<1>1. input \in Inputs /\ input \in Seq(Line) /\ Len(input) \in Nat
  BY InputAssumption DEF Init
<1>2. said = <<>> /\ DOMAIN said = {} /\ pc = "read" /\ at = 0 /\ 1..at = {}
  BY DEF Init
<1>3. <<>> \in Seq(Word \cup {NoWord}) /\ <<>> \in Seq([line : Nat, by : {"no_arg", "one_arg", "two_arg", "unknown"}])
  OBVIOUS
<1>4. disk \in [Places -> Thing \cup {Nothing}]
  BY PlacesAssumption DEF Init
<1>5. Types
  <2>1. at \in 0..Len(input) /\ errors \subseteq 1..at /\ nEnv \in 0..MaxEnv /\ pc \in Steps
    BY <1>1, <1>2, PlacesAssumption DEF Init, Steps
  <2>2. seen \subseteq [line : 1..at, thing : Thing \cup {Nothing}, lost : BOOLEAN]
    BY DEF Init
  <2>3. /\ args \in Seq(Word \cup {NoWord}) /\ cwd \in Places /\ lost \in BOOLEAN
        /\ said \in Seq([line : Nat, by : {"no_arg", "one_arg", "two_arg", "unknown"}])
    BY <1>3, PlacesAssumption DEF Init
  <2> QED BY <1>1, <1>4, <2>1, <2>2, <2>3 DEF Init, Types
<1>6. Watching /\ Words /\ Tables /\ Behind
  BY <1>2 DEF Init, Watching, Words, Tables, Behind, InLine
<1>7. SessionHolds
  BY <1>2 DEF SessionHolds, AnsweredOnce, NothingLost, DoneOrReported, Init
<1> QED BY <1>5, <1>6, <1>7 DEF IInv

LEMMA InvNext ==
  ASSUME IInv, [Next]_vars
  PROVE  IInv'
<1>1. CASE UNCHANGED vars
  <2>1. UNCHANGED <<build, input, at, args, pc, cwd, lost, disk, said, errors, seen, nEnv>>
    BY <1>1 DEF vars
  <2>2. /\ Types' /\ (Watching' <=> Watching) /\ (Words' <=> Words) /\ (Tables' <=> Tables) /\ (Behind' <=> Behind)
    BY <2>1 DEF IInv, Types, Watching, Sight, Found, Words, Tables, Behind, InLine, Owner, Missed, Unlisted,
                Entered, HasChanged, Sights, Asked, Arg
  <2>3. \A i : /\ Asked(i)' = Asked(i) /\ Verdicts(i)' = Verdicts(i) /\ (Over(i)' <=> Over(i))
               /\ (Missed(i) => Missed(i)') /\ (Unlisted(i) => Unlisted(i)')
               /\ (Caused(i) => Caused(i)') /\ (CarriedOut(i) => CarriedOut(i)')
    BY <2>1, Remembered DEF Verdicts, Over
  <2>4. AnsweredOnce'
    BY <2>1, <2>3 DEF IInv, SessionHolds, AnsweredOnce, Owner
  <2>5. NothingLost'
    BY <2>1, <2>3 DEF IInv, SessionHolds, NothingLost, Unlisted
  <2>6. DoneOrReported'
    BY <2>1, <2>3 DEF IInv, SessionHolds, DoneOrReported
  <2> QED BY <2>2, <2>4, <2>5, <2>6 DEF IInv, SessionHolds
<1>2. CASE Step
  <2>1. CASE ReadLine
    BY <1>2, <2>1, ReadLineStep DEF Step
  <2>2. CASE ~ReadLine
    <3>1. InLine
      BY <1>2, <2>2 DEF Step, no_arg, one_arg, CwdBefore, SetCwd, CwdAfter, Ls, two_arg, PermBefore, SetPerm,
                        PermAfter, Unknown, InLine, Steps
    <3> QED BY <1>2, <3>1, LineStep
  <2> QED BY <2>1, <2>2
<1>3. CASE Env
  BY <1>3, EnvStep
<1> QED BY <1>1, <1>2, <1>3 DEF Next

(* Every line that is over was answered once, in order and by the right    *)
(* table, nothing is lost without a reason, and a chdir or set_perm was    *)
(* carried out, or was reported because of what was at its path or of the  *)
(* working directory (main.cpp:395).                                       *)
THEOREM SessionAlwaysHolds == Spec => []SessionHolds
<1>1. IInv => SessionHolds
  BY DEF IInv
<1> QED BY <1>1, InvInit, InvNext, PTL DEF Spec
=============================================================================
