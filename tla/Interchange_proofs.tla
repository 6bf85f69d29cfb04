------------------------- MODULE Interchange_proofs -------------------------
(***************************************************************************)
(* Theorems about Interchange, whatever the C++ functions compute and      *)
(* whatever the sizes of the buffers: the interfaces write only to the     *)
(* memory they are given, and a C or Fortran program gets what C++ does    *)
(* unless a text was too long or ended in a blank.                         *)
(***************************************************************************)
EXTENDS Interchange, SequenceTheorems, WellFoundedInduction, TLAPS

-----------------------------------------------------------------------------
(* Least elements.                                                         *)
Less == {pair \in Nat \X Nat : pair[1] < pair[2]}

(* The order of the natural numbers, as the library has it.                *)
LEMMA LessIsTheOrder == OpToRel(<, Nat) = Less
BY Zenon DEF OpToRel, Less

(* ... which has no infinite descent.                                      *)
LEMMA LessWellFounded == IsWellFoundedOn(Less, Nat)
BY NatLessThanWellFounded, LessIsTheOrder

(* A set of natural numbers with an element has a least one.               *)
LEMMA Least ==
  ASSUME NEW S \in SUBSET Nat, NEW e \in S
  PROVE  \E m \in S : \A k \in S : m <= k
<1>1. PICK m \in S : \A k \in S : <<k, m>> \notin Less
  BY LessWellFounded, WFMin
<1>2. ASSUME NEW k \in S PROVE m <= k
  <2>1. <<k, m>> \notin Less  BY <1>1
  <2>2. <<k, m>> \in Nat \X Nat /\ <<k, m>>[1] = k /\ <<k, m>>[2] = m  OBVIOUS
  <2>3. ~ (k < m)  BY <2>1, <2>2 DEF Less
  <2> QED BY <2>3
<1> QED BY <1>2
-----------------------------------------------------------------------------
(* A text is a function on 1..Len.                                         *)
LEMMA TextParts ==
  ASSUME NEW t \in Text
  PROVE  /\ Len(t) \in 0..MaxLen
         /\ t \in [1..Len(t) -> Char]
         /\ DOMAIN t = 1..Len(t)
<1> USE SizesAssumption
<1>1. PICK k \in 0..MaxLen : t \in [1..k -> Char]  BY DEF Text
<1>2. t \in Seq(Char)  BY <1>1, SeqDef
<1>3. DOMAIN t = 1..k /\ DOMAIN t = 1..Len(t) /\ Len(t) \in Nat
  BY <1>1, <1>2, LenProperties
<1>4. Len(t) = k  BY <1>3
<1> QED BY <1>1, <1>4

(* Such a function is a text.                                              *)
LEMMA MadeText ==
  ASSUME NEW k \in 0..MaxLen, NEW t \in [1..k -> Char]
  PROVE  t \in Text /\ Len(t) = k
<1> USE SizesAssumption
<1>1. t \in Text  BY DEF Text
<1>2. DOMAIN t = 1..k /\ DOMAIN t = 1..Len(t) /\ Len(t) \in Nat  BY <1>1, TextParts
<1> QED BY <1>1, <1>2

(* The empty text is one.                                                  *)
LEMMA EmptyText == <<>> \in Text /\ Len(<<>>) = 0
<1>1. <<>> \in [1..0 -> Char]  BY SMT
<1>2. 0 \in 0..MaxLen  BY SizesAssumption
<1> QED BY <1>1, <1>2, MadeText
-----------------------------------------------------------------------------
(* What a Fortran variable holds: t, and blanks behind it.                 *)
PaddedTo(s, t) ==
  /\ Len(t) <= Len(s)
  /\ \A i \in 1..Len(t) : s[i] = t[i]
  /\ \A i \in 1..Len(s) : i > Len(t) => s[i] = Blank

(* A text without padding.                                                 *)
LEMMA PaddedToItself ==
  ASSUME NEW t \in Text
  PROVE  PaddedTo(t, t)
BY TextParts DEF PaddedTo

(* Every text has one length without its blanks.                           *)
LEMMA LenTrimIs ==
  ASSUME NEW s \in Text
  PROVE  LenTrim(s) \in 0..Len(s) /\ IsLenTrim(s, LenTrim(s))
<1> DEFINE S == {k \in 0..Len(s) : \A i \in 1..Len(s) : i > k => s[i] = Blank}
<1>1. Len(s) \in Nat  BY TextParts, SizesAssumption
<1>2. Len(s) \in S /\ S \in SUBSET Nat  BY <1>1
<1> HIDE DEF S
<1>3. PICK m \in S : \A k \in S : m <= k  BY <1>2, Least
<1>4. m \in 0..Len(s) /\ \A i \in 1..Len(s) : i > m => s[i] = Blank  BY <1>3 DEF S
<1>5. ASSUME m # 0, s[m] = Blank PROVE FALSE
  <2>1. m - 1 \in S  BY <1>1, <1>4, <1>5 DEF S
  <2> QED BY <1>1, <1>3, <1>4, <2>1
<1>6. IsLenTrim(s, m)  BY <1>4, <1>5 DEF IsLenTrim
<1> QED BY <1>4, <1>6 DEF LenTrim

(* Trimming makes a text of a text.                                        *)
LEMMA TrimIsText ==
  ASSUME NEW s \in Text
  PROVE  Trim(s) \in Text
<1>1. LenTrim(s) \in 0..Len(s) /\ Len(s) \in 0..MaxLen  BY LenTrimIs, TextParts
<1>2. LenTrim(s) \in 0..MaxLen  BY <1>1, SizesAssumption
<1>3. Trim(s) \in [1..LenTrim(s) -> Char]  BY <1>1, TextParts, SizesAssumption DEF Trim
<1> QED BY <1>2, <1>3, MadeText

(* Trimming gives back what was padded.                                    *)
LEMMA TrimPadded ==
  ASSUME NEW s \in Text, NEW t \in Text, PaddedTo(s, t), ~ EndsBlank(t)
  PROVE  Trim(s) = t
<1> DEFINE k == LenTrim(s)
           m == Len(t)
<1>1. /\ k \in 0..Len(s) /\ m \in 0..Len(s) /\ Len(s) \in Nat
      /\ t \in [1..m -> Char]
  BY LenTrimIs, TextParts, SizesAssumption DEF PaddedTo
<1>2. m # 0 => t[m] # Blank  BY EmptyText DEF EndsBlank
<1>3. m # 0 => s[m] # Blank  BY <1>1, <1>2 DEF PaddedTo
<1>4. \A i \in 1..Len(s) : i > m => s[i] = Blank  BY DEF PaddedTo
<1>5. /\ k # 0 => s[k] # Blank
      /\ \A i \in 1..Len(s) : i > k => s[i] = Blank
  BY LenTrimIs DEF IsLenTrim
<1> HIDE DEF k, m
<1>6. k = m  BY <1>1, <1>3, <1>4, <1>5
<1>7. \A i \in 1..m : s[i] = t[i]  BY DEF PaddedTo, m
<1>8. [i \in 1..m |-> s[i]] = t  BY <1>1, <1>7
<1> QED BY <1>6, <1>8 DEF Trim, k
-----------------------------------------------------------------------------
(* What the buffer of the C program holds: t and a NUL, and nothing of the *)
(* interface's behind its end.                                             *)
Holds(memory, t) ==
  /\ memory \in Memory
  /\ Len(t) < CSize
  /\ \A i \in 1..Len(t) : memory[i] = t[i]
  /\ memory[Len(t) + 1] = Nul
  /\ \A i \in 1..(MaxLen + 1) : i > CSize => memory[i] = Unset

(* C++ reads from the buffer what was put into it.                         *)
LEMMA CStringIs ==
  ASSUME NEW t \in Text, NEW memory, Holds(memory, t)
  PROVE  CString(memory) = t
<1> DEFINE m == Len(t)
           E == 1..(Len(memory) + 1)
           end == CHOOSE i \in E : IsEnd(memory, i)
<1>1. m \in 0..MaxLen /\ m < CSize /\ t \in [1..m -> Char]  BY TextParts DEF Holds
<1>2. DOMAIN memory = 1..(MaxLen + 1) /\ Len(memory) = MaxLen + 1
  <2>1. memory \in [1..(MaxLen + 1) -> Char \cup {Nul, Unset}]  BY DEF Holds, Memory
  <2>2. memory \in Seq(Char \cup {Nul, Unset})  BY <2>1, SeqDef, SizesAssumption
  <2> QED BY <2>1, <2>2, LenProperties, SizesAssumption
<1>3. /\ \A i \in 1..m : memory[i] = t[i] /\ memory[i] # Nul
      /\ memory[m + 1] = Nul
  BY <1>1, CharAssumption DEF Holds
<1>4. m + 1 \in E /\ IsEnd(memory, m + 1)
  BY <1>1, <1>2, <1>3, SizesAssumption DEF IsEnd
<1>5. end \in E /\ IsEnd(memory, end)  BY <1>4
<1> HIDE DEF end
<1>6. end = m + 1
  BY <1>1, <1>2, <1>3, <1>4, <1>5, SizesAssumption DEF IsEnd
<1>7. [i \in 1..(end - 1) |-> memory[i]] = t  BY <1>1, <1>3, <1>6
<1> QED BY <1>7 DEF CString, end

(* Storing a text that fits.                                               *)
LEMMA StoredHolds ==
  ASSUME NEW t \in Text, NEW u \in Text, NEW memory, Holds(memory, u), Len(t) < CSize
  PROVE  Holds(Stored(t, memory), t)
<1>1. Len(t) \in 0..MaxLen /\ t \in [1..Len(t) -> Char]  BY TextParts
<1>2. /\ memory \in [1..(MaxLen + 1) -> Char \cup {Nul, Unset}]
      /\ \A i \in 1..(MaxLen + 1) : i > CSize => memory[i] = Unset
  BY DEF Holds, Memory
<1> DEFINE st == Stored(t, memory)
<1>3. \A i \in 1..(MaxLen + 1) :
        st[i] = IF i <= Len(t) THEN t[i] ELSE IF i = Len(t) + 1 THEN Nul ELSE memory[i]
  BY <1>2 DEF Stored
<1>4. st \in Memory
  BY <1>1, <1>2, SizesAssumption DEF Stored, Memory
<1> HIDE DEF st
<1>5. /\ \A i \in 1..Len(t) : st[i] = t[i]
      /\ st[Len(t) + 1] = Nul
      /\ \A i \in 1..(MaxLen + 1) : i > CSize => st[i] = Unset
  BY <1>1, <1>2, <1>3, SizesAssumption
<1>6. Holds(st, t)  BY <1>4, <1>5 DEF Holds
<1> QED BY <1>6 DEF st

(* fs_str2char stores a text or leaves the buffer as it is.                *)
LEMMA Str2CharHolds ==
  ASSUME NEW t \in Text, NEW u \in Text, NEW memory, Holds(memory, u)
  PROVE  LET r == Str2Char(t, memory, CSize) IN
         /\ r.len \in 0..(CSize - 1)
         /\ Len(t) < CSize => r.len = Len(t) /\ Holds(r.mem, t)
         /\ Len(t) >= CSize => r.len = 0 /\ r.mem = memory
<1>1. Len(t) \in Nat /\ CSize \in Nat \ {0}  BY TextParts, SizesAssumption
<1>2. CASE Len(t) < CSize
  BY <1>1, <1>2, StoredHolds DEF Str2Char, Refused
<1>3. CASE Len(t) >= CSize
  BY <1>1, <1>3 DEF Str2Char, Refused
<1> QED BY <1>1, <1>2, <1>3

(* A Fortran function returns all of a text or nothing.                    *)
LEMMA FortranGets ==
  ASSUME NEW t \in Text
  PROVE  /\ FortranResult(t) \in {t, <<>>}
         /\ Len(t) < MaxPath => FortranResult(t) = t
<1>1. Len(t) \in Nat /\ Len(t) <= MaxLen /\ t \in [1..Len(t) -> Char]
  BY TextParts, SizesAssumption
<1>2. CASE Len(t) < MaxPath
  <2>1. /\ Str2Char(t, Fresh, MaxPath).len = Len(t)
        /\ Str2Char(t, Fresh, MaxPath).mem = Stored(t, Fresh)
    BY <1>1, <1>2, SizesAssumption DEF Str2Char, Refused
  <2>2. \A i \in 1..Len(t) : Stored(t, Fresh)[i] = t[i]
    BY <1>1, SizesAssumption DEF Stored, Fresh
  <2>3. FortranResult(t) = [i \in 1..Len(t) |-> Stored(t, Fresh)[i]]
    BY <2>1 DEF FortranResult
  <2>4. FortranResult(t) = t  BY <1>1, <2>2, <2>3
  <2> QED BY <1>2, <2>4
<1>3. CASE ~ (Len(t) < MaxPath)
  <2>1. Str2Char(t, Fresh, MaxPath).len = 0
    BY <1>1, <1>3, SizesAssumption DEF Str2Char, Refused
  <2>2. FortranResult(t) = <<>>  BY <2>1, SMT DEF FortranResult
  <2> QED BY <1>3, <2>2
<1> QED BY <1>2, <1>3

(* The blanks that a variable of a given length has behind a text.         *)
LEMMA PaddedIs ==
  ASSUME NEW t \in Text, NEW k \in Nat, Len(t) + k <= MaxLen
  PROVE  Padded(t, k) \in Text /\ PaddedTo(Padded(t, k), t)
<1>1. Len(t) \in Nat /\ t \in [1..Len(t) -> Char]  BY TextParts, SizesAssumption
<1>2. Padded(t, k) \in [1..(Len(t) + k) -> Char]
  BY <1>1, CharAssumption DEF Padded
<1>3. Len(t) + k \in 0..MaxLen  BY <1>1, SizesAssumption
<1>4. Padded(t, k) \in Text /\ Len(Padded(t, k)) = Len(t) + k  BY <1>2, <1>3, MadeText
<1>5. \A i \in 1..(Len(t) + k) : Padded(t, k)[i] = IF i <= Len(t) THEN t[i] ELSE Blank
  BY DEF Padded
<1> QED BY <1>1, <1>4, <1>5 DEF PaddedTo
-----------------------------------------------------------------------------
(***************************************************************************)
(* The inductive invariant: what the variables of the C and the Fortran    *)
(* program hold is the text of C++ in their own form.                      *)
(***************************************************************************)
Buffer == \E u \in Text : Holds(out, u)

SameText ==
  /\ clean => PaddedTo(path_str, cpp) /\ ~ EndsBlank(cpp)
  /\ env.clean => env.fortran = env.cpp /\ ~ EndsBlank(env.cpp)
  /\ fits => Holds(out, cpp)
  /\ env.fits => env.c = env.cpp /\ Len(env.cpp) < CSize

Inv == TypeOK /\ Buffer /\ SameText

(* What a function is handed are texts, and the right ones.                *)
LEMMA HandedIs ==
  ASSUME Inv
  PROVE  /\ Handed.cpp = cpp
         /\ Handed.fortran = Trim(path_str) /\ Handed.fortran \in Text
         /\ Handed.c = CString(out) /\ Handed.c \in Text
         /\ clean => Handed.fortran = cpp
         /\ fits => Handed.c = cpp /\ Len(cpp) < CSize
<1>1. cpp \in Text /\ path_str \in Text  BY DEF Inv, TypeOK
<1>2. Trim(path_str) \in Text  BY <1>1, TrimIsText
<1>3. PICK u \in Text : Holds(out, u)  BY DEF Inv, Buffer
<1>4. CString(out) \in Text  BY <1>3, CStringIs
<1>5. clean => Trim(path_str) = cpp  BY <1>1, TrimPadded DEF Inv, SameText
<1>6. fits => CString(out) = cpp /\ Len(cpp) < CSize
  BY <1>1, CStringIs DEF Inv, SameText, Holds
<1> QED BY <1>2, <1>4, <1>5, <1>6 DEF Handed

(* What the results of a function become.                                  *)
LEMMA ResultsAre ==
  ASSUME Inv, NEW new \in Text, NEW fortran \in Text, NEW c \in Text,
         Becomes(new, fortran, c)
  PROVE  /\ cpp' = new
         /\ path_str' \in Text /\ path_str' \in {fortran, <<>>}
         /\ Len(fortran) < MaxPath => path_str' = fortran
         /\ Buffer' /\ out' \in Memory /\ n' \in 0..(CSize - 1)
         /\ Len(c) < CSize => Holds(out', c) /\ n' = Len(c)
         /\ Len(c) >= CSize => out' = out /\ n' = 0
<1>1. PICK u \in Text : Holds(out, u)  BY DEF Inv, Buffer
<1>2. /\ n' \in 0..(CSize - 1)
      /\ Len(c) < CSize => Holds(out', c) /\ n' = Len(c)
      /\ Len(c) >= CSize => out' = out /\ n' = 0
  BY <1>1, Str2CharHolds DEF Becomes
<1>3. Len(c) \in Nat /\ CSize \in Nat  BY TextParts, SizesAssumption
<1>4. Buffer' /\ out' \in Memory
  <2>1. CASE Len(c) < CSize  BY <1>2, <2>1 DEF Buffer, Holds
  <2>2. CASE Len(c) >= CSize  BY <1>1, <1>2, <2>2 DEF Buffer, Holds
  <2> QED BY <1>3, <2>1, <2>2
<1>5. /\ path_str' \in {fortran, <<>>}
      /\ Len(fortran) < MaxPath => path_str' = fortran
  BY FortranGets DEF Becomes
<1>6. path_str' \in Text  BY <1>5, EmptyText
<1>7. cpp' = new  BY DEF Becomes
<1> QED BY <1>2, <1>4, <1>5, <1>6, <1>7
-----------------------------------------------------------------------------
(* The invariant holds at first.                                           *)
LEMMA Initially == Init => Inv
<1> SUFFICES ASSUME Init PROVE Inv
  OBVIOUS
<1>1. <<>> \in Text /\ Len(<<>>) = 0  BY EmptyText
<1>2. CSize \in Nat \ {0} /\ CSize <= MaxLen /\ MaxLen \in Nat  BY SizesAssumption
<1>3. \A i \in 1..(MaxLen + 1) : out[i] = IF i = 1 THEN Nul ELSE Unset
  BY <1>1, <1>2 DEF Init, Stored, Fresh
<1>4. out \in Memory
  BY <1>1, <1>2 DEF Init, Stored, Fresh, Memory
<1>5. Holds(out, <<>>)  BY <1>1, <1>2, <1>3, <1>4 DEF Holds
<1>6. Buffer  BY <1>1, <1>5 DEF Buffer
<1>7. TypeOK  BY <1>1, <1>2, <1>4 DEF Init, TypeOK
<1>8. SameText  BY <1>1, <1>2, <1>5, PaddedToItself DEF Init, SameText, EndsBlank
<1> QED BY <1>6, <1>7, <1>8 DEF Inv

(* A new path, padded in Fortran.                                          *)
LEMMA SetPathKeeps ==
  ASSUME Inv, NEW t \in Arg, NEW k \in 0..MaxLen, SetPath(t, k)
  PROVE  Inv'
<1>1. t \in Text /\ k \in Nat  BY ArgAssumption, SizesAssumption
<1>2. Len(t) \in Nat /\ CSize \in Nat /\ Len(t) < CSize
  BY <1>1, TextParts, SizesAssumption DEF SetPath
<1>3. path_str' \in Text /\ PaddedTo(path_str', t)  BY <1>1, PaddedIs DEF SetPath
<1>4. PICK u \in Text : Holds(out, u)  BY DEF Inv, Buffer
<1>5. Holds(out', t)  BY <1>1, <1>2, <1>4, StoredHolds DEF SetPath
<1>6. Buffer' /\ out' \in Memory  BY <1>1, <1>5 DEF Buffer, Holds
<1>7. n' \in 0..(CSize - 1)  BY <1>2 DEF SetPath
<1>8. (~ EndsBlank(t)) \in BOOLEAN  BY DEF EndsBlank
<1>9. TypeOK'  BY <1>1, <1>3, <1>6, <1>7, <1>8 DEF SetPath, Inv, TypeOK
<1>10. SameText'  BY <1>3, <1>5 DEF SetPath, Inv, SameText
<1> QED BY <1>6, <1>9, <1>10 DEF Inv

(* A result of three equal texts keeps the invariant, and so does one of   *)
(* different texts when the history has been lost before.                  *)
LEMMA ResultsKeep ==
  ASSUME Inv, NEW new \in Text, NEW fortran \in Text, NEW c \in Text,
         Becomes(new, fortran, c), UNCHANGED env,
         clean' \in BOOLEAN, fits' \in BOOLEAN,
         clean' => fortran = new /\ Len(new) < MaxPath /\ ~ EndsBlank(new),
         fits' => c = new /\ Len(new) < CSize
  PROVE  Inv'
<1>1. TypeOK'  BY ResultsAre DEF Inv, TypeOK
<1>2. Buffer'  BY ResultsAre
<1>3. clean' => PaddedTo(path_str', cpp') /\ ~ EndsBlank(cpp')
  BY ResultsAre, PaddedToItself
<1>4. fits' => Holds(out', cpp')  BY ResultsAre
<1>5. SameText'  BY <1>3, <1>4 DEF Inv, SameText
<1> QED BY <1>1, <1>2, <1>5 DEF Inv

(* A function of one path.                                                 *)
LEMMA ComputeKeeps ==
  ASSUME Inv, NEW f \in DOMAIN Lib, Compute(f)
  PROVE  Inv'
<1> DEFINE new == Lib[f][Handed.cpp]
           fortran == Lib[f][Handed.fortran]
           c == Lib[f][Handed.c]
<1>1. Handed.cpp \in Text  BY HandedIs DEF Inv, TypeOK
<1>2. new \in Text /\ fortran \in Text /\ c \in Text  BY <1>1, HandedIs, LibAssumption
<1>3. Becomes(new, fortran, c) /\ UNCHANGED env  BY DEF Compute
<1>4. clean \in BOOLEAN /\ fits \in BOOLEAN  BY DEF Inv, TypeOK
<1>5. cpp' = new  BY <1>3 DEF Becomes
<1>6. /\ clean' = (clean /\ Len(new) < MaxPath /\ ~ EndsBlank(new))
      /\ fits' = (fits /\ Len(new) < CSize)
  BY <1>5 DEF Compute
<1>7. clean' \in BOOLEAN /\ fits' \in BOOLEAN  BY <1>6
<1>8. clean' => fortran = new /\ Len(new) < MaxPath /\ ~ EndsBlank(new)
  BY <1>4, <1>6, HandedIs
<1>9. fits' => c = new /\ Len(new) < CSize  BY <1>4, <1>6, HandedIs
<1> HIDE DEF new, fortran, c
<1> QED BY <1>2, <1>3, <1>7, <1>8, <1>9, ResultsKeep

(* A function of two, the second one padded in Fortran.                    *)
LEMMA CombineKeeps ==
  ASSUME Inv, NEW f \in DOMAIN Lib2, NEW t \in Arg, NEW k \in 0..MaxLen, Combine(f, t, k)
  PROVE  Inv'
<1> DEFINE u == Trim(Padded(t, k))
           new == Lib2[f][<<Handed.cpp, t>>]
           fortran == Lib2[f][<<Handed.fortran, u>>]
           c == Lib2[f][<<Handed.c, t>>]
<1>1. t \in Text /\ k \in Nat /\ Len(t) + k <= MaxLen
  BY ArgAssumption, SizesAssumption DEF Combine
<1>2. Padded(t, k) \in Text /\ PaddedTo(Padded(t, k), t)  BY <1>1, PaddedIs
<1>3. u \in Text /\ (~ EndsBlank(t) => u = t)  BY <1>1, <1>2, TrimIsText, TrimPadded
<1> HIDE DEF u
<1>4. Handed.cpp \in Text  BY HandedIs DEF Inv, TypeOK
<1>5. new \in Text /\ fortran \in Text /\ c \in Text
  BY <1>1, <1>3, <1>4, HandedIs, Lib2Assumption
<1>6. Becomes(new, fortran, c) /\ UNCHANGED env  BY DEF Combine, u
<1>7. clean \in BOOLEAN /\ fits \in BOOLEAN  BY DEF Inv, TypeOK
<1>8. cpp' = new  BY <1>6 DEF Becomes
<1>9. /\ clean' = (clean /\ ~ EndsBlank(t) /\ Len(new) < MaxPath /\ ~ EndsBlank(new))
      /\ fits' = (fits /\ Len(new) < CSize)
  BY <1>8 DEF Combine
<1>10. clean' \in BOOLEAN /\ fits' \in BOOLEAN  BY <1>9
<1>11. clean' => fortran = new /\ Len(new) < MaxPath /\ ~ EndsBlank(new)
  BY <1>3, <1>7, <1>9, HandedIs
<1>12. fits' => c = new /\ Len(new) < CSize  BY <1>7, <1>9, HandedIs
<1> HIDE DEF new, fortran, c
<1> QED BY <1>5, <1>6, <1>10, <1>11, <1>12, ResultsKeep

(* A function of none.                                                     *)
LEMMA ReportKeeps ==
  ASSUME Inv, NEW f \in DOMAIN System, Report(f)
  PROVE  Inv'
<1> DEFINE t == System[f]
<1>1. t \in Text  BY SystemAssumption
<1>2. Becomes(t, t, t) /\ UNCHANGED env  BY DEF Report
<1>3. /\ clean' = (Len(t) < MaxPath /\ ~ EndsBlank(t))
      /\ fits' = (Len(t) < CSize)
  BY DEF Report
<1>4. clean' \in BOOLEAN /\ fits' \in BOOLEAN  BY <1>3 DEF EndsBlank
<1>5. clean' => Len(t) < MaxPath /\ ~ EndsBlank(t)  BY <1>3
<1>6. fits' => Len(t) < CSize  BY <1>3
<1> HIDE DEF t
<1> QED BY <1>1, <1>2, <1>4, <1>5, <1>6, ResultsKeep

(* Setting the environment variable.                                       *)
LEMMA SetEnvKeeps ==
  ASSUME Inv, SetEnv
  PROVE  Inv'
<1>1. /\ env'.cpp = cpp /\ env'.fortran = Handed.fortran /\ env'.c = Handed.c
      /\ env'.clean = clean /\ env'.fits = fits
      /\ UNCHANGED <<cpp, path_str, out, n, clean, fits>>
  BY HandedIs DEF SetEnv
<1>2. env' \in [cpp : Text, fortran : Text, c : Text, clean : BOOLEAN, fits : BOOLEAN]
  BY HandedIs DEF SetEnv, Inv, TypeOK
<1>3. TypeOK'  BY <1>1, <1>2 DEF Inv, TypeOK
<1>4. Buffer'  BY <1>1 DEF Inv, Buffer
<1>5. SameText'  BY <1>1, HandedIs DEF Inv, SameText
<1> QED BY <1>3, <1>4, <1>5 DEF Inv

(* Reading it.                                                             *)
LEMMA GetEnvKeeps ==
  ASSUME Inv, GetEnv
  PROVE  Inv'
<1>1. /\ env.cpp \in Text /\ env.fortran \in Text /\ env.c \in Text
      /\ env.clean \in BOOLEAN /\ env.fits \in BOOLEAN
  BY DEF Inv, TypeOK
<1>2. /\ cpp' = env.cpp /\ path_str' = env.fortran /\ UNCHANGED env
      /\ clean' = env.clean /\ fits' = env.fits
  BY DEF GetEnv
<1>3. PICK u \in Text : Holds(out, u)  BY DEF Inv, Buffer
<1>4. /\ n' \in 0..(CSize - 1)
      /\ Len(env.c) < CSize => Holds(out', env.c)
      /\ Len(env.c) >= CSize => out' = out
  BY <1>1, <1>3, Str2CharHolds DEF GetEnv
<1>5. Len(env.c) \in Nat /\ CSize \in Nat  BY <1>1, TextParts, SizesAssumption
<1>6. Buffer' /\ out' \in Memory
  <2>1. CASE Len(env.c) < CSize  BY <1>1, <1>4, <2>1 DEF Buffer, Holds
  <2>2. CASE Len(env.c) >= CSize  BY <1>3, <1>4, <2>2 DEF Buffer, Holds
  <2> QED BY <1>5, <2>1, <2>2
<1>7. TypeOK'  BY <1>1, <1>2, <1>4, <1>6 DEF Inv, TypeOK
<1>8. SameText'  BY <1>1, <1>2, <1>4, PaddedToItself DEF Inv, SameText
<1> QED BY <1>6, <1>7, <1>8 DEF Inv

(* All of them.                                                            *)
LEMMA StepKeeps == Inv /\ [Next]_vars => Inv'
<1> SUFFICES ASSUME Inv, [Next]_vars PROVE Inv'
  OBVIOUS
<1>1. CASE \E t \in Arg, k \in 0..MaxLen : SetPath(t, k)  BY <1>1, SetPathKeeps
<1>2. CASE \E f \in DOMAIN Lib : Compute(f)  BY <1>2, ComputeKeeps
<1>3. CASE \E f \in DOMAIN Lib2, t \in Arg, k \in 0..MaxLen : Combine(f, t, k)
  BY <1>3, CombineKeeps
<1>4. CASE \E f \in DOMAIN System : Report(f)  BY <1>4, ReportKeeps
<1>5. CASE SetEnv  BY <1>5, SetEnvKeeps
<1>6. CASE GetEnv  BY <1>6, GetEnvKeeps
<1>7. CASE UNCHANGED vars  BY <1>7 DEF vars, Inv, TypeOK, Buffer, SameText
<1> QED BY <1>1, <1>2, <1>3, <1>4, <1>5, <1>6, <1>7 DEF Next

(* So the invariant holds always.                                          *)
LEMMA Invariant == Spec => []Inv
BY Initially, StepKeeps, PTL DEF Spec
-----------------------------------------------------------------------------
(* Whatever the C++ functions return, the variables of the C and Fortran   *)
(* programs hold texts and the length returned is one of the buffer.       *)
THEOREM TextTypes == Spec => []TypeOK
<1>1. Inv => TypeOK  BY DEF Inv
<1> QED BY <1>1, Invariant, PTL

(* fs_str2char (c.cpp:13) never writes behind the buffer it is given, for  *)
(* any size of the buffer and any results.                                 *)
THEOREM NothingBehindTheBuffer == Spec => []OnlyOwnMemory
<1>1. Inv => OnlyOwnMemory  BY DEF Inv, Buffer, Holds, OnlyOwnMemory
<1> QED BY <1>1, Invariant, PTL

(* The Fortran program computes what the C++ program does, through every   *)
(* padding, trimming and copying, with any functions in the place of the   *)
(* library's.                                                              *)
THEOREM FortranFollows == Spec => []FortranAgrees
<1>1. Inv => FortranAgrees  BY HandedIs DEF Inv, SameText, FortranAgrees
<1> QED BY <1>1, Invariant, PTL

(* So does the C program with a single buffer, until a result is refused.  *)
THEOREM CFollows == Spec => []CAgrees
<1>1. Inv => CAgrees  BY HandedIs DEF Inv, SameText, CAgrees
<1> QED BY <1>1, Invariant, PTL

(* No result is cut off on its way to either program.                      *)
THEOREM ResultsWhole == Spec => WholeOrNothing
<1> DEFINE Whole == \A f \in DOMAIN Lib : Compute(f) =>
                      /\ path_str' \in {Lib[f][Trim(path_str)], <<>>}
                      /\ \/ n' = Len(CString(out')) /\ CString(out') = Lib[f][CString(out)]
                         \/ n' = 0 /\ out' = out
<1>1. ASSUME Inv, NEW f \in DOMAIN Lib, Compute(f)
      PROVE  /\ path_str' \in {Lib[f][Trim(path_str)], <<>>}
             /\ \/ n' = Len(CString(out')) /\ CString(out') = Lib[f][CString(out)]
                \/ n' = 0 /\ out' = out
  <2> DEFINE new == Lib[f][Handed.cpp]
             fortran == Lib[f][Handed.fortran]
             c == Lib[f][Handed.c]
  <2>1. Handed.cpp \in Text  BY <1>1, HandedIs DEF Inv, TypeOK
  <2>2. new \in Text /\ fortran \in Text /\ c \in Text
    BY <1>1, <2>1, HandedIs, LibAssumption
  <2>3. Becomes(new, fortran, c)  BY <1>1 DEF Compute
  <2>4. fortran = Lib[f][Trim(path_str)] /\ c = Lib[f][CString(out)]  BY <1>1, HandedIs
  <2> HIDE DEF new, fortran, c
  <2>5. path_str' \in {fortran, <<>>}  BY <1>1, <2>2, <2>3, ResultsAre
  <2>6. /\ Len(c) < CSize => Holds(out', c) /\ n' = Len(c)
        /\ Len(c) >= CSize => out' = out /\ n' = 0
    BY <1>1, <2>2, <2>3, ResultsAre
  <2>7. Len(c) \in Nat /\ CSize \in Nat  BY <2>2, TextParts, SizesAssumption
  <2>8. CASE Len(c) < CSize
    <3>1. CString(out') = c  BY <2>2, <2>6, <2>8, CStringIs
    <3> QED BY <2>4, <2>5, <2>6, <2>8, <3>1
  <2>9. CASE Len(c) >= CSize  BY <2>4, <2>5, <2>6, <2>9
  <2> QED BY <2>7, <2>8, <2>9
<1>2. Inv => [Whole]_vars  BY <1>1
<1> HIDE DEF Whole
<1>3. Spec => [][Whole]_vars  BY <1>2, Invariant, PTL
<1> QED BY <1>3 DEF WholeOrNothing, Whole
=============================================================================
