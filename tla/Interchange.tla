---------------------------- MODULE Interchange ----------------------------
(***************************************************************************)
(* The C and Fortran interfaces: how a text crosses from a caller to the   *)
(* C++ function and back.  One program is run three times at once: in C++, *)
(* which is what it is meant to compute; in C, with its path in a buffer   *)
(* of CSize characters that every call overwrites; and in Fortran, with    *)
(* its path in a path_t or a character variable, which may have blanks at  *)
(* its end, and a fresh buffer of MaxPath characters for every call.       *)
(*                                                                         *)
(* The interfaces treat every C++ function alike, so that the functions    *)
(* are parameters: Lib those from a path to a text, Lib2 those with a      *)
(* second argument, System those that report a text of the system.  What   *)
(* setenv stores and getenv reads is the state that the functions keep.    *)
(***************************************************************************)
EXTENDS Naturals, Sequences

CONSTANTS
  Char,        \* the characters of a text
  Blank,       \* the one that Fortran pads with
  Nul,         \* the one that ends a text in C
  Unset,       \* what is in memory nobody has written to
  MaxLen,      \* bounds the length of texts
  MaxPath,     \* max_path()
  CSize,       \* the size of the C program's buffer
  Lib,         \* name of a function -> text -> text
  Lib2,        \* name of a function -> text, text -> text
  System,      \* name of a function -> text
  Arg          \* the texts that the programs have of their own

Text == UNION {[1..k -> Char] : k \in 0..MaxLen}

ASSUME CharAssumption   == Blank \in Char /\ {Nul, Unset} \cap Char = {} /\ Nul # Unset
ASSUME SizesAssumption  == /\ MaxLen \in Nat
                           /\ MaxPath \in 1..MaxLen
                           /\ CSize \in 1..MaxLen
ASSUME LibAssumption    == Lib \in [DOMAIN Lib -> [Text -> Text]]
ASSUME Lib2Assumption   == Lib2 \in [DOMAIN Lib2 -> [Text \X Text -> Text]]
ASSUME SystemAssumption == System \in [DOMAIN System -> Text]
ASSUME ArgAssumption    == Arg \subseteq Text

(* Memory of a buffer, and what lies behind it.                            *)
Memory == [1..(MaxLen + 1) -> Char \cup {Nul, Unset}]

VARIABLES
  cpp,         \* the C++ program's path
  path_str,    \* the Fortran program's
  out,         \* the C program's buffer
  n,           \* what its last call returned
  env,         \* an environment variable, in each program
  clean,       \* history: is the path made of texts that Fortran can bring over?
  fits         \* history: of texts that fit in the C program's buffer?

vars == <<cpp, path_str, out, n, env, clean, fits>>

TypeOK ==
  /\ cpp \in Text
  /\ path_str \in Text
  /\ out \in Memory
  /\ n \in 0..(CSize - 1)
  /\ env \in [cpp : Text, fortran : Text, c : Text, clean : BOOLEAN, fits : BOOLEAN]
  /\ {clean, fits} \subseteq BOOLEAN

(* Faulty variants of the definitions below are marked as in FileCalls.    *)
-----------------------------------------------------------------------------
(***************************************************************************)
(* fs_str2char: the text and its terminating NUL, or nothing and 0.        *)
(***************************************************************************)
RefusedLate(s, size) == Len(s) > size                  \* faulty variant
Refused(s, size)     == Len(s) >= size

Stored(s, memory) ==
  [i \in DOMAIN memory |-> IF i <= Len(s) THEN s[i]
                           ELSE IF i = Len(s) + 1 THEN Nul ELSE memory[i]]

Truncated(s, memory, size) ==                          \* faulty variant
  [mem |-> [i \in DOMAIN memory |->
              IF i <= Len(s) /\ i < size THEN s[i]
              ELSE IF i = Len(s) + 1 \/ i = size THEN Nul ELSE memory[i]],
   len |-> IF Len(s) < size THEN Len(s) ELSE size - 1]
Unterminated(s, memory, size) ==                       \* faulty variant
  [mem |-> [i \in DOMAIN memory |-> IF i <= Len(s) /\ i < size THEN s[i] ELSE memory[i]],
   len |-> IF Refused(s, size) THEN 0 ELSE Len(s)]
LengthAnyway(s, memory, size) ==                       \* faulty variant
  [mem |-> IF Refused(s, size) THEN memory ELSE Stored(s, memory), len |-> Len(s)]

Str2Char(s, memory, size) ==
  IF Refused(s, size) THEN [mem |-> memory, len |-> 0]
  ELSE [mem |-> Stored(s, memory), len |-> Len(s)]

(* The C++ function makes a string of the characters up to the NUL.        *)
IsEnd(memory, i) ==
  /\ i \in DOMAIN memory => memory[i] = Nul
  /\ \A j \in DOMAIN memory : j < i => memory[j] # Nul
CString(memory) ==
  LET end == CHOOSE i \in 1..(Len(memory) + 1) : IsEnd(memory, i)
  IN  [i \in 1..(end - 1) |-> memory[i]]
-----------------------------------------------------------------------------
(* trim(path) // C_NULL_CHAR, which C++ reads up to the NUL.               *)
IsLenTrim(s, k) ==
  /\ k # 0 => s[k] # Blank
  /\ \A i \in 1..Len(s) : i > k => s[i] = Blank
LenTrim(s) == CHOOSE k \in 0..Len(s) : IsLenTrim(s, k)

Untrimmed(s) == s                                      \* faulty variant
Trim(s)      == [i \in 1..LenTrim(s) |-> s[i]]

(* ifc0a.inc and ifc0b.inc: a fresh buffer; its first N characters.        *)
Fresh == [i \in 1..(MaxLen + 1) |-> Unset]
FortranResult(s) ==
  LET b == Str2Char(s, Fresh, MaxPath) IN [i \in 1..b.len |-> b.mem[i]]

(* A character variable that holds t: blanks up to its declared length.    *)
Padded(t, k) == [i \in 1..(Len(t) + k) |-> IF i <= Len(t) THEN t[i] ELSE Blank]
EndsBlank(t) == t # <<>> /\ t[Len(t)] = Blank

(* What a function is handed by each of the programs.                      *)
Handed == [cpp |-> cpp, fortran |-> Trim(path_str), c |-> CString(out)]

(* The results of a function, as the two interfaces bring them back.       *)
Becomes(new, fortran, c) ==
  /\ cpp' = new
  /\ path_str' = FortranResult(fortran)
  /\ out' = Str2Char(c, out, CSize).mem
  /\ n' = Str2Char(c, out, CSize).len
-----------------------------------------------------------------------------
(* path_t(t), or the assignment to a character variable.                   *)
SetPath(t, k) ==
  /\ Len(t) < CSize /\ Len(t) + k <= MaxLen
  /\ cpp' = t
  /\ path_str' = Padded(t, k)
  /\ out' = Stored(t, out)
  /\ n' = Len(t)
  /\ clean' = ~ EndsBlank(t)
  /\ fits' = TRUE
  /\ UNCHANGED env

(* A function of one path: parent, normal, canonical, read_symlink, ...    *)
Compute(f) ==
  LET F == Lib[f] IN
  /\ Becomes(F[Handed.cpp], F[Handed.fortran], F[Handed.c])
  /\ clean' = (clean /\ Len(cpp') < MaxPath /\ ~ EndsBlank(cpp'))
  /\ fits' = (fits /\ Len(cpp') < CSize)
  /\ UNCHANGED env

(* A function of two: join, with_suffix, relative_to, absolute, which, ... *)
Combine(f, t, k) ==
  LET F == Lib2[f] IN
  /\ Len(t) + k <= MaxLen
  /\ Becomes(F[<<Handed.cpp, t>>],
             F[<<Handed.fortran, Trim(Padded(t, k))>>],
             F[<<Handed.c, t>>])
  /\ clean' = (clean /\ ~ EndsBlank(t) /\ Len(cpp') < MaxPath /\ ~ EndsBlank(cpp'))
  /\ fits' = (fits /\ Len(cpp') < CSize)
  /\ UNCHANGED env

(* A function of none: get_homedir, exe_path, get_username, ...            *)
Report(f) ==
  LET t == System[f] IN
  /\ Becomes(t, t, t)
  /\ clean' = (Len(t) < MaxPath /\ ~ EndsBlank(t))
  /\ fits' = (Len(t) < CSize)
  /\ UNCHANGED env

(* setenv is handed a value as every function is.                          *)
SetEnv ==
  /\ env' = [cpp |-> Handed.cpp, fortran |-> Handed.fortran, c |-> Handed.c,
             clean |-> clean, fits |-> fits]
  /\ UNCHANGED <<cpp, path_str, out, n, clean, fits>>

(* getenv is Fortran's own and has no limit; C goes through fs_getenv.     *)
GetEnv ==
  /\ cpp' = env.cpp
  /\ path_str' = env.fortran
  /\ out' = Str2Char(env.c, out, CSize).mem
  /\ n' = Str2Char(env.c, out, CSize).len
  /\ clean' = env.clean
  /\ fits' = env.fits
  /\ UNCHANGED env

Init ==
  /\ cpp = <<>> /\ path_str = <<>> /\ out = Stored(<<>>, Fresh) /\ n = 0
  /\ clean = TRUE /\ fits = TRUE
  /\ env = [cpp |-> <<>>, fortran |-> <<>>, c |-> <<>>, clean |-> TRUE, fits |-> TRUE]

Next ==
  \/ \E t \in Arg, k \in 0..MaxLen : SetPath(t, k)
  \/ \E f \in DOMAIN Lib : Compute(f)
  \/ \E f \in DOMAIN Lib2, t \in Arg, k \in 0..MaxLen : Combine(f, t, k)
  \/ \E f \in DOMAIN System : Report(f)
  \/ SetEnv
  \/ GetEnv

Spec == Init /\ [][Next]_vars
-----------------------------------------------------------------------------
(***************************************************************************)
(* Nothing is written behind the buffer the C program has given.           *)
(* (c.cpp:15: "output buffer too small")                                   *)
(***************************************************************************)
OnlyOwnMemory == \A i \in 1..(MaxLen + 1) : i > CSize => out[i] = Unset

(***************************************************************************)
(* A result comes over whole or not at all: Fortran gets all of it or the  *)
(* empty text, C gets all of it or its buffer as it was and a length of 0. *)
(***************************************************************************)
WholeOrNothing ==
  [][\A f \in DOMAIN Lib : Compute(f) =>
       /\ path_str' \in {Lib[f][Trim(path_str)], <<>>}
       /\ \/ n' = Len(CString(out')) /\ CString(out') = Lib[f][CString(out)]
          \/ n' = 0 /\ out' = out]_vars

(***************************************************************************)
(* The Fortran program follows the C++ one, whatever its variables are     *)
(* padded with and however often a path goes to and fro or is kept in the  *)
(* environment meanwhile, unless one of the texts was as long as           *)
(* max_path() or ended in a blank of its own.                              *)
(***************************************************************************)
FortranAgrees ==
  /\ clean => Handed.fortran = cpp
  /\ env.clean => env.fortran = env.cpp

(***************************************************************************)
(* So does the C program, blanks and all, until a text is refused: then    *)
(* its buffer still holds what an earlier call left there.                 *)
(***************************************************************************)
CAgrees ==
  /\ fits => Handed.c = cpp
  /\ env.fits => env.c = env.cpp
=============================================================================
