------------------------------ MODULE Lexical ------------------------------
(***************************************************************************)
(* The functions on paths that never ask the file system, as the build     *)
(* without std::filesystem computes them on POSIX (fs_is_windows() is      *)
(* false, so fs_as_posix changes nothing).  A path is a sequence of        *)
(* characters: the functions differ in what they do with repeated,         *)
(* trailing and leading slashes, with "." and "..", and with dots in file  *)
(* names, so that only "/", "." and "~" have a meaning of their own.       *)
(***************************************************************************)
EXTENDS Naturals, FiniteSets, SequencesExt, FiniteSetsExt

CONSTANTS
  Letter,      \* the characters that mean nothing in particular
  Drawn,       \* those of them that the arguments are built of
  HomeVar,     \* $HOME
  Cwd,         \* what getcwd(3) reports
  MaxLen,      \* bounds the length of the two paths together
  MaxOther     \* bounds the length of the second one

(* "#" stands for a character that is in no path of the program.           *)
Char == Drawn \cup {"/", ".", "~"}
Sign == Letter \cup {"/", ".", "~", "#"}
Text == Seq(Sign)

ASSUME LetterAssumption == Letter \cap {"/", ".", "~", "#"} = {} /\ Drawn \subseteq Letter
ASSUME HomeAssumption   == HomeVar \in Text /\ HomeVar # <<>>
ASSUME CwdAssumption    == Cwd \in Text /\ Cwd # <<>> /\ Cwd[1] = "/"
ASSUME BoundsAssumption == MaxLen \in Nat /\ MaxOther \in Nat

VARIABLES
  path,        \* the argument of the functions
  other        \* their second argument, where they have one

vars == <<path, other>>

Slash   == <<"/">>
DotPath == <<".">>
DotDot  == <<".", ".">>

(* Position of the last c in s, 0 if there is none (find_last_of).         *)
LastOf(s, c) == Max({0} \cup {i \in DOMAIN s : s[i] = c})

(* Faulty variants of the definitions below are marked as in FileCalls.    *)
-----------------------------------------------------------------------------
(* fs_slash_first, and fs_is_absolute of this build.                       *)
SlashFirst(p) == p # <<>> /\ p[1] = "/"
IsAbsolute(p) == SlashFirst(p)

(* The functions that go through a text or a list of names from its front  *)
(* to its end are recursive in what they return for all but the last item. *)

(* fs_split: the non-empty runs of characters between slashes.             *)
IntoRun(runs, q, c) ==
  IF c = "/" THEN runs
  ELSE IF q = <<>> \/ Last(q) = "/" THEN Append(runs, <<c>>)
  ELSE [runs EXCEPT ![Len(runs)] = Append(@, c)]

Split[p \in Text] ==
  IF p = <<>> THEN <<>> ELSE IntoRun(Split[Front(p)], Front(p), Last(p))

(* fs_drop_slash: no slash at the end, unless it is all there is, and no   *)
(* two slashes in a row (std::unique).                                     *)
Shorten(kept, q, c) == IF q # <<>> /\ c = "/" THEN kept ELSE Append(q, c)

WithoutTrailing[p \in Text] ==
  IF p = <<>> THEN <<>> ELSE Shorten(WithoutTrailing[Front(p)], Front(p), Last(p))

Keep(kept, c) ==
  IF c = "/" /\ kept # <<>> /\ Last(kept) = "/" THEN kept ELSE Append(kept, c)

Unique[p \in Text] == IF p = <<>> THEN <<>> ELSE Keep(Unique[Front(p)], Last(p))

DropSlash(p) == Unique[WithoutTrailing[p]]

(* fs_normal_vector: "." goes, and ".." takes away the name before it; at  *)
(* the front of a relative path it stays.                                  *)
AlwaysBack(p, names) ==                                \* faulty variant
  IF names # <<>> THEN Front(names)
  ELSE IF ~ SlashFirst(p) THEN Append(names, DotDot) ELSE names

Back(p, names) ==
  IF names # <<>> /\ Last(names) # DotDot THEN Front(names)
  ELSE IF ~ SlashFirst(p) THEN Append(names, DotDot) ELSE names

NextNormal(p, names, s) ==
  CASE s = DotPath -> names
    [] s = DotDot  -> Back(p, names)
    [] OTHER       -> Append(names, s)

Normalized(p, parts) ==
  LET normal[ns \in Seq(Text)] ==
        IF ns = <<>> THEN <<>> ELSE NextNormal(p, normal[Front(ns)], Last(ns))
  IN  normal[parts]

NormalVector(p) == Normalized(p, Split[p])

(* The components again as one path, each followed by a slash.             *)
Joined[names \in Seq(Text)] ==
  IF names = <<>> THEN <<>> ELSE Joined[Front(names)] \o Last(names) \o Slash

Rebuilt(p, names) == (IF SlashFirst(p) THEN Slash ELSE <<>>) \o Joined[names]

WithoutLastSlash(r) == IF Len(r) > 1 /\ Last(r) = "/" THEN Front(r) ELSE r

(* fs_normal                                                               *)
NormalKeepsEmpty(p) == WithoutLastSlash(Rebuilt(p, NormalVector(p)))  \* faulty variant
Normal(p) ==
  LET r == WithoutLastSlash(Rebuilt(p, NormalVector(p)))
  IN  IF r = <<>> THEN DotPath ELSE r

(* fs_file_name, fs_stem and fs_suffix: a dot in front of a file name is   *)
(* part of the stem.                                                       *)
FileName(p) == SubSeq(p, LastOf(p, "/") + 1, Len(p))

StemAtFirstDot(p) ==                                   \* faulty variant
  LET r == FileName(p) IN
  IF r = DotDot \/ LastOf(r, ".") = 0 THEN r ELSE SubSeq(r, 1, LastOf(r, ".") - 1)

Stem(p) ==
  LET r == FileName(p) IN
  IF r = DotDot \/ LastOf(r, ".") <= 1 THEN r ELSE SubSeq(r, 1, LastOf(r, ".") - 1)

Suffix(p) ==
  LET r == FileName(p) IN
  IF LastOf(r, ".") <= 1 THEN <<>> ELSE SubSeq(r, LastOf(r, "."), Len(r))

(* fs_parent: not normalized, "." for what has no parent.                  *)
ParentOfRaw(p) ==                                      \* faulty variant
  LET r == SubSeq(p, 1, LastOf(p, "/")) IN
  IF r = <<>> THEN DotPath ELSE WithoutLastSlash(r)

Parent(p) ==
  LET names == Split[DropSlash(p)]
      r     == WithoutLastSlash(Rebuilt(p, Front(names)))
  IN  IF names # <<>> /\ r # <<>> THEN r ELSE IF SlashFirst(p) THEN Slash ELSE DotPath

(* fs_join: an absolute second path replaces the first.                    *)
JoinAlways(p, o) == DropSlash(p) \o Slash \o DropSlash(o)   \* faulty variant
Join(p, o) ==
  CASE p = <<>> -> DropSlash(o)
    [] p # <<>> /\ o = <<>> -> DropSlash(p)
    [] p # <<>> /\ o # <<>> ->
         IF SlashFirst(o) THEN DropSlash(o) ELSE DropSlash(p) \o Slash \o DropSlash(o)

(* fs_with_suffix: a directory gets the suffix as a file name.             *)
WithSuffix(p, s) ==
  IF Stem(p) = <<>> THEN Join(p, s)
  ELSE (IF Parent(p) = DotPath THEN Stem(p) ELSE Parent(p) \o Slash \o Stem(p)) \o s

(* fs_is_prefix and fs_is_subdir compare characters, not components.       *)
IsPrefixOf(pr, p) ==
  /\ pr # <<>> /\ p # <<>>
  /\ IsPrefix(DropSlash(pr), DropSlash(p))

SubdirOrSame(s, d) ==                                  \* faulty variant
  s # <<>> /\ d # <<>> /\ IsPrefix(DropSlash(d), DropSlash(s))

IsSubdir(s, d) ==
  /\ s # <<>> /\ d # <<>>
  /\ IsStrictPrefix(DropSlash(d), DropSlash(s))

(* fs_expanduser: "~" and "~/..." only; "~user" is left as it is.          *)
Home == DropSlash(HomeVar)

Expanduser(p) ==
  IF p = <<>> \/ p[1] # "~" \/ (Len(p) > 1 /\ p[2] # "/") THEN p
  ELSE IF Len(p) < 3 THEN Home
  ELSE LET first == Min({i \in DOMAIN p : i > 2 /\ p[i] # "/"} \cup {Len(p) + 1})
           e     == Home \o Slash \o SubSeq(p, first, Len(p))
       IN  IF Last(e) = "/" THEN Front(e) ELSE e

(* fs_absolute, with no base and with one; fs_get_cwd drops slashes.       *)
Expanded(p, tilde) == IF tilde THEN Expanduser(p) ELSE p

Absolute(p, tilde) ==
  LET ex == Expanded(p, tilde) IN
  IF p = <<>> THEN DropSlash(Cwd)
  ELSE IF IsAbsolute(ex) THEN ex
  ELSE DropSlash(Cwd) \o Slash \o ex

BaseTwice(p, base, tilde) ==                           \* faulty variant
  Absolute(base, tilde) \o Slash \o Expanded(p, tilde)

AbsoluteTo(p, base, tilde) ==
  LET ex == Expanded(p, tilde)
      b  == Absolute(base, tilde)
  IN  IF IsAbsolute(ex) THEN ex
      ELSE IF ex = <<>> THEN b
      ELSE (IF Last(b) = "/" THEN b ELSE b \o Slash) \o ex
-----------------------------------------------------------------------------
(***************************************************************************)
(* The arguments: any path, and any second path, one character at a time.  *)
(***************************************************************************)
Init == path = <<>> /\ other = <<>>

Next ==
  \E c \in Char :
    /\ Len(path) + Len(other) < MaxLen
    /\ \/ /\ other = <<>>
          /\ path' = Append(path, c) /\ UNCHANGED other
       \/ /\ Len(other) < MaxOther
          /\ other' = Append(other, c) /\ UNCHANGED path

Spec == Init /\ [][Next]_vars
-----------------------------------------------------------------------------
(***************************************************************************)
(* What a path means: the directory it leads to from a directory dir, each *)
(* given by the names from the root down.  No symlinks: with them ".."     *)
(* means something else, which is why fs_parent does not normalize.  The   *)
(* components are found here without fs_split.                             *)
(***************************************************************************)
Starts(p)    == {i \in DOMAIN p : p[i] # "/" /\ (i = 1 \/ p[i - 1] = "/")}
RunFrom(p, i) == SubSeq(p, i, Min({j \in DOMAIN p : j > i /\ p[j] = "/"} \cup {Len(p) + 1}) - 1)

(* The starts that have k starts up to them: there is one, if any.         *)
Ranked(p, k) == {i \in Starts(p) : Cardinality({j \in Starts(p) : j <= i}) = k}
Names(p)     == [k \in 1..Cardinality(Starts(p)) |-> RunFrom(p, CHOOSE i \in Ranked(p, k) : TRUE)]

Enter(dir, s) ==
  CASE s = DotPath -> dir
    [] s = DotDot  -> IF dir = <<>> THEN dir ELSE Front(dir)
    [] OTHER       -> Append(dir, s)

Follow(dir, names) ==
  LET to[ns \in Seq(Text)] == IF ns = <<>> THEN dir ELSE Enter(to[Front(ns)], Last(ns))
  IN  to[names]

Walk(dir, p) == Follow(IF SlashFirst(p) THEN <<>> ELSE dir, Names(p))

(* A directory deeper than any path of the model leads out of.             *)
Deep == [i \in 1..(MaxLen + 1) |-> <<"#">>]
Meaning(p) == Walk(Deep, p)

(* The arguments are paths of the bounded lengths, and what fs_normal and  *)
(* fs_drop_slash return for them is a path again, never longer than the    *)
(* argument (".", for the empty one, excepted).                            *)
TypeOK ==
  /\ path \in Seq(Char) /\ Len(path) + Len(other) <= MaxLen
  /\ other \in Seq(Char) /\ Len(other) <= MaxOther
  /\ DropSlash(path) \in Seq(Char) /\ Len(DropSlash(path)) <= Len(path)
  /\ Normal(path) \in Seq(Char) \ {<<>>} /\ Len(Normal(path)) <= Max({1, Len(path)})

(* Normalizing changes neither where a path leads nor whether it is        *)
(* absolute, and the drop of slashes that other functions begin with       *)
(* changes nothing either.  Paths that lead to the same place have the     *)
(* same normal form, however they are spelled.                             *)
NormalHolds ==
  /\ Meaning(Normal(path)) = Meaning(path)
  /\ IsAbsolute(Normal(path)) = IsAbsolute(path)
  /\ Meaning(DropSlash(path)) = Meaning(path)
  /\ Meaning(path) = Meaning(other) => Normal(path) = Normal(other)

(* The parent of a path joined with its file name leads where the path     *)
(* does, symlinks or not: only the last component is split off.            *)
ParentAndName ==
  LET back == Join(Parent(path), FileName(DropSlash(path))) IN
  /\ Meaning(back) = Meaning(path)
  /\ Names(path) # <<>> => Last(Names(back)) = Last(Names(path))

(* Joining is walking first along the one and then along the other.        *)
JoinIsWalk == Meaning(Join(path, other)) = Walk(Meaning(path), other)

(* Swapping the suffix keeps the directory and the stem, so that swapping  *)
(* it back gives the same file.  All of ".." is its stem, and its suffix   *)
(* is "." all the same: it is left out.                                    *)
SuffixSwapsBack ==
  FileName(path) \notin {<<>>, DotDot} /\ ~ ("/" \in ToSet(other)) =>
    /\ FileName(WithSuffix(path, other)) = Stem(path) \o other
    /\ Meaning(WithSuffix(path, Suffix(path))) = Meaning(path)

(* What is below a directory, component by component, is found to be, and  *)
(* the two tests are the two sides of one order.  More than that is found: *)
(* fs_is_subdir compares characters, and takes "ab" for a subdirectory of  *)
(* "a".                                                                    *)
Below(s, d) ==
  /\ s # <<>> /\ d # <<>> /\ SlashFirst(s) = SlashFirst(d)
  /\ IsStrictPrefix(Names(d), Names(s))

SubdirsFound ==
  /\ Below(path, other) => IsSubdir(path, other)
  /\ IsSubdir(path, other) <=> IsPrefixOf(other, path) /\ ~ IsPrefixOf(path, other)

(* An absolute path leads from the root to where the path led from the     *)
(* working directory, or from the base.                                    *)
FromCwd ==
  /\ IsAbsolute(AbsoluteTo(path, other, FALSE))
  /\ Walk(<<>>, Absolute(path, FALSE)) = Walk(Walk(<<>>, Cwd), path)
  /\ Walk(<<>>, AbsoluteTo(path, other, FALSE)) = Walk(Walk(Walk(<<>>, Cwd), other), path)

(* "~" alone as the first component stands for the home directory, and     *)
(* anywhere else, or as the beginning of a longer name, for itself.        *)
FromHome ==
  Meaning(Expanduser(path)) =
    IF path # <<>> /\ ~ SlashFirst(path) /\ Names(path)[1] = <<"~">>
    THEN Follow(Meaning(HomeVar), Tail(Names(path)))
    ELSE Meaning(path)

(* The two places paths are relative to (fs_absolute, fs_expanduser).      *)
PlacesHold == FromCwd /\ FromHome
=============================================================================
