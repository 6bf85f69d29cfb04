------------------------------ MODULE PosixFs ------------------------------
(***************************************************************************)
(* The part of a POSIX file system that the library calls observe: one     *)
(* directory of names, the inodes they are bound to, and the system calls  *)
(* open, stat, utimensat, unlink, rename, symlink and readlink.            *)
(*                                                                         *)
(* The file system is not under src/: it is modelled from what the library *)
(* asks of it and from the manual pages the source cites.  Every path of a *)
(* call is one name of the directory, so that the paths of different calls *)
(* can be the same name, two names of one file (through a symlink) or      *)
(* unrelated; directory trees are the subject of other modules.            *)
(***************************************************************************)
EXTENDS Naturals, Sequences, FiniteSets

CONSTANTS
  Name,      \* the names of the directory
  NoName,    \* the empty path
  MaxIno,    \* bounds the number of files ever created
  Block,     \* what a file is made of
  Hole       \* the block a write beyond the end of a file leaves behind

ASSUME NameAssumption  == NoName \notin Name
ASSUME InoAssumption   == MaxIno \in Nat
ASSUME BlockAssumption == Hole \in Block

VARIABLES
  entry,     \* the directory: name -> inode number
  inode,     \* inode number -> the file
  nextIno    \* the next inode number to hand out

fsVars == <<entry, inode, nextIno>>

NoIno == 0
Ino   == 1..MaxIno
Path  == Name \cup {NoName}

(***************************************************************************)
(* access is what the permission bits and the owner allow the calling      *)
(* user: "own" files may be given any time and written, "write" files may  *)
(* be written and given the current time, "read" files may only be read.   *)
(***************************************************************************)
Kind   == {"none", "reg", "dir", "lnk"}
Access == {"own", "write", "read"}
File   == [kind : Kind, data : Seq(Block), to : Path, access : Access]

Unused     == [kind |-> "none", data |-> <<>>, to |-> NoName, access |-> "own"]
NewFile    == [Unused EXCEPT !.kind = "reg"]
NewLink(t) == [Unused EXCEPT !.kind = "lnk", !.to = t]

FsTypeOK ==
  /\ entry \in [Name -> Ino \cup {NoIno}]
  /\ inode \in [Ino -> File]
  /\ nextIno \in 1..(MaxIno + 1)

Bound(n)  == n \in Name /\ entry[n] # NoIno
IsLink(n) == Bound(n) /\ inode[entry[n]].kind = "lnk"

(***************************************************************************)
(* The name at which a path ends: n itself or, if n is a symlink, the name *)
(* that following it leads to; that name is not a symlink, and may be      *)
(* unbound.  NoName if the symlinks form a loop (ELOOP).                   *)
(***************************************************************************)
Follow(n) ==
  LET walk[k \in 0..Cardinality(Name)] ==
        IF k = 0 THEN n
        ELSE LET m == walk[k - 1] IN IF IsLink(m) THEN inode[entry[m]].to ELSE m
  IN  walk[Cardinality(Name)]

End(n) ==
  LET m == IF IsLink(n) THEN Follow(n) ELSE n
  IN  IF m \in Name /\ ~ IsLink(m) THEN m ELSE NoName

(* stat(2): the inode a path names, symlinks followed.                     *)
Lookup(n) == LET m == End(n) IN IF Bound(m) THEN entry[m] ELSE NoIno

Exists(n)     == Lookup(n) # NoIno
IsKind(n, k)  == Exists(n) /\ inode[Lookup(n)].kind = k
Writable(i)   == inode[i].access \in {"own", "write"}

(***************************************************************************)
(* open(path, O_WRONLY | O_CREAT | O_TRUNC) or, if excl, O_EXCL as well:   *)
(* it creates a file, empties the one that is there, or fails.  O_EXCL     *)
(* does not follow a symlink in the last component: it fails on it.        *)
(***************************************************************************)
OpenCreates(n, excl) ==
  /\ End(n) # NoName
  /\ ~ Bound(End(n))
  /\ excl => ~ Bound(n)
  /\ nextIno <= MaxIno               \* else ENOSPC

OpenTruncates(n, excl) ==
  /\ ~ excl
  /\ IsKind(n, "reg")
  /\ Writable(Lookup(n))

OpenFails(n, excl) == ~ OpenCreates(n, excl) /\ ~ OpenTruncates(n, excl)

(* Effects of the system calls on the file system.                         *)
Bind(n, file) ==
  /\ entry' = [entry EXCEPT ![n] = nextIno]
  /\ inode' = [inode EXCEPT ![nextIno] = file]
  /\ nextIno' = nextIno + 1

Unbind(n) ==
  /\ entry' = [entry EXCEPT ![n] = NoIno]
  /\ UNCHANGED <<inode, nextIno>>

SetData(i, d) ==
  /\ inode' = [inode EXCEPT ![i].data = d]
  /\ UNCHANGED <<entry, nextIno>>

(* pwrite(2) of c at offset o over s, as a descriptor at offset o does.    *)
WriteAt(s, o, c) ==
  [k \in 1..(IF o + Len(c) > Len(s) THEN o + Len(c) ELSE Len(s)) |->
     IF k > o /\ k <= o + Len(c) THEN c[k - o]
     ELSE IF k <= Len(s) THEN s[k]
     ELSE Hole]

(* remove(3) takes a file, a symlink or an empty directory; every          *)
(* directory of the model is empty.                                        *)
Removable(n) == Bound(n)

(***************************************************************************)
(* rename(2): a symlink is renamed, not followed; an existing target is    *)
(* replaced; a directory only replaces a directory and a file only a       *)
(* non-directory; two names of one inode are left alone.                   *)
(***************************************************************************)
IsDirEntry(n) == Bound(n) /\ inode[entry[n]].kind = "dir"

Renamable(a, b) ==
  /\ Bound(a)
  /\ b \in Name
  /\ Bound(b) => (IsDirEntry(a) <=> IsDirEntry(b))

RenameEffect(a, b) ==
  /\ entry' = IF entry[a] = entry[b] THEN entry
              ELSE [entry EXCEPT ![b] = entry[a], ![a] = NoIno]
  /\ UNCHANGED <<inode, nextIno>>
=============================================================================
