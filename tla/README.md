# A TLA+ model of ffilesystem

ffilesystem is a library of file-system functions for Fortran, C and C++.  This
directory holds TLA+ modules that model the functions which change the file system, those
which ask about it and those which compute on paths, the interfaces to C and Fortran and the
command-line driver, TLC configurations that model-check them on small
instances, and proofs of their most important properties that TLAPS checks.

Every function is compiled in one of two ways: with `HAVE_CXX_FILESYSTEM` it calls
`std::filesystem` ("cxx" below), without it the system calls directly ("c").  In the
modules that depend on it each call says which build it is of, so that programs of both
builds meet in one file system.  The models are of the POSIX branches; the Windows and
macOS ones are not modelled.

## The system

| component | state | operations | what is hard about it | correct when | modelled |
|---|---|---|---|---|---|
| file calls (`copy.cpp`, `touch.cpp`, `time.cpp`, `move.cpp`, `symlink.cpp`) | the directory; two descriptors and the counters of the copy loop | `fs_copy_file`, `fs_touch`, `fs_set_modtime`, `fs_remove`, `fs_rename`, `fs_create_symlink`, `fs_is_symlink`, `fs_read_symlink` | calls of several system calls, others act in between; short copies, failures, crashes; symlinks and hard links | a copy without overwrite harms nothing; a copy that succeeds has copied; answers are true; descriptors are closed | `FileCalls` |
| directory creation (`mkdir.cpp`) | the tree; how far the path has been made | `fs_mkdir` | overlapping paths made at the same time, removal of what was made, files on the way, crashes | parents first, never off the path, "true" only for a path that is there, no failure without a cause | `Mkdir`, `MkdirPromise` |
| lexical functions (`pure.cpp`, `normalize.cpp`, `parent.cpp`, `lexical.cpp`) | none | split, drop_slash, normal, file_name, stem, suffix, parent, join, with_suffix, is_prefix, is_subdir | repeated, leading and trailing slashes, ".", "..", dots in names, the empty path | they agree with each other and with where a path leads | `Lexical` |
| home and absolute (`home.cpp`, `absolute.cpp`) | `$HOME`, the user database, the working directory | get_homedir, get_profile_dir, get_username, expanduser, absolute with and without a base | "~" forms, relative bases, a working directory that another thread changes, the buffer of `getpwuid(3)` that all threads share | the result leads where the argument led from the working directory; a home directory is the caller's | `Lexical` (characters), `Accounts` (queries), `Resolve` (working directory) |
| resolution (`resolve.cpp`, `realpath.cpp`, `relative.cpp`, `equivalent.cpp`) | the tree, the working directory | canonical, resolve, realpath, relative_to, proximate_to, equivalent | many system calls, between which tree and working directory change; strict or not; links, ".." and what is missing | the answer is the one of some moment of the call | `Resolve`, `Resolutions`; equivalent in `Inquiries` |
| working directory, environment (`platform.cpp`, `env.cpp`) | process-wide | get_cwd, set_cwd, getenv, setenv, user_config_dir | shared by all threads; a directory that is removed while it is the working one | as above | `Resolve`, `Accounts` |
| inquiries (`inquire.cpp`, `size.cpp`, `space.cpp`) | none | exists, is_file, is_dir, is_fifo, is_char_device, is_exe, is_readable, is_writable, is_empty | stale as soon as they are given; the builds ask different questions; some are several system calls | after a call of set_permissions they answer as it set; what is called empty was so | `Inquiries`, `Lookups`; permissions in `Permissions` |
| permissions (`permissions.cpp`) | modes | get_permissions, set_permissions | read-modify-write (c); three separate changes (cxx); a path that comes to name another file | only the asked bits change; racing calls keep what all of them write first | `Permissions` |
| which (`which.cpp`) | how far the search has come | search along PATH or the argument | empty components, precedence, find_all, two questions for each directory, PATH and directories changed meanwhile | no program that stays is passed over, none is invented | `Which`, `Lookups` |
| case probe (`extra/case.cpp`) | a temporary file | is_case_sensitive | the spelling of the directory, relative paths, a file that has to go again | no file is left; yes and no mean what they say | `CaseProbe`, `Resolutions` |
| temporary directories, owners, shell (`tempdir.cpp`, `extra/owner.cpp`, `extra/shell.cpp`) | environment, static buffers of the C library | get_tempdir, get_owner_name, get_owner_group, get_shell | several system calls; variables that are empty; the shared buffers | what they say was so during the call | `Accounts`, `Lookups` |
| limits, other system information (`limits.cpp`, the rest of `extra/`) | | | pure I/O: one question to the system, whose answer is passed on | | no |
| C interface (`c.cpp`) | caller's buffers | one wrapper per function | lengths, the NUL, a buffer that is argument and result | a result that does not fit is refused whole; nothing behind the buffer is written | `Interchange` |
| Fortran interface (`fortran/*`) | `path_t` values | wrappers, `path_t` methods | trimming, allocation, null termination | agrees with the C++ function | `Interchange` |
| command-line driver (`app/main.cpp`) | the line it is at, its working directory | a loop over lines, three tables of commands, chdir, ls and set_perm | commands that ask, act and ask again; exceptions; the end of the input | every line is answered once by the table that knows it; the session ends | `Driver` |
| diagnostics, Windows code, examples, benchmarks, build files | | | | | no |

How they interact.  The Fortran procedures call the C wrappers, which call the C++
functions; nothing is called back.  `fs_copy_file` calls `fs_is_file` and `fs_remove`
(cxx), `fs_touch` calls `fs_set_modtime`, `fs_read_symlink` calls `fs_is_symlink`,
`fs_mkdir` calls `fs_split`, `fs_absolute` calls `fs_expanduser` and `fs_get_cwd`, and
`fs_resolve` calls `fs_absolute` and `fs_canonical`, which calls `fs_realpath` (c) or
`weakly_canonical` (cxx), `fs_is_case_sensitive` calls `fs_touch`, `fs_canonical` and
`fs_remove`, `fs_which` calls `fs_is_dir`, `fs_is_file` and `fs_is_exe`, and
most functions on paths begin with `fs_drop_slash`.  The driver calls all of them.  The library keeps no state of its own
between calls and takes no locks; what callers share is the file system, the working
directory and the environment.  `README.md:271` of the repository warns that race
conditions can occur when several threads use the same file-system object.  The models take
that seriously: they show which promises survive the races and which do not.

## Modules

`PosixFs` - one directory of a POSIX file system: names bound to inodes, inodes that
are regular files (their data a sequence of blocks), directories or symlinks, with the
caller's access (`own`, `write`, `read`).  It defines what the system calls do: path lookup
through symlinks, opening with `O_CREAT`, `O_TRUNC` and `O_EXCL`, binding, unbinding,
renaming, writing at an offset.  It is no code of the repository; `PROJECT.json` marks it external.
Files never share storage, a new file takes the next inode, and running out of inodes
(`MaxIno`) is the full disk (`ENOSPC`).

`FileCalls` - the file calls, run by processes `Proc`.  `pc[p]` names the next system
call of process p; each action is the code up to and including one system call with
the branches taken on its outcome:

| action | code |
|---|---|
| `Begin` | the call and the choice of build (`FirstStep`) |
| `CopyIsFile`, `CopyRemoveDest` | `copy.cpp:55`, cxx with overwrite |
| `CopyStdStat`, `CopyOpenSource`, `CopyOpenDest`, `CopyFchmod` | the call of `std::filesystem::copy_file`, after libstdc++ |
| `CopyOpenSource`, `CopyFstat`, `CopyOpenDest` | `copy.cpp:85-110` |
| `CopyChunk`, `CopyLoopEnds` | the loop, `copy.cpp:123-129` |
| `CopyClose` | `copy.cpp:153-162` |
| `SetModtime`, `TouchOfstream` | `time.cpp:78-116`, `touch.cpp:7-19` |
| `Remove`, `Rename` | `move.cpp` |
| `CreateSymlink`, `ReadIsSymlink`, `ReadLink` | `symlink.cpp` |
| `Crash`, `EnvWrite` | a caller dies; another program rewrites a file |

`io[p]` holds the locals of the copy: the inodes behind `rid` and `wid`, `len`,
`remaining` and `ret`; the file offsets are `len - remaining`.  `MayFail` lets system
calls fail that have no reason to in the model.  Three history variables serve the
properties: `made[p]` is the file a call created, `dropped` the names that lost their file
to a remove or a rename, `dirty[p]` says that somebody else changed what the call looks at.

`Mkdir` - `fs_mkdir` on a tree of places, paths as sequences of components
(`fs_split`).  `CMkdir` is an iteration of the loop at `mkdir.cpp:60-79`; `CxxStatus`,
`CxxScan`, `CxxMkdir`, `CxxIsDir` are the system calls of
`std::filesystem::create_directories` in libstdc++.  `EnvRemove` and `EnvFile` are other
programs.  `MkdirPromise` is what either build promises, without system calls; `Mkdir`
refines it (`KeepsPromise`).

`Lexical` - the functions on paths of the build without `std::filesystem`, as
operators on sequences of characters, of which only `/`, `.` and `~` mean anything.
States are the arguments, built one character at a time, so that TLC goes through all
of them up to the bounds.  The functions that go through a text are recursive functions of it, in
what they return for all but its last character (`Split`, `WithoutTrailing`, `Unique`) or name
(`Normalized`, `Joined`).  `Drawn` are the letters of the arguments; the working directory and the
home directory have other ones.  The reference they are checked against is `Meaning`: where
a path leads from a directory deeper than any path can climb, its names found without `fs_split`.

`Permissions` - `fs_set_permissions` on files with nine permission bits, and the
inquiries about permissions.  `CxxExists` is `permissions.cpp:36`; `CxxStat` and `ChmodDone` are
the two system calls of `std::filesystem::permissions`, made again for each permission
still in `todo[p]`; `CStat` (`fs_st_mode`, whose result is not checked) and `ChmodDone`
are the c build, which changes all three at once.  `m[p]` is the mode read, `start[p]` the
mode when the call began.  `EnvChmod` and `EnvRename` are other programs.  `CxxMay` and
`CMay` are `fs_is_readable`, `fs_is_writable` and `fs_is_exe` of the two builds.

`Interchange` - a C++, a C and a Fortran program that make the same calls.  The C++
functions are parameters (`Lib`, `Lib2`, `System`), because `c.cpp` and `filesystem.F90` treat
them alike; what is modelled is how their arguments and results travel.  `Str2Char` is `fs_str2char`;
`Handed` is `trim(path) // C_NULL_CHAR` and the reading of a `const char*`;
`FortranResult` is `ifc0a.inc` and `ifc0b.inc`.  The C program has one buffer, with memory
behind it; the Fortran program has variables with blanks behind the path.  `clean` and
`fits` remember whether a text was met that an interface cannot bring over.

The functions that only ask change nothing, so that calls of them do not meet: their models
follow one call, `call`, whose next system call is `pc`, and surround it with the steps of
others.

`Inquiries` - what is at a path: objects of five kinds, with inode numbers that are given anew
once they are free.  An action is one system call: `Ask` for the inquiries that are only one,
`EmptyKind`, `EmptySize`, `EmptyIsFile`, `EmptyOpendir` and `EmptyReaddir` for `fs_is_empty` of both
builds (`size.cpp:52-143`, `std::filesystem::is_empty` of libstdc++), `EquivalentFirst` and
`EquivalentSecond` for `fs_equivalent`.

`Accounts` - on top of it, the environment and the static buffers of `getpwuid(3)` and `getgrgid(3)`:
`Setenv`, `ReadXdgConfigHome`, `ReadHome` (`env.cpp`, `home.cpp`), `ReadTmpdir` and `TmpIsDir`
(`tempdir.cpp`), `StatOwner`, `LookUp` and `CopyField` (`owner.cpp`, `home.cpp`, `shell.cpp`).
A record is looked up in one step and copied out of the buffer in another; in between
another thread may have put a different one there, or be about to (`Torn`).

`Which` - on top of that, the loop of `fs_which`: `GivenIsDir`, `NameIsFile`, `NameIsExe`, then
`PartIsFile` and `PartIsExe` for component `at` of the search path.

`Lookups` - composes the three: it begins a call, and its `Env` puts something else at a path,
fills or empties it, sets a variable or `$PATH`, or asks a database in another thread.  `ever` and
`always` are the facts (what is where, who is a program, what a variable holds) that were so at
some moment of the call, and at all of them; the properties relate the answer to them.

`Resolve` - a tree of directories, files and links, the working directory, and the functions
that resolve paths.  `Where` is the kernel's walk along a path.  `Begin` is a function up to its first
system call, `GetCwd` and `SetCwd` are `platform.cpp`, `Status` and `Scan` are the status calls of
`weakly_canonical`, `RealCwd` and `Real` are `realpath(3)`, one component after the
other.  `Canonicalized` is what the different functions do with the result (`relative_to`
begins again with its second argument).

`CaseProbe` - `fs_is_case_sensitive` on top of it: `Touch`, the resolution of the name in lower
case, `TakeAway`.  `disk` says how the file system treats case.

`Resolutions` - composes the two with other threads that change the working directory
(`EnvChdir`) and programs that change the tree (`EnvPut`).  `cwds` remembers the working directories
during the call, `still` that the tree has not changed.  `Expected(d)` is the reference: the
answers of a call that does all of its work at one moment, with working directory d, found with `Where` and
without the steps of `Resolve`.

`Driver` - the driver's loop:

| action | code (`app/main.cpp`) |
|---|---|
| `ReadLine` | reading, eof, quit and splitting, 395-425 |
| `no_arg`, `one_arg`, `two_arg`, `Unknown` | the tables, 34-344, and 427-443 |
| `CwdBefore`, `SetCwd`, `CwdAfter` | `chdir`, 219-232 |
| `Ls` | 233-245 |
| `PermBefore`, `SetPerm`, `PermAfter` | `set_perm`, 288-341 |

`disk` is what is at each path: nothing, a file or a directory, whether it is the user's own, and his
permissions on it.  From that follows whether `chdir` enters it, `ls` lists it and `set_perm` changes
it.  `Env` puts something else at a path between any two steps; the working directory may be
removed by that (`lost`), and has no path any more until the next chdir.  `said` and `errors` remember
which table has answered which line and which lines had something
reported on stderr; `seen` what was at the path of a line while it was worked on.

`MCFileCalls`, `MCMkdir`, `MCLexical`, `MCPermissions`, `MCInterchange`, `MCLookups`,
`MCResolutions`, `MCDriver` - the small instances.

`FileCalls_proofs`, `Lexical_proofs`, `Mkdir_proofs`, `Permissions_proofs`, `Interchange_proofs`,
`Lookups_proofs`, `Resolutions_proofs`, `Driver_proofs` - the proofs.

A definition marked "faulty variant" is what the definition after it would be with a
plausible bug; `PROJECT.json` names the property that fails when it is put in its place.

## What the runs check

Seconds are for two workers.

| run | instance | checks |
|---|---|---|
| `Copy` (818,383 states, 65 s) | two processes, two calls of either build, three names of which one is a symlink, one foreign write, failures, crashes | `TypeOK`; `ExclusiveWinner`: of several copies without overwrite to one path at most one succeeds; `CopyFaithful`: a copy that succeeds, and nobody interferes with, has copied everything; `DescriptorsClosed`; `NoClobber`: a copy without overwrite changes nothing but the file it made |
| `Other` (563,007, 45 s) | the other calls racing each other and a copy through a link | `AnswersHold`: what a call returns is true unless somebody interfered; `UndisturbedTouchKeepsData`: touch of the c build alone never empties a file |
| `CallsReturn` (117,132, 55 s) | calls of several steps, weak fairness | every call returns, whatever happens to the size of its source |
| `MkdirRaces` (199,671, 27 s) | two processes, three calls of either build, paths of up to three components that overlap, two steps of other programs, crashes, weak fairness | `TypeOK`; `FailureHasCause`: overlapping calls do not make each other fail; `KeepsPromise`: refinement of `MkdirPromise`; `PathAppears`: a call with nothing in its way gets its directory made, even when others die half way |
| `PathsToSeven` (109,113, 22 s) | all paths of up to 7 of 4 characters, all pairs of 7 together with up to 4 in the second | `TypeOK`; `NormalHolds`: one normal form per meaning; `ParentAndName`: parent and file name put together again lead back; `PlacesHold`: absolute paths and "~" lead where they should; `JoinIsWalk`; `SubdirsFound`: every real subdirectory is found; `SuffixSwapsBack` |
| `PermissionRaces` (1,981,803, 30 s) | two processes, three calls of either build through two paths of one file or of another's file, one change by another program, failures | `TypeOK`; `AsAsked`: an undisturbed call changes exactly what it was asked, or when it fails only the leading permissions (cxx) or nothing (c); `SeenAsSet`: the inquiries then answer so; `OnlyUserBits`: no race among calls changes a bit of the group or others; `AgreedStays`: a permission on which all calls agree, and which those of the cxx build write first, is never undone |
| `TextsToAndFro` (64,952, 15 s) | texts of up to 4 of two characters, buffers for 1 (C) and 2 (Fortran) of them, functions that shorten, lengthen and join | `TypeOK`; `OnlyOwnMemory`: nothing is written behind a buffer; `WholeOrNothing`: no result is cut off; `FortranAgrees`, `CAgrees`: the programs go on with the path that C++ has, until a text is met that is too long or, in Fortran, ends in a blank |
| `Lookups` (382,620, 27 s) | one of 43 calls of either build, in three worlds of three paths, five objects and three users, three changes by others | `TypeOK`; `InquiriesHold`: what is called empty or the same was so, and one path has one kind; `SearchHolds`: `fs_which` passes over no program that stays and finds only what was one; `AccountsHold`: directories and names are those of the right variable or user |
| `Resolutions` (465,504, 45 s) | one of 192 calls, on six trees with two directories, a file and three links (one of them a loop), three changes by others | `TypeOK`; `OneMoment`: a path is resolved, or two are related, as of one moment, whatever other threads do to the working directory; `Resolved`: and, whatever happens to the tree, to an absolute path without ".." where that is promised; `RelativeHolds`: the answer of relative_to and proximate_to leads from the one place to the other, as the file system goes if both are found and by names if not; `ProbeHolds`: the probe leaves no file, and its yes is true of one kind of disk only |
| `Sessions` (1,374,717, 32 s) | sessions of up to three lines about two paths, with nothing, an own directory, somebody else's closed one or a file at each, two changes by others, weak fairness | `SessionHolds`: every line is answered once, in order, by the first table that knows it, nothing else is lost, and a chdir or set_perm is carried out, or is reported for a cause that was there while it was worked on; `SessionEnds` |

Why these bounds are enough for what they show.  The races in `fs_copy_file` are
between the checks and the opening, or between two openings: two callers, a remove and a
rename of the destination, and one foreign write put something between every two system
calls, and a source of two blocks is the least that can be copied in two chunks, fall
short, or be overwritten half way.  In `Mkdir` the cases are a component made by someone
else, removed before its child is made, replaced by a file, or not writable; two processes
over paths of which one is a prefix of the other meet all of them, and the path `x/y/x`
has a first component equal to its last.  Files appear on the way of every path, and at the
end of one that only a call of the cxx build asks for: what the c build does with a file
there is in the next section.  In `Lexical` four characters are enough for
each boundary (`//..`, `../a`, `a/./`) to occur and for pairs to meet; "~" needs
the longer ones (`~//../a`).  In `Permissions` the wishes agree about one permission and
differ about the others, and three calls let one begin after another has returned while
a third is between its read and its write; two paths of one file race as one path does.  The file
lacks a permission that calls ask for as their second wish, so that it can get lost.  In
`Interchange` a text may be shorter than either buffer, as long as it with or without its NUL,
and longer; the results are written over longer and shorter ones.  In `Lookups` no call takes
more than seven system calls and looks at more than three paths: three changes are enough to exchange what it
looks at, put it back, and exchange it again; two files share an inode number.  In `Resolutions`
the tree has what makes resolving hard - a link to a link, ".." behind a link, a loop, a missing end,
a name in other letters, a working directory that is removed - and three changes are enough to
change the working directory to and fro between any two steps.  In `Sessions` the commands of
several steps stand before, behind and between the others, and no property relates more than two of them;
two changes are enough to exchange what a command looks at and to put it back.

`CHECK_DEADLOCK FALSE` stands in all of them because the number of calls, the length
of the path or the input is bounded and a run ends when it is used up.

Fairness.  `FairSpec` gives weak fairness to each process's steps and to nothing else: the
system calls made here do not wait for other processes, so a thread that the operating
system schedules completes them.  Starting calls, dying and what other programs do
are not fair.  `Driver` gives weak fairness to the driver's own steps: it is a single thread that waits for
nothing but its input, which is finite and there; that it ends by an exception counts as
an end.

### Where the code and its documents disagree

Two runs are expected to find a violation.

* `TouchShared` (cxx): touching a file the caller may write but does not own empties
  it.  `last_write_time` with a given time is refused to non-owners, and `fs_touch`
  (`touch.cpp:12`) takes any failure for a missing file.  API.md: "create empty file if not a file".
* `CaseInverted`: `fs_is_case_sensitive` (`extra/case.cpp:32`) answers true if the lower-case
  path of its probe resolves to the path of the probe.  That is so where the file system folds
  case and reports names as they are stored, and nowhere where case matters.  API.md: "path of
  filesystem detected as case sensitive".

What else was met, and is in the states or the exceptions of the models:

* copy (cxx): an overwriting copy onto a symlink replaces the link (`copy.cpp:55` removes it);
  the comment at `copy.cpp:45` says symlinks are followed, which the c build does.
* mkdir (c): with a regular file at its path `fs_mkdir` returns true (`mkdir.cpp:75` accepts
  `EEXIST`); API.md: "now directory my/new/dir exists".  `KeepsPromise` therefore needs
  `NoFileAtEnd`.
* set_permissions (c): the result of `fs_st_mode` is not checked (`permissions.cpp:63`).  When the
  file appears before the chmod, the mode written is made of the asked bits alone; the comment
  at `permissions.cpp:61`: "only sets permission for user, not group or others".
* set_permissions (cxx): each wish is a read and a write of the mode of its own (`permissions.cpp:44`).
  Of two calls that ask for the same write and execute permission, one may read the mode while the
  other's stale write has undone the first wish, and write that back behind both: both return true, and the
  permission is missing.  `AgreedStays` therefore speaks of the wish that is written first.
* is_subdir: "ab" is reported as a subdirectory of "a" (`lexical.cpp:167`); API.md: "a
  subdirectory under (not just equal to)".
* canonical, realpath, resolve: on a file system that folds case and does not tell how names are
  stored, the answer is in the letters of the caller (`resolve.cpp:41`, `resolve.cpp:53`): with a
  file "x" in the root, "/X" comes back for "/X".  API.md:283 says of canonical: "For case-insensitive filesystems, the
  path's actual case is returned."  `OneMoment` admits the caller's letters there (`Spellings`): without
  that the instance has a counterexample, the call for "/l/../../X" on the disk that folds case.
* resolve: "~/../b" is a path in the parent of the home directory and "../b" one in the parent of the
  working directory (`resolve.cpp:75`).  API.md:273 and API.md:279 give "<absolute path of user home
  directory>/b" and "<absolute path of current working directory>/b", and API.md:298 the former
  of canonical, too.  `OneMoment` goes by where the kernel's walk leads, and both paths are in the instance.
* resolve (c): a path of which only a beginning exists is normalized as a whole
  (`resolve.cpp:63`); API.md: "resolved as far as possible with existing path components".
* canonical (cxx, not strict): for a relative path the working directory is asked for several
  times (`resolve.cpp:43`), so that the result may mix two of them: `AsksOften`.  So is it for
  relative_to and proximate_to of a relative path or base, which are canonicalized one after
  the other (`relative.cpp:27`).
* relative_to, proximate_to: when neither place is there and the base goes further up than the path,
  the answer can be wrong: `lexically_relative` makes "y" of "../y" and the base "../../x".  No
  list of names would be right, as those of the directories in between are not known.
  `RelativeHolds` therefore leaves out bases that go further up (`FurtherUp`).
* relative_to: the example `relative_to("/a/b/c", "/a/b")  !< "c"` in API.md has its arguments
  the other way round than the code and the tests.
* which: an empty component at the end of the search path is searched as "/" (`which.cpp:44`),
  empty ones before it are skipped.
* is_file (c): true of sockets, whose type has the bit that is asked for (`inquire.cpp:126`).
* is_empty (c): a path at which nothing is has size zero, so that what comes to it in the middle of
  the call may be called empty (`size.cpp:70`); a directory on a file system that
  leaves out `d_type` is never empty (`size.cpp:115`).
* get_homedir, get_username, get_owner_name and the like read the static buffer of
  `getpwuid(3)` and `getgrgid(3)` after the call (`home.cpp:28`, `owner.cpp:82`, `owner.cpp:123`):
  `AccountsHold` speaks of calls during which no other thread asks the same database.
* The driver: ls of anything but a directory that can be read throws and ends the session
  (`main.cpp:235`), a last line without newline is dropped (`main.cpp:405`), set_perm of a missing path is also
  reported as an unknown command (`main.cpp:324`) while one that is refused (`main.cpp:329`) is only reported, and `absolute` with two arguments is never reached, because
  the table of one argument has the command, too (`main.cpp:272`).

## What is proved

All theorems hold for every value of the constants that satisfies the `ASSUME`s of the
modules: any finite or infinite set of processes and names, any number of files, calls
and changes by others, either build or both together, with or without failures and crashes.  The assumptions only
say what the constants are (`Calls` a set of calls, `Dirs` a set of well-formed
directories, bounds natural numbers, and so on).

* `FileCalls_proofs!TypeInvariant`, `TypeCorrect`, `DescriptorsAlwaysClosed`.  `TypeOK` is
  not inductive: that `remaining` stays a natural number needs that a call in the loop has
  both files open and at most `len` blocks to go, and that a new file is a fresh one needs that no
  name is bound to an inode not handed out yet.  `TypeInv` adds, for each
  label of `pc`, what `io` looks like there (`Fits`), and well-formedness of the directory
  (`FsInv`).  The proof goes by groups of actions: those that leave the
  directory alone, those that unbind, those that create, and the copy loop.
* `FileCalls_proofs!ClobberInvariant`, `OneWinner`, `NeverClobbers`.  `ClobberInv` adds to
  `TypeInv` that two calls never made the same file (`MadeOnce`), and for each copy
  without overwrite: its descriptor for writing is on the file it made (`OwnFile`), it succeeds only
  if it made one (`Won`), and its destination is bound to that file until someone drops the
  name (`Kept`).  Two winners would then have made the same file.  A step of someone else
  keeps this because it unbinds only names it drops (`EntriesStep`) and makes only
  fresh inodes (`MadeOnceStep`).
* `FileCalls_proofs!UndisturbedInvariant`, `CopiesFaithful`, `AnswersAlwaysHold`,
  `UndisturbedTouchKeeps`.  `UndisturbedInv` adds to `ClobberInv`, for each call with `dirty[p]` still
  false, that what its earlier steps have seen is still so: a copy in the loop has both descriptors on the
  files its paths lead to, `len` is the length of the source, and the destination holds its first
  `len - remaining` blocks (`CopySeen`); a touch at the output stream of the c build has no file to empty,
  and `read_symlink` at `readlink(2)` has a link (`OtherSeen`).  A step of anyone else either leaves the
  call's view alone or sets `dirty[p]`: that is what has to be shown for each group of system calls
  (`OtherLocals`, `KnowsKept`), and it rests on symlinks leading where they led as long as no link changes
  (`EndKept`).
* `Permissions_proofs!PermissionTypes`, `GroupAndOthersKeep`, `AgreedNeverLost`, `DoneAsAsked`,
  `SetIsSeen`.  That a chmod keeps the bits of the group and others needs that the mode a call is about
  to write back has the bits the file has now (`ReadHolds`), which every other call's chmod keeps because
  it, too, keeps them.  `Ahead` says in which order a call carries out its wishes.  From it follows
  that an agreed permission is in the file, and in what has been read of it since, once some call has written it
  (`AgreedThere`), and that the mode of an undisturbed call's file is at each of its steps the
  mode it found with the wishes carried out that are not before it any more (`SoFar`).
* `Interchange_proofs!TextTypes`, `NothingBehindTheBuffer`, `FortranFollows`, `CFollows`,
  `ResultsWhole`, for any functions in the place of the library's, any characters and any
  sizes of buffers.  The invariant says what the variables look like: the Fortran one is the
  C++ path with blanks behind it (`PaddedTo`), the C buffer always holds some text, its NUL
  and nothing behind its end (`Holds`).  That trimming finds one length for each text rests on
  sets of numbers having least elements (`Least`).

* `Mkdir_proofs!MkdirTypes`, `FailuresHaveCauses`, `MkdirKeepsPromise`.  `TypeOK` contains
  that the tree is a tree; inductive with it is `OnPath`: a call in the middle is short of
  the end of its path.  `Free` says of a call that nobody has hindered that its path is free ahead,
  made behind, and that it has not failed; other calls keep it because all they do to the tree is
  add directories (`Grows`).  The refinement has one lemma for each kind of step
  (`CallKeepsPromise`, `BeginAsks`, `CrashVanishes`, `OthersRemove`) and one assumption,
  `NoFileAtEnd`: no file comes to the end of a path that a call of the c build makes.  `MCMkdir`
  assumes it, so that TLC evaluates it for the instance of the run.
* `Lookups_proofs!LookupTypes`, `SearchAlwaysHolds`, `InquiriesAlwaysHold`, `AccountsAlwaysHold`.  `Moments`: what is so now is in `ever`, and what
  is in `always` is so now.  So a search that looks at a component and goes on has seen that its program
  is not in `always`; `InLoop` says this of all the components behind it, and `WasFile` carries what was
  seen with the first question over to the second.  `Midway` and `Before` say which steps belong to which calls.
  `AInv` adds the same for the other calls: which call a step is part of (`Belongs`), what
  `fs_is_empty` and `fs_equivalent` know of the object they have met (`EmptyMidway`, `SameMidway`), which
  variables have been found empty on the way (`VarsMidway`), and whose record is in the static buffer unless
  another thread is remembered to have filled it (`UsersMidway`).  That equal numbers mean equal objects
  is `Numbered`: it holds at first by `NumbersAssumption`, and others keep it because a number is
  given anew only when nothing has it.  `SelfAssumption` says besides that a half-filled buffer is no user.
* `Resolutions_proofs!CallInvariant`, `TypesHold`, `AnswersAreResolved`, `ProbeLeavesNothing`,
  `AnswersOfOneMoment`, `RelativeAnswersLead`.  The
  operators are defined by recursion: a directory's names, the normal form, the walk along a path.
  `Recursion` says that such a definition has a solution when no way of asking for other values is
  endless (`NoEndlessWay`), `TypedRecursion` what values it has, and each recursion has its own reason for
  ending: `TreeAssumption` (every way up ends at the root), counting down, and for the walk `WalksEnd` - one
  name less, or one link less that may be followed.  `WorkInv` gives the types, over `Letters`: for the probe on
  a disk that does not tell spellings the new name is in none of its paths, so that its answer is no.
  `StepInv` says which functions come to which system call, with what path: an
  absolute one from `fs_resolve`, one that need not exist at `Status`.  `ProbeInv` says that the probe's
  file is where it was made and nowhere else: the directory's absolute path leads where it led, because
  no path of others has the new name on its way (`WhereKept`).  `NewNameAssumption` and
  `FreshAssumption` say that the name, with capitals and random letters, is new.

  `AnswersOfOneMoment` is a simulation: `MomentInv` says that at each step there is a moment of the call,
  by its working directory, as of which the call is doing the right thing (`StageAt`).  While `realpath(3)`
  runs, `OnWay` holds: the names it has resolved spell the place of a directory, or at the end of a file, from
  which the names still to go, with the links still allowed, lead to where the whole path led.  Its steps
  `WayBack`, `WayOn` and `WayEnds` follow the walk of the kernel; that the names resolved so far lead to that
  directory is `SpelledLeads`, by `WalksLeadOn`: a walk along two paths in a row goes on where the first leads.
  It needs that a directory is found where `Up` and `NameOf` say and nowhere else (`TreesAssumption`, `InPlace`),
  and that ".." stays in the root (`DirsAssumption`).  For `weakly_canonical`, `Breaks` says that the names known to
  lead somewhere are the longest such beginning, so that the definition in `Weakly` chooses it (`WeaklyThen`,
  `LongerPath`), and `FoundExpected`, `FailExpected`, `MissingExpected` and `LoopExpected` say that what is
  returned is expected.  On a disk that folds case and does not tell spellings the caller's letters
  stay: `Spellings`, without which the property is false there.

  `RelativeAnswersLead` builds on it: the answer is that of one moment, so it is what `lexically_relative`
  makes of two paths that `Weakly` describes.  Both are in normal form (`IsNormal`, `WeaklyNormal`), so it is as
  many ".." as the base has names of its own, and then those of the path (`RelativeNames`).  By names they lead
  there as the normal form of base and answer takes back name after name (`BackAndOn`, `ThereByNames`).  In the
  file system they do if both places are found: ".." by ".." they lead from the base to the directory that both
  have in common (`UpsLead`), and on from there as the path leads from the root (`WalksLeadOn`,
  `PlaceLeads`); that the links that were left then are enough is `MoreLinks`.

* `Lexical_proofs!TypesCorrect`, `NormalFormsHold`, `JoinsWalk`, `ParentsAndNames`, `SuffixesSwapBack`,
  `SubdirectoriesFound`, `PlacesFound`: every invariant of `Lexical`, for any letters, any home and working
  directory and paths of any length.  The invariant, `Arguments`, only bounds the arguments; the work is in
  the functions.  `SeqInduction` is induction over texts, from least numbers, for a set of texts in the place
  of a predicate; `Recursion` gives each recursive function its equation.  `SplitConcat` says what the names of
  two paths in a row are, and `NamesAreSplit` that `fs_split` finds the names which `Names` defines by positions
  (through `Enumeration`, and `Counting` of the positions of an increasing function).  From there on a path is
  its first character and its names, and where it leads is a recursion over the names (`WalkIs`,
  `FollowConcat`).  A normal form is a number of ".."s and names behind them (`Ups`, `NormalVectorHolds`); it
  leads from the deep directory to what is left of it and those names (`Leads`, `MeaningShape`), from which
  both can be read off: two normal forms that lead to one place are the same (`NormalUnique`).
* `Driver_proofs!SessionAlwaysHolds`, for any lines, tables and kinds of things at the paths.  `Words` and
  `Tables` say what the words of the line in progress, and what has been seen at its path, imply for
  each step; `Watching` that what is at the path now has been seen; `Behind` that nothing was answered
  yet of the line in progress.  The
  steps in the middle of a line keep `SessionHolds` as they add no line that is over
  (`MiddleOfLine`); those that end one add exactly one verdict (`EndOfLine`).  What was seen stays
  seen (`Remembered`), so that lines that are over keep their causes.

Every invariant and every action property of the passing runs is proved.  Only model-checked: the
liveness properties `CallsReturn`, `PathAppears` and `SessionEnds`, which are out of the prover's reach.

## What is abstracted, and what is left out

* `FileCalls` works in one directory: paths are names, and a missing parent directory or
  a search permission does not occur.  Symlinks point to names of it.  A write-protected
  directory is covered by `MayFail`.
* `std::filesystem` is modelled after libstdc++: which system calls `copy_file` and
  `create_directories` make, and in which order.
* Only the loop with `copy_file_range` is modelled, not the one with `read` and `write`
  for systems without it.  Sizes are small numbers; a directory has a size that is not zero.
* In `Mkdir` components are names: no ".", ".." or symlinks, and a non-directory in the
  middle of the path is reported like a missing component (the code treats both errors alike).
  `mkdir(2)` on an existing component reports `EEXIST` whether its parent is writable or not,
  as Linux does.
* In `Lexical` the working directory and `$HOME` do not change, and are never empty.
* In `Permissions` the set-user-id, set-group-id and sticky bits are left out, and a path
  is resolved to its file at once, so that symlinks play no part.
* In `Interchange` a result is all there is to a function: that the file system may answer
  the three programs differently is left out, as are numbers and logicals, which need no buffer, and
  the optional argument `ok`.
* In `Lookups` a path leads to its object at once, and a failing `stat` means that there is nothing.
  The numbers of sizes, space and hard links are single system calls whose answer is passed on, and are left out.
  In a search path a component stands for the path of the program in it.
* In `Resolve` a path is a sequence of names: slashes and "." are in `Lexical`.  Directories stay
  where they are or are removed; the names of the model do not change case on their way through `fs_normal`.
  `realpath(3)` reads the working directory once and then one component at a time, after glibc.
  `fs_relative_to` with an empty argument is left out.
* In `Driver` the commands of the tables answer in one step, whatever they print, and what they do to the
  disk is among the changes of `Env`.  Paths are absolute and have no "~" in them; the user is not the superuser, for
  whom nothing is closed; a read-only file system is one on which nothing is his own.  `fs_set_permissions` is one
  step: its own are in `Permissions`.
* Not modelled: the rest of the table above, with the reasons given in `PROJECT.json`.

## Plan

Done: all modules above and their proofs.  Next, in this order:

1. The loop of `fs_copy_file` with `read` and `write`, for systems without `copy_file_range`.
2. The optional argument `ok` of the Fortran procedures and the programs it stops, with `FileCalls`.
3. The `std::filesystem` build of `Lexical`, and where the two builds agree.
