---------------------------- MODULE MkdirPromise ----------------------------
(***************************************************************************)
(* What fs_mkdir promises, whatever the build: a call adds directories     *)
(* that its path leads through, never one without its parent, and answers  *)
(* yes only at an instant at which the whole path is there.  Others may    *)
(* remove empty directories at any time, and a caller may die, leaving     *)
(* what it made so far.                                                    *)
(***************************************************************************)
EXTENDS Naturals, Sequences

CONSTANTS
  Proc,      \* the callers
  Request    \* the paths they may ask for, as sequences of names

VARIABLES
  dirs,      \* the directories below the base, as sequences of names
  asked,     \* the path each process asked for last
  answer     \* "idle" before the first call, "busy" in one; "dead"

There(q)  == q = <<>> \/ q \in dirs
Parent(q) == SubSeq(q, 1, Len(q) - 1)

(* The directory p may add next: missing, on its path, below one there.    *)
Next1(p) ==
  {q \in {SubSeq(asked[p], 1, k) : k \in 1..Len(asked[p])} :
     ~ There(q) /\ There(Parent(q))}

Ask(p, q) ==
  /\ answer[p] \in {"idle", "yes", "no"}
  /\ asked' = [asked EXCEPT ![p] = q]
  /\ \/ answer' = [answer EXCEPT ![p] = "busy"]
     \/ answer' = [answer EXCEPT ![p] = "no"]          \* refused outright
  /\ UNCHANGED dirs

Grow(p) ==
  /\ answer[p] = "busy"
  /\ \E q \in Next1(p) : dirs' = dirs \cup {q}
  /\ UNCHANGED <<asked, answer>>

(* The last directory may be added as the answer is given.                 *)
SayYes(p) ==
  /\ answer[p] = "busy"
  /\ answer' = [answer EXCEPT ![p] = "yes"]
  /\ \/ There(asked[p]) /\ UNCHANGED dirs
     \/ asked[p] \in Next1(p) /\ dirs' = dirs \cup {asked[p]}
  /\ UNCHANGED asked

SayNo(p) ==
  /\ answer[p] = "busy"
  /\ answer' = [answer EXCEPT ![p] = "no"]
  /\ UNCHANGED <<dirs, asked>>

Vanish(p) ==
  /\ answer[p] = "busy"
  /\ answer' = [answer EXCEPT ![p] = "dead"]
  /\ UNCHANGED <<dirs, asked>>

RemoveEmpty(q) ==
  /\ q \in dirs
  /\ \A r \in dirs : Parent(r) # q
  /\ dirs' = dirs \ {q}
  /\ UNCHANGED <<asked, answer>>

Next ==
  \/ \E p \in Proc : \/ \E q \in Request : Ask(p, q)
                     \/ Grow(p) \/ SayYes(p) \/ SayNo(p) \/ Vanish(p)
  \/ \E q \in dirs : RemoveEmpty(q)

Init ==
  /\ \A q \in dirs : q # <<>> /\ There(Parent(q))
  /\ asked = [p \in Proc |-> <<>>]
  /\ answer = [p \in Proc |-> "idle"]

Spec == Init /\ [][Next]_<<dirs, asked, answer>>
=============================================================================
