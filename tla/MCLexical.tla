----------------------------- MODULE MCLexical -----------------------------
(***************************************************************************)
(* Instances of Lexical.  $HOME has slashes that fs_get_homedir drops, and *)
(* the working directory is two levels below the root, so that ".." gets   *)
(* above it in paths of the bounded lengths.                               *)
(***************************************************************************)
EXTENDS Lexical

MCLetter == {"a", "c", "h", "w"}
MCDrawn  == {"a"}
MCHome   == <<"/", "/", "h", "/">>
MCCwd    == <<"/", "c", "/", "w">>
=============================================================================
