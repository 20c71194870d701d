----------------------------- MODULE MCStartup -----------------------------
(***************************************************************************)
(* Small instances of Startup for TLC.                                     *)
(***************************************************************************)
EXTENDS Startup

\* One of a single character, and a longer one with a newline in it.
MCWords == {<<c>> : c \in Letters} \cup {<<c, LF, c>> : c \in Letters}
=============================================================================
