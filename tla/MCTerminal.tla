----------------------------- MODULE MCTerminal -----------------------------
(* A small instance of Terminal for TLC. *)
EXTENDS Terminal

\* With a character of the shell between, it fills the first row.
MCBootText == <<Text, Text, Newline>>
=============================================================================
