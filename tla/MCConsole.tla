------------------------------ MODULE MCConsole ------------------------------
(* Console with two letters, one of which is the command "repeat".         *)
EXTENDS Console

CONSTANTS a, r

MCLetters == {a, r}
MCRepeat == <<r>>

\* A terminal sends each key as it is pressed.
MCKeys == {<<c>> : c \in Char}
=============================================================================
