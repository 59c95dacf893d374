----------------------------- MODULE LogHistory -----------------------------
(***************************************************************************)
(* What the debug log promises its readers, without head, tail or full:    *)
(* the characters logged so far, of which only the N newest are kept.      *)
(***************************************************************************)
EXTENDS Integers, Sequences

CONSTANTS N,      \* how many characters are kept
          Char    \* the characters

VARIABLES log,    \* the characters kept, oldest first
          todo    \* what is left of the message being logged

Newest(s) == IF Len(s) > N THEN Tail(s) ELSE s

Init == log = <<>> /\ todo = <<>>

\* A caller hands over one or more messages.
Submit == /\ todo = <<>>
          /\ todo' \in Seq(Char)
          /\ log' = log

\* The next character enters the log and, once N are kept, the oldest leaves.
Record == /\ todo # <<>>
          /\ log' = Newest(Append(log, Head(todo)))
          /\ todo' = Tail(todo)

Next == Submit \/ Record

Spec == Init /\ [][Next]_<<log, todo>>
=============================================================================
