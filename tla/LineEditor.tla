------------------------------ MODULE LineEditor ------------------------------
(* What the console's input promises (src/firmware/src/console.c): what is *)
(* typed is kept in order until the line is ended, and each line is run    *)
(* once, as it was typed.  Input is only thrown away when a line gets too  *)
(* long or the terminal connects anew.                                     *)
EXTENDS Naturals, Sequences

CONSTANTS Size,    \* the longest text that is kept
          Letters, \* the characters lines are made of
          Ends     \* the characters that end a line

VARIABLES text,    \* what has been typed and not been run
          ran,     \* the lines that were run
          connects \* how often a terminal has connected

IsLine(k) == text[k] \in Ends /\ \A j \in 1 .. k - 1 : text[j] \notin Ends

Init == text = <<>> /\ ran = <<>> /\ connects = 0

Type == /\ Len(text) < Size
        /\ \E c \in Letters \cup Ends : text' = Append(text, c)
        /\ UNCHANGED <<ran, connects>>

Erase == /\ text # <<>>
         /\ text' = SubSeq(text, 1, Len(text) - 1)
         /\ UNCHANGED <<ran, connects>>

Enter == \E k \in DOMAIN text :
           /\ IsLine(k)
           /\ ran' = Append(ran, SubSeq(text, 1, k - 1))
           /\ text' = SubSeq(text, k + 1, Len(text))
           /\ UNCHANGED connects

\* The text is full, and what is typed next starts a new one.
Overflow == /\ Len(text) = Size
            /\ \/ text' = <<>>
               \/ \E c \in Letters \cup Ends : text' = <<c>>
            /\ UNCHANGED <<ran, connects>>

Connect == text' = <<>> /\ connects' = connects + 1 /\ UNCHANGED ran

Next == Type \/ Erase \/ Enter \/ Overflow \/ Connect

Spec == Init /\ [][Next]_<<text, ran, connects>>
=============================================================================
