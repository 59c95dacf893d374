------------------------------ MODULE LogBuffer ------------------------------
(***************************************************************************)
(* The debug log of src/firmware/src/log.c: the ring add_to_log fills, its *)
(* replay on a terminal that connects (log_dump_to_usb) and its copy on    *)
(* the RAM disk (log_dump_to_disk).                                        *)
(*                                                                         *)
(* Everything runs on one thread.  What interleaves is what usb_cdc_write  *)
(* calls: it runs tud_task, whose callbacks log.  So new messages enter    *)
(* the ring between two characters of a replay; add_to_log itself and the  *)
(* FatFS calls run no callback.                                            *)
(***************************************************************************)
EXTENDS Integers, Sequences

CONSTANTS LogSize,  \* sizeof(log_buff), 4096 in the code
          Char,     \* the characters that are logged
          Nul,      \* what the zeroed static buffer holds
          Msgs,     \* the messages debug() may log, non-empty strings
          ErrMsg    \* the text of log_dump_to_disk's own error messages

ASSUME LogAssumption ==
  /\ LogSize \in Nat \ {0}
  /\ Msgs \subseteq Seq(Char)
  /\ ErrMsg \in Seq(Char)

VARIABLES log_buff, head, tail, full,  \* the statics of log.c
          todo,     \* what add_to_log still has to store of its argument
          replay,   \* the usb_cdc_write in progress of log_dump_to_usb
          shown,    \* the characters the current or last replay has written
          file,     \* the contents of log.txt
          snap,     \* history: the log when the replay began
          added     \* history: characters logged since, counted to LogSize + 1

ring == <<log_buff, head, tail, full>>
vars == <<ring, todo, replay, shown, file, snap, added>>

Slots == 0 .. LogSize - 1

\* What log_dump_to_usb is writing: nothing, its title, the only piece of the
\* log, or the first or the last of two; and the part still to be written.
Stages == {"idle", "title", "only", "first", "last"}
Idle == [stage |-> "idle", at |-> 0, left |-> 0]
-----------------------------------------------------------------------------
\* Plausible slips in the code; a run substitutes each for the definition it
\* is named after.
After_NoWrap(i) == IF i = LogSize THEN 0 ELSE i + 1
TailAfter_Stuck == tail
FirstLen_All    == LogSize - tail

After(i) == IF i + 1 = LogSize THEN 0 ELSE i + 1

TailAfter == IF full THEN After(tail) ELSE tail

FullAfter_Early(h, t) == After(h) = t

FullAfter(h, t) == h = t

\* The body of add_to_log's loop.
AddChar ==
  /\ todo # <<>>
  /\ log_buff' = [log_buff EXCEPT ![head] = Head(todo)]
  /\ tail' = TailAfter
  /\ head' = After(head)
  /\ full' = FullAfter(head', tail')
  /\ todo' = Tail(todo)
  /\ added' = IF added > LogSize THEN added ELSE added + 1
  /\ UNCHANGED <<replay, shown, file, snap>>

\* debug_log(true, ...) reaches add_to_log, from the main loop or from a
\* callback that runs inside a replay.
AddToLog ==
  /\ todo = <<>>
  /\ todo' \in Msgs
  /\ UNCHANGED <<ring, replay, shown, file, snap, added>>
-----------------------------------------------------------------------------
Count == IF full THEN LogSize
         ELSE IF head >= tail THEN head - tail ELSE head + LogSize - tail

Slot(k) == IF k >= LogSize THEN k - LogSize ELSE k

\* The characters the ring holds, oldest first: what a replay or a copy of
\* the log is meant to produce.
Retained == [i \in 1 .. Count |-> log_buff[Slot(tail + i - 1)]]

FirstLen == IF head > tail THEN head - tail ELSE LogSize - tail

\* One replay is followed.  Another, in its output (usb_cdc.c:98-110), only reads
\* the ring, and to the one around it is a pause in which others may log.
LogDumpToUsb ==
  /\ todo = <<>>
  /\ replay = Idle
  /\ replay' = IF head = tail THEN Idle ELSE [Idle EXCEPT !.stage = "title"]
  /\ shown' = <<>> /\ snap' = <<>>
  /\ UNCHANGED <<ring, todo, file, added>>

\* The title is out.  Only now are head and tail read for the first piece.
ReplayStart ==
  /\ todo = <<>>
  /\ replay.stage = "title"
  /\ replay' = [stage |-> IF head > tail THEN "only" ELSE "first",
                at |-> tail, left |-> FirstLen]
  /\ shown' = <<>>
  /\ snap' = Retained
  /\ added' = 0
  /\ UNCHANGED <<ring, todo, file>>

\* The next character goes from the live buffer into the USB FIFO; the
\* length of the last piece is read only when the first is out.
ReplayChar ==
  /\ todo = <<>>
  /\ replay.left > 0
  /\ shown' = Append(shown, log_buff[replay.at])
  /\ replay' = IF replay.left > 1
               THEN [replay EXCEPT !.at = @ + 1, !.left = @ - 1]
               ELSE IF replay.stage = "first" /\ head > 0
               THEN [stage |-> "last", at |-> 0, left |-> head]
               ELSE Idle
  /\ UNCHANGED <<ring, todo, file, snap, added>>

Piece(from, to) == [i \in 1 .. to - from |-> log_buff[from + i - 1]]

Linear_Short == Piece(tail, head - 1)

\* What the f_write calls of log_dump_to_disk are given, in their order.
Linear ==
  IF head > tail THEN Piece(tail, head)
  ELSE IF head < tail THEN Piece(tail, LogSize) \o Piece(0, head)
  ELSE <<>>

\* The file system calls succeed or not; a short write leaves a prefix.  Each
\* failure is itself logged by debug(), after the copying.
LogDumpToDisk(opened, written, closed) ==
  /\ todo = <<>>
  /\ IF opened
     THEN /\ \E n \in 0 .. Len(Linear) :
               /\ written => n = Len(Linear)
               /\ file' = SubSeq(Linear, 1, n)
          /\ todo' = (IF written THEN <<>> ELSE ErrMsg)
                     \o (IF closed THEN <<>> ELSE ErrMsg)
     ELSE file' = file /\ todo' = ErrMsg
  /\ UNCHANGED <<ring, replay, shown, snap, added>>
-----------------------------------------------------------------------------
Init ==
  /\ log_buff = [i \in Slots |-> Nul]
  /\ head = 0 /\ tail = 0 /\ full = FALSE
  /\ todo = <<>>
  /\ replay = Idle
  /\ shown = <<>> /\ file = <<>>
  /\ snap = <<>> /\ added = 0

Next ==
  \/ AddToLog
  \/ AddChar
  \/ LogDumpToUsb
  \/ ReplayStart
  \/ ReplayChar
  \/ \E opened, written, closed \in BOOLEAN :
       LogDumpToDisk(opened, written, closed)

Spec == Init /\ [][Next]_vars
-----------------------------------------------------------------------------
TypeOK ==
  /\ log_buff \in [Slots -> Char \cup {Nul}]
  /\ head \in Slots /\ tail \in Slots /\ full \in BOOLEAN
  /\ todo \in Seq(Char)
  /\ replay \in [stage : Stages, at : Slots, left : 0 .. LogSize]
  /\ shown \in Seq(Char \cup {Nul}) /\ file \in Seq(Char \cup {Nul})
  /\ snap \in Seq(Char \cup {Nul})
  /\ added \in 0 .. LogSize + 1

(* The ring has only two shapes: filling up from slot 0, or full with both *)
(* indices equal.  So head < tail, the case log.c:91-100 is written for,   *)
(* is never reached, and log_dump_to_usb takes its two-piece branch (66-67)*)
(* only when a callback fills the ring while the title is written.         *)
TwoShapes == IF full THEN head = tail ELSE tail = 0

(* What log_dump_to_usb still has to write, if nothing is logged meanwhile.*)
Pending == replay.left + IF replay.stage = "first" THEN head ELSE 0

(* Every replay writes what the log held when its first piece was chosen,  *)
(* whole and in order (log_dump_to_usb), although callbacks log meanwhile, *)
(* as long as what they log fits into the slots that were free.            *)
ReplayFaithful ==
  added <= LogSize - Len(snap) =>
    /\ Len(shown) + Pending = Len(snap)
    /\ shown = SubSeq(snap, 1, Len(shown))

(* A copy to disk that no file system call failed holds exactly the log,   *)
(* unless the log is full (log_dump_to_disk).                              *)
SavedLogExact ==
  [][LogDumpToDisk(TRUE, TRUE, TRUE) => full \/ file' = Retained]_vars

(* The ring with its indices behaves as the plain list of the newest       *)
(* LogSize characters: add_to_log loses, duplicates and reorders nothing.  *)
History == INSTANCE LogHistory WITH N <- LogSize, log <- Retained
KeepsNewest == History!Spec

(* "will be re-played from buffer when terminal connects" (log.h:23), of   *)
(* the debug() output "stored in the debug log" (log.h:22): a replay that  *)
(* finds something in the log starts to write it.                          *)
LogIsReplayed ==
  [][LogDumpToUsb => (Count > 0 => replay'.stage = "title")]_vars
=============================================================================
