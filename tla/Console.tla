------------------------------- MODULE Console -------------------------------
(* The line editor of src/firmware/src/console.c: how chunks of input from *)
(* the serial port become lines, and which commands are run for them.      *)
(*                                                                         *)
(* All output, an echo as well as a command's, runs tud_task, which may    *)
(* deliver the next chunk or a newly connected terminal before the output  *)
(* is done.  So calls of cnsl_handle_input nest, and share one buffer.     *)
(*                                                                         *)
(* What a command does is in PmwDriver; here it only prints.               *)
EXTENDS Integers, Sequences, SequencesExt

CONSTANTS Size,        \* CNSL_BUFF_SIZE
          Letters,     \* the characters commands are made of
          Backspace, CR, LF, Nul,
          RepeatLine,  \* the command "repeat"
          Chunks,      \* what one tud_cdc_read may return
          Quiet,       \* while output is under way nobody ends a line, erases,
                       \* overflows the buffer or connects
          MaxInputs,   \* bound: chunks that come
          MaxNest,     \* bound: calls of cnsl_handle_input under way
          MaxConnects  \* bound: terminals that connect

Char == Letters \cup {Backspace, CR, LF}
Ends == {CR, LF}

ASSUME ConsoleAssumption ==
  /\ Size \in Nat \ {0}
  /\ RepeatLine \in Seq(Letters)
  /\ Letters \cap ({Backspace, Nul} \cup Ends) = {}
  /\ Backspace \notin Ends /\ Nul \notin Ends \cup {Backspace}
  /\ Chunks \subseteq Seq(Char)
  /\ Quiet \in BOOLEAN

VARIABLES cnsl_line_buff, cnsl_buff_pos, cnsl_last_command,
          cnsl_repeated_command, repeat_command,  \* the statics of console.c
          calls,    \* cnsl_handle_input and cnsl_run under way, innermost last
          outside,  \* a statement has used memory outside cnsl_line_buff
          inputs,   \* history: chunks so far
          connects, \* history: terminals so far
          ran,      \* history: the lines given to cnsl_interpret
          did,      \* history: the commands the last of them has run
          known     \* history: the line before, if there was one since cnsl_init

buffer == <<cnsl_line_buff, cnsl_buff_pos>>
commands == <<cnsl_last_command, cnsl_repeated_command, repeat_command>>
history == <<inputs, connects, ran, did, known>>
vars == <<buffer, commands, calls, outside, history>>

Slots == 0 .. Size
Zeroed == [i \in Slots |-> Nul]

\* Where a call is: it prints the overflow message, is about to look at
\* character i, echoes it, prints what a command does, or is done with one.
Stages == {"overflow", "edit", "echo", "run", "done", "repeat"}
Prints == {"overflow", "echo", "run", "repeat"}
Call == [stage : Stages, chunk : Seq(Char), i : -1 .. Size, line : Slots]

Top == Last(calls)
SetTop(call) == Append(Front(calls), call)
At(stage) == calls # <<>> /\ Top.stage = stage

\* What follows once memory outside the buffer was used is not modelled.
Goes(stage) == ~outside /\ At(stage)
Idle == ~outside /\ calls = <<>>

\* cnsl_buff_pos is unsigned: a negative value here is one that has wrapped.
TooLong(len) == LET end == cnsl_buff_pos + len IN end > Size \/ end < 0

\* The C string at the beginning of a buffer.
CString(buff) ==
  LET end == CHOOSE k \in Slots : /\ buff[k] = Nul
                                  /\ \A j \in 0 .. k - 1 : buff[j] # Nul
  IN  [k \in 1 .. end |-> buff[k - 1]]

\* The characters from one position of the buffer to before another.
Part(from, to) == [k \in 1 .. to - from |-> cnsl_line_buff[from + k - 1]]
-----------------------------------------------------------------------------
\* Plausible slips; a run substitutes each for the definition it is named
\* after.
Consumed_NoEnd(line) == line
Consumed_CrLf(line) == line + 2
CnslRun_Unchecked ==
  /\ Idle
  /\ repeat_command
  /\ calls' = <<[stage |-> "repeat", chunk |-> <<>>, i |-> 0, line |-> 0]>>
  /\ did' = <<cnsl_repeated_command>>
  /\ UNCHANGED <<buffer, commands, outside, inputs, connects, ran, known>>

\* What the loop of a backspace at i leaves: everything behind it moves over
\* it and the character before it; at the beginning of the buffer only over it.
Shifted(i) ==
  LET gap == IF i > 0 THEN 1 ELSE 0
  IN  [k \in Slots |-> IF k + gap \in i .. cnsl_buff_pos - 2
                       THEN cnsl_line_buff[k + gap + 1] ELSE cnsl_line_buff[k]]

\* How many characters a line takes away, with a newline behind its end.
Consumed(line) ==
  line + 1 + (IF cnsl_line_buff[line + 1] = LF THEN 1 ELSE 0)

\* The commands cnsl_interpret runs for a line.
Runs(line) ==
  IF line # <<>> THEN <<line>>
  ELSE IF cnsl_last_command \notin {<<>>, RepeatLine} THEN <<cnsl_last_command>>
  ELSE <<>>

\* cnsl_interpret, up to its output.
Interpret(line) ==
  /\ ran' = Append(ran, line)
  /\ did' = Runs(line)
  /\ known' = line
  /\ repeat_command' = IF line = RepeatLine THEN ~repeat_command ELSE repeat_command
  /\ cnsl_repeated_command' =
       IF line = RepeatLine /\ ~repeat_command THEN cnsl_last_command
       ELSE cnsl_repeated_command

\* cnsl_handle_input copies the chunk behind what is there and begins to look
\* at it.
Store(base, pos, chunk) ==
  [buff |-> [k \in Slots |-> IF k \in pos .. pos + Len(chunk) - 1
                             THEN chunk[k - pos + 1] ELSE base[k]],
   call |-> [stage |-> "edit", chunk |-> <<>>, i |-> pos, line |-> 0]]

\* tud_cdc_rx_cb: from the main loop's tud_task, or from one in an output.
Receive(chunk) ==
  /\ ~outside
  /\ inputs < MaxInputs
  /\ Len(calls) < MaxNest
  /\ calls # <<>> => /\ Top.stage \in Prints
                     /\ Quiet => chunk \in Seq(Letters) /\ ~TooLong(Len(chunk))
  /\ inputs' = inputs + 1
  /\ IF TooLong(Len(chunk))
     THEN /\ calls' = Append(calls, [stage |-> "overflow", chunk |-> chunk,
                                     i |-> 0, line |-> 0])
          /\ UNCHANGED <<buffer, outside>>
     ELSE LET stored == Store(cnsl_line_buff, cnsl_buff_pos, chunk)
          IN  /\ cnsl_line_buff' = stored.buff
              /\ cnsl_buff_pos' = cnsl_buff_pos + Len(chunk)
              /\ calls' = Append(calls, stored.call)
              /\ outside' = (cnsl_buff_pos < 0)
  /\ UNCHANGED <<commands, connects, ran, did, known>>

\* The overflow was reported: cnsl_init, and on with the chunk.
StartOver ==
  /\ Goes("overflow")
  /\ LET stored == Store(Zeroed, 0, Top.chunk)
     IN  /\ cnsl_line_buff' = stored.buff
         /\ cnsl_buff_pos' = Len(Top.chunk)
         /\ calls' = SetTop(stored.call)
  /\ cnsl_last_command' = <<>>
  /\ cnsl_repeated_command' = <<>>
  /\ known' = <<>>
  /\ UNCHANGED <<repeat_command, outside, inputs, connects, ran, did>>

\* The loop's body: character i, up to its echo.
Edit ==
  /\ Goes("edit")
  /\ Top.i < cnsl_buff_pos
  /\ LET i == Top.i
     IN  IF cnsl_line_buff[i] = Backspace
         THEN /\ cnsl_line_buff' = Shifted(i)
              /\ cnsl_buff_pos' = cnsl_buff_pos - (IF i > 0 THEN 2 ELSE 1)
              /\ calls' = SetTop([Top EXCEPT !.stage = "echo", !.i = i - 1])
         ELSE /\ calls' = SetTop([Top EXCEPT !.stage = "echo"])
              /\ UNCHANGED buffer
  /\ UNCHANGED <<commands, outside, history>>

Echoed ==
  /\ Goes("echo")
  /\ calls' = SetTop([Top EXCEPT !.stage = "edit", !.i = @ + 1])
  /\ UNCHANGED <<buffer, commands, outside, history>>

\* The loop is over.  cnsl_find_line_end compares with the unsigned position:
\* if that has wrapped it may look behind the buffer.
FindLineEnd ==
  /\ Goes("edit")
  /\ Top.i >= cnsl_buff_pos
  /\ LET limit == IF cnsl_buff_pos < 0 THEN Size + 1 ELSE cnsl_buff_pos
         found == {k \in 0 .. limit - 1 : cnsl_line_buff[k] \in Ends}
         line  == CHOOSE k \in found : \A j \in found : k <= j
     IN  IF found = {}
         THEN /\ calls' = Front(calls)
              /\ outside' = (cnsl_buff_pos < 0)
              /\ UNCHANGED <<buffer, commands, history>>
         ELSE /\ cnsl_line_buff' = [cnsl_line_buff EXCEPT ![line] = Nul]
              /\ Interpret(CString(cnsl_line_buff'))
              /\ calls' = SetTop([Top EXCEPT !.line = line,
                            !.stage = IF did' = <<>> THEN "done" ELSE "run"])
              /\ UNCHANGED <<cnsl_buff_pos, cnsl_last_command, outside, inputs, connects>>

\* cnsl_interpret has returned: the line is remembered and removed.
Finish_RemoveFirst ==
  /\ Goes("run") \/ Goes("done")
  /\ LET cnt     == Consumed(Top.line)
         cleared == [k \in Slots |-> IF k < cnt THEN Nul ELSE cnsl_line_buff[k]]
     IN  /\ cnsl_line_buff' = [k \in Slots |-> IF k + cnt <= Size
                                               THEN cleared[k + cnt] ELSE cleared[k]]
         /\ cnsl_buff_pos' = cnsl_buff_pos - cnt
  /\ cnsl_last_command' = CString(cnsl_line_buff')
  /\ calls' = Front(calls)
  /\ UNCHANGED <<cnsl_repeated_command, repeat_command, outside, history>>
Finish ==
  /\ Goes("run") \/ Goes("done")
  /\ LET cnt     == Consumed(Top.line)
         cleared == [k \in Slots |-> IF k < cnt THEN Nul ELSE cnsl_line_buff[k]]
     IN  /\ cnsl_line_buff' = [k \in Slots |-> IF k + cnt <= Size
                                               THEN cleared[k + cnt] ELSE cleared[k]]
         /\ cnsl_buff_pos' = cnsl_buff_pos - cnt
  /\ cnsl_last_command' = CString(cnsl_line_buff)
  /\ calls' = Front(calls)
  /\ UNCHANGED <<cnsl_repeated_command, repeat_command, outside, history>>

\* cnsl_run in the main loop, at a time at which the repeat is due ...
CnslRun ==
  /\ Idle
  /\ repeat_command
  /\ IF cnsl_repeated_command \in {<<>>, RepeatLine}
     THEN repeat_command' = FALSE /\ UNCHANGED <<calls, did>>
     ELSE /\ calls' = <<[stage |-> "repeat", chunk |-> <<>>, i |-> 0, line |-> 0]>>
          /\ did' = <<cnsl_repeated_command>>
          /\ UNCHANGED repeat_command
  /\ UNCHANGED <<buffer, cnsl_last_command, cnsl_repeated_command, outside,
                 inputs, connects, ran, known>>

\* ... and its output is done.
Repeated ==
  /\ Goes("repeat")
  /\ calls' = <<>>
  /\ UNCHANGED <<buffer, commands, outside, history>>

\* tud_cdc_line_state_cb: a terminal connects, which calls cnsl_init.
Connect ==
  /\ ~outside
  /\ connects < MaxConnects
  /\ calls # <<>> => ~Quiet /\ Top.stage \in Prints
  /\ connects' = connects + 1
  /\ cnsl_line_buff' = Zeroed
  /\ cnsl_buff_pos' = 0
  /\ cnsl_last_command' = <<>>
  /\ cnsl_repeated_command' = <<>>
  /\ known' = <<>>
  /\ UNCHANGED <<repeat_command, calls, outside, inputs, ran, did>>

\* The main loop goes round.
Loop == Idle /\ ~repeat_command /\ UNCHANGED vars

Init ==
  /\ cnsl_line_buff = Zeroed /\ cnsl_buff_pos = 0
  /\ cnsl_last_command = <<>> /\ cnsl_repeated_command = <<>>
  /\ repeat_command = FALSE
  /\ calls = <<>>
  /\ outside = FALSE
  /\ inputs = 0 /\ connects = 0
  /\ ran = <<>> /\ did = <<>> /\ known = <<>>

Next ==
  \/ \E chunk \in Chunks : Receive(chunk)
  \/ StartOver \/ Edit \/ Echoed \/ FindLineEnd \/ Finish
  \/ CnslRun \/ Repeated \/ Connect \/ Loop

Spec == Init /\ [][Next]_vars
-----------------------------------------------------------------------------
\* The position is within the buffer, behind it is always room for a string's
\* end, and nothing outside was used.
TypeOK ==
  /\ cnsl_line_buff \in [Slots -> Char \cup {Nul}]
  /\ cnsl_line_buff[Size] = Nul
  /\ cnsl_buff_pos \in 0 .. Size
  /\ {cnsl_last_command, cnsl_repeated_command} \subseteq Seq(Char)
  /\ repeat_command \in BOOLEAN
  /\ calls \in Seq(Call)
  /\ ~outside

\* The calls that work on a line.
Runners == {k \in DOMAIN calls : calls[k].stage \in {"run", "done"}}

\* The text that has been typed and not been given to cnsl_interpret: what is
\* in the buffer, without the line a call is still working on, and without a
\* backspace at its end, which was not looked at yet.
Start == IF Runners = {} THEN 0 ELSE calls[CHOOSE k \in Runners : TRUE].line + 1
End == IF Start < cnsl_buff_pos /\ cnsl_line_buff[cnsl_buff_pos - 1] = Backspace
       THEN cnsl_buff_pos - 1 ELSE cnsl_buff_pos
Text == Part(Start, End)

\* Typed one character at a time, and as long as nobody ends a line, erases,
\* overflows the buffer or connects while output is under way, console.c is the
\* editor it seems to be: positions, moved and zeroed bytes keep the text, and
\* each line is run once, also if more is typed while a command prints.
Editor == INSTANCE LineEditor WITH text <- Text
EditorImplemented == Editor!Spec

\* The command the main loop repeats is one that was typed before "repeat",
\* and never "repeat" itself, which would switch itself off in turn.
RepeatsACommand ==
  At("repeat") => /\ did[1] # RepeatLine
                  /\ \E k \in DOMAIN ran : ran[k] = did[1]

\* Enter with no input runs the command of the line before once more, whatever
\* was typed while that printed, though its name is only copied from the shared
\* buffer afterwards (console.c:270).  It runs nothing after "repeat", after
\* cnsl_init, or after another Enter with no input: that is a line, too.
EnterRepeats ==
  [][ran' # ran /\ Last(ran') = <<>> =>
       did' = IF known \in {<<>>, RepeatLine} THEN <<>> ELSE <<known>>]_vars

\* console.c:272 says: "clear string and move following data over".  So when a
\* line is removed what was behind its end, a newline perhaps not, remains.
FollowingDataKept ==
  [][Finish =>
       LET behind == Part(Top.line + 1, cnsl_buff_pos)
           left   == [k \in 1 .. cnsl_buff_pos' |-> cnsl_line_buff'[k - 1]]
       IN  /\ cnsl_buff_pos' >= 0
           /\ \/ left = behind
              \/ behind # <<>> /\ behind[1] = LF /\ left = Tail(behind)]_vars
=============================================================================
