---------------------------- MODULE ConsoleProofs ----------------------------
(* Proofs about Console: keys typed one by one stay within the buffer, each *)
(* line is run once as it was typed, and only a command is repeated, for    *)
(* every size of the buffer, and however many keys come while the console   *)
(* prints.                                                                  *)
EXTENDS Console, SequenceTheorems, TLAPS

-----------------------------------------------------------------------------
\* A terminal sends each key as it is pressed, and while output is under way
\* nothing but letters.
KeyByKey == Quiet /\ Chunks \subseteq {<<c>> : c \in Char}

\* The line has been given to cnsl_interpret, or is empty.
Given(line) == line = <<>> \/ \E k \in DOMAIN ran : ran[k] = line

\* What a call under way is at.
CallOK(call) ==
  /\ call.stage = "edit" => call.i >= 0
  /\ call.stage = "echo" => call.i < Size
  /\ call.stage = "overflow" => \E c \in Char : call.chunk = <<c>>

\* Only an echo and a command are interrupted, and the overflow is found by
\* the only call.
Nested ==
  /\ \A k \in DOMAIN calls : CallOK(calls[k])
  /\ \A k \in DOMAIN calls : k # Len(calls) => calls[k].stage \in {"echo", "run", "repeat"}
  /\ \A k \in DOMAIN calls : calls[k].stage \in {"overflow", "repeat"} => k = 1
  /\ At("overflow") => cnsl_buff_pos = Size

\* A line is worked on by one call, is still in the buffer as it was run, and
\* nothing behind it ends another.
Working ==
  /\ \A j, k \in Runners : j = k
  /\ \A k \in Runners :
       LET line == calls[k].line
       IN  /\ line < cnsl_buff_pos
           /\ cnsl_line_buff[line] = Nul
           /\ ran # <<>> /\ ran[Len(ran)] = Part(0, line)
           /\ \A j \in Slots : cnsl_line_buff[j] \notin Ends

\* The end of a line that was not run yet is alone, and the first call has
\* received it.
Ending ==
  /\ \A j \in Slots : cnsl_line_buff[j] \in Ends =>
       /\ j < cnsl_buff_pos
       /\ calls # <<>> /\ calls[1].stage \in {"edit", "echo"}
  /\ \A j, k \in Slots : cnsl_line_buff[j] \in Ends /\ cnsl_line_buff[k] \in Ends => j = k

\* A backspace is the last key, about to be looked at by the only call, and no
\* line has ended.
Erasing ==
  \A j \in 0 .. cnsl_buff_pos - 1 : cnsl_line_buff[j] = Backspace =>
    /\ j = cnsl_buff_pos - 1
    /\ Len(calls) = 1 /\ calls[1].stage = "edit" /\ calls[1].i = j
    /\ \A k \in Slots : cnsl_line_buff[k] \notin Ends

\* The text has no gaps but where a line was ended.
Dense ==
  \A j \in 0 .. cnsl_buff_pos - 1 : cnsl_line_buff[j] = Nul =>
    \E k \in Runners : calls[k].line = j

\* The commands that are kept were typed, and one that is being repeated is one.
Remembered ==
  /\ Given(cnsl_last_command) /\ Given(cnsl_repeated_command)
  /\ calls # <<>> /\ calls[1].stage = "repeat" =>
       /\ did = <<cnsl_repeated_command>>
       /\ cnsl_repeated_command \notin {<<>>, RepeatLine}

Typed == TypeOK /\ ran \in Seq(Seq(Char))
Ordered == Nested /\ Working /\ Ending /\ Erasing /\ Dense /\ Remembered
IInv == KeyByKey /\ Typed /\ Ordered
-----------------------------------------------------------------------------
(* The character sets are apart, and there is room for one key. *)
LEMMA Constants ==
  /\ Size \in Nat /\ Size > 0 /\ 0 \in Slots /\ Size \in Slots
  /\ Nul \notin Char /\ Nul \notin Ends /\ Nul # Backspace
  /\ Backspace \notin Letters /\ Backspace \notin Ends
  /\ \A c \in Letters : c \notin Ends /\ c # Nul
  /\ Letters \subseteq Char /\ Ends \subseteq Char /\ Backspace \in Char
<1>1. Size \in Nat /\ Size > 0 /\ 0 \in Slots /\ Size \in Slots
  BY ConsoleAssumption DEF Slots
<1>2. /\ Letters \cap ({Backspace, Nul} \cup Ends) = {}
      /\ Backspace \notin Ends /\ Nul \notin Ends \cup {Backspace}
  BY ConsoleAssumption
<1>3. \A c \in Letters : c \notin Ends /\ c # Nul /\ c # Backspace
  BY <1>2
<1>. QED  BY <1>1, <1>2, <1>3 DEF Char, Ends

(* Positions in the buffer are numbers. *)
LEMMA SlotNumber == \A k \in Slots : k \in Nat /\ k <= Size
BY Constants DEF Slots

(* What is before b is before a or behind it. *)
LEMMA Before ==
  ASSUME NEW a \in Nat, NEW b \in Nat
  PROVE  \A j \in 0 .. b - 1 : j \in 0 .. a - 1 \/ j \in a .. b - 1
OBVIOUS

LEMMA Within ==
  ASSUME NEW a \in Nat, NEW b \in Nat, a <= b
  PROVE  \A j \in 0 .. a - 1 : j \in 0 .. b - 1
OBVIOUS

(* Part of the buffer is a string. *)
LEMMA PartIs ==
  ASSUME TypeOK, NEW a \in Nat, NEW b \in Slots, a <= b
  PROVE  /\ Len(Part(a, b)) = b - a
         /\ \A k \in 1 .. b - a : Part(a, b)[k] = cnsl_line_buff[a + k - 1]
         /\ (\A j \in 0 .. b - 1 : cnsl_line_buff[j] # Nul) => Part(a, b) \in Seq(Char)
<1>1. b \in Nat /\ b <= Size /\ b - a \in Nat /\ Size \in Nat
  BY SlotNumber, Constants
<1>2. ASSUME NEW k \in 1 .. b - a
      PROVE  a + k - 1 \in Slots /\ a + k - 1 \in 0 .. b - 1
  BY <1>1, <1>2 DEF Slots
<1>3. ASSUME \A j \in 0 .. b - 1 : cnsl_line_buff[j] # Nul
      PROVE  \A k \in 1 .. b - a : cnsl_line_buff[a + k - 1] \in Char
  BY <1>2, <1>3 DEF TypeOK
<1>4. Part(a, b) = [k \in 1 .. b - a |-> cnsl_line_buff[a + k - 1]]
  BY DEF Part
<1>5. Len(Part(a, b)) = b - a
  BY <1>1, <1>4
<1>6. \A k \in 1 .. b - a : Part(a, b)[k] = cnsl_line_buff[a + k - 1]
  BY <1>4
<1>7. ASSUME \A k \in 1 .. b - a : cnsl_line_buff[a + k - 1] \in Char
      PROVE  Part(a, b) \in Seq(Char)
  BY <1>1, <1>4, <1>7
<1>. QED  BY <1>3, <1>5, <1>6, <1>7

(* The string in a buffer ends at its first NUL. *)
LEMMA CStringIs ==
  ASSUME NEW buff, NEW e \in Slots, buff[e] = Nul, \A j \in 0 .. e - 1 : buff[j] # Nul
  PROVE  CString(buff) = [k \in 1 .. e |-> buff[k - 1]]
<1>1. ASSUME NEW k \in Slots, buff[k] = Nul, \A j \in 0 .. k - 1 : buff[j] # Nul
      PROVE  k = e
  <2>1. k \in Nat /\ e \in Nat
    BY SlotNumber
  <2>2. ~(k < e) /\ ~(e < k)
    BY <1>1, <2>1
  <2>. QED  BY <2>1, <2>2
<1>2. (CHOOSE k \in Slots : buff[k] = Nul /\ \A j \in 0 .. k - 1 : buff[j] # Nul) = e
  BY <1>1
<1>. QED  BY <1>2 DEF CString
-----------------------------------------------------------------------------
\* ----- The calls under way.
\* The calls t are s with g on top instead.
OnTop(s, t, g) ==
  /\ t \in Seq(Call) /\ Len(t) = Len(s) /\ t[Len(s)] = g
  /\ \A k \in 1 .. Len(s) - 1 : t[k] = s[k]

(* Replacing the call that runs leaves the others alone. *)
LEMMA TopReplaced ==
  ASSUME NEW s \in Seq(Call), s # <<>>, NEW g \in Call
  PROVE  OnTop(s, Append(Front(s), g), g)
<1>. PICK t : t = Append(Front(s), g)
  OBVIOUS
<1>1. PICK n \in Nat : n = Len(s) /\ n # 0
  OBVIOUS
<1>2. /\ Front(s) \in Seq(Call) /\ Len(Front(s)) = n - 1
      /\ \A k \in 1 .. n - 1 : Front(s)[k] = s[k]
  BY <1>1 DEF Front
<1>3. t \in Seq(Call) /\ Len(t) = n /\ t[n] = g /\ \A k \in 1 .. n - 1 : t[k] = s[k]
  <2>1. PICK u \in Seq(Call) : u = Front(s)
    BY <1>2
  <2>2. Len(u) = n - 1 /\ t = Append(u, g) /\ \A k \in 1 .. n - 1 : u[k] = s[k]
    BY <1>2, <2>1
  <2>3. t \in Seq(Call) /\ Len(t) = n - 1 + 1 /\ t[n - 1 + 1] = g
        /\ \A k \in 1 .. n - 1 : t[k] = u[k]
    BY <2>2
  <2>. QED  BY <1>1, <2>2, <2>3
<1>. QED  BY <1>1, <1>3 DEF OnTop

(* What is known of the call on top. *)
LEMMA TopIs ==
  ASSUME Typed, Nested, calls # <<>>
  PROVE  /\ Len(calls) \in Nat /\ Len(calls) >= 1 /\ DOMAIN calls = 1 .. Len(calls)
         /\ Len(calls) \in DOMAIN calls /\ 1 \in DOMAIN calls
         /\ Top = calls[Len(calls)] /\ Top \in Call /\ CallOK(Top)
         /\ Len(calls) # 1 => calls[1].stage \in {"echo", "run", "repeat"}
<1>1. calls \in Seq(Call)
  BY DEF Typed, TypeOK
<1>2. Len(calls) \in Nat /\ Len(calls) >= 1 /\ DOMAIN calls = 1 .. Len(calls)
  BY <1>1
<1>3. Top = calls[Len(calls)] /\ Len(calls) \in DOMAIN calls /\ 1 \in DOMAIN calls
  BY <1>2 DEF Top, Last
<1>. QED  BY <1>1, <1>2, <1>3 DEF Nested

\* The calls t under way, n of them, are nested as Nested says.
Stacked(t, n) ==
  /\ t \in Seq(Call) /\ Len(t) = n /\ DOMAIN t = 1 .. n
  /\ \A k \in 1 .. n : CallOK(t[k])
  /\ \A k \in 1 .. n : k # n => t[k].stage \in {"echo", "run", "repeat"}
  /\ \A k \in 1 .. n : t[k].stage \in {"overflow", "repeat"} => k = 1

(* That is all Nested says of calls that do not report an overflow. *)
LEMMA StackedNested ==
  ASSUME NEW n \in Nat, Stacked(calls', n),
         n # 0 => calls'[n].stage # "overflow" \/ cnsl_buff_pos' = Size
  PROVE  Nested'
<1>1. Len(calls') = n /\ DOMAIN calls' = 1 .. n
  BY DEF Stacked
<1>2. At("overflow")' => cnsl_buff_pos' = Size
  <2>. SUFFICES ASSUME At("overflow")' PROVE cnsl_buff_pos' = Size
    OBVIOUS
  <2>1. n # 0 /\ Top' = calls'[n]
    BY <1>1 DEF At, Top, Last, Stacked
  <2>. QED  BY <2>1 DEF At
<1>. QED  BY <1>1, <1>2 DEF Stacked, Nested

(* A call goes on, and is not in the middle of a line when it does. *)
LEMMA GoesOn ==
  ASSUME Typed, Nested, calls # <<>>, NEW call \in Call, calls' = SetTop(call),
         CallOK(call), call.stage \in {"edit", "echo", "run", "done"},
         NEW n, n = Len(calls)
  PROVE  /\ Nested' /\ calls' \in Seq(Call) /\ calls' # <<>>
         /\ Len(calls') = n /\ DOMAIN calls' = 1 .. n /\ DOMAIN calls = 1 .. n
         /\ calls'[n] = call
         /\ \A k \in 1 .. n - 1 : calls'[k] = calls[k]
<1>1. n \in Nat /\ n >= 1 /\ n \in 1 .. n
  BY TopIs
<1>2. OnTop(calls, calls', call)
  BY TopReplaced DEF SetTop, Typed, TypeOK
<1>3. calls' \in Seq(Call) /\ Len(calls') = n /\ DOMAIN calls' = 1 .. n
      /\ calls'[n] = call /\ \A k \in 1 .. n - 1 : calls'[k] = calls[k]
  BY <1>2 DEF OnTop
<1>4. DOMAIN calls = 1 .. n
  BY TopIs
<1>5. \A k \in 1 .. n : k = n \/ k \in 1 .. n - 1
  BY <1>1
<1>6. Stacked(calls', n)
  <2>1. ASSUME NEW k \in 1 .. n, k # n
        PROVE  calls'[k] = calls[k] /\ CallOK(calls[k])
               /\ calls[k].stage \in {"echo", "run", "repeat"}
               /\ (calls[k].stage \in {"overflow", "repeat"} => k = 1)
    BY <1>3, <1>4, <1>5, <2>1 DEF Nested
  <2>. QED  BY <1>3, <2>1 DEF Stacked
<1>7. calls'[n].stage # "overflow"
  BY <1>3
<1>8. Nested'
  BY <1>1, <1>6, <1>7, StackedNested
<1>. QED  BY <1>1, <1>3, <1>4, <1>8

(* Another call begins. *)
LEMMA Begins ==
  ASSUME Typed, Nested, NEW call \in Call, calls' = Append(calls, call),
         CallOK(call), call.stage = "edit",
         calls # <<>> => Top.stage \in {"echo", "run", "repeat"},
         NEW n, n = Len(calls)
  PROVE  /\ Nested' /\ calls' \in Seq(Call) /\ calls' # <<>> /\ n \in Nat
         /\ Len(calls') = n + 1 /\ DOMAIN calls' = 1 .. n + 1 /\ DOMAIN calls = 1 .. n
         /\ calls'[n + 1] = call
         /\ \A k \in 1 .. n : calls'[k] = calls[k]
<1>1. calls \in Seq(Call) /\ n \in Nat /\ DOMAIN calls = 1 .. n
  BY DEF Typed, TypeOK
<1>2. calls' \in Seq(Call) /\ Len(calls') = n + 1 /\ DOMAIN calls' = 1 .. n + 1
      /\ calls'[n + 1] = call /\ \A k \in 1 .. n : calls'[k] = calls[k]
  BY <1>1
<1>3. n + 1 \in Nat /\ \A k \in 1 .. n + 1 : k = n + 1 \/ k \in 1 .. n
  BY <1>1
<1>4. n # 0 => calls[n].stage \in {"echo", "run", "repeat"}
  BY <1>1, TopIs
<1>5. Stacked(calls', n + 1)
  <2>1. ASSUME NEW k \in 1 .. n + 1, k # n + 1
        PROVE  calls'[k] = calls[k] /\ CallOK(calls[k])
               /\ calls[k].stage \in {"echo", "run", "repeat"}
               /\ (calls[k].stage \in {"overflow", "repeat"} => k = 1)
    BY <1>1, <1>2, <1>3, <1>4, <2>1 DEF Nested
  <2>. QED  BY <1>2, <2>1 DEF Stacked
<1>6. calls'[n + 1].stage # "overflow"
  BY <1>2
<1>7. Nested'
  BY <1>3, <1>5, <1>6, StackedNested
<1>. QED  BY <1>1, <1>2, <1>7

(* A call ends. *)
LEMMA CallEnds ==
  ASSUME Typed, Nested, calls # <<>>, calls' = Front(calls), NEW n, n = Len(calls)
  PROVE  /\ Nested' /\ calls' \in Seq(Call) /\ n \in Nat /\ n >= 1
         /\ Len(calls') = n - 1 /\ DOMAIN calls' = 1 .. n - 1 /\ DOMAIN calls = 1 .. n
         /\ \A k \in 1 .. n - 1 : calls'[k] = calls[k]
<1>1. calls \in Seq(Call) /\ n \in Nat /\ n >= 1 /\ DOMAIN calls = 1 .. n
  BY TopIs DEF Typed, TypeOK
<1>2. calls' \in Seq(Call) /\ Len(calls') = n - 1 /\ DOMAIN calls' = 1 .. n - 1
      /\ \A k \in 1 .. n - 1 : calls'[k] = calls[k]
  BY <1>1 DEF Front
<1>3. n - 1 \in Nat /\ \A k \in 1 .. n - 1 : k \in 1 .. n /\ k # n
  BY <1>1
<1>4. ASSUME NEW k \in 1 .. n - 1
      PROVE  calls'[k] = calls[k] /\ CallOK(calls[k])
             /\ calls[k].stage \in {"echo", "run", "repeat"}
             /\ (calls[k].stage \in {"overflow", "repeat"} => k = 1)
  BY <1>1, <1>2, <1>3 DEF Nested
<1>5. Stacked(calls', n - 1)
  BY <1>2, <1>4 DEF Stacked
<1>6. n - 1 # 0 => calls'[n - 1].stage # "overflow"
  <2>. SUFFICES ASSUME n - 1 # 0 PROVE calls'[n - 1].stage # "overflow"
    OBVIOUS
  <2>1. n - 1 \in 1 .. n - 1
    BY <1>3
  <2>. QED  BY <1>4, <2>1
<1>7. Nested'
  BY <1>3, <1>5, <1>6, StackedNested
<1>. QED  BY <1>1, <1>2, <1>7
-----------------------------------------------------------------------------
\* ----- What the invariant says stays true where nothing is done to it.
\* Who works on a line does so still, and nobody else.
RunnersStay == Runners' = Runners /\ \A k \in Runners : calls'[k] = calls[k]

\* The calls from 1 to n are the same.
SameTo(n) == \A k \in 1 .. n : calls'[k] = calls[k]

(* Calls that work on no line come, go on and go. *)
LEMMA RunnersGoOn ==
  ASSUME NEW n \in Nat, n >= 1, DOMAIN calls = 1 .. n, DOMAIN calls' = 1 .. n,
         SameTo(n - 1), calls[n].stage \notin {"run", "done"},
         calls'[n].stage \notin {"run", "done"}
  PROVE  RunnersStay
<1>1. \A k \in 1 .. n : k = n \/ k \in 1 .. n - 1
  OBVIOUS
<1>2. \A k \in 1 .. n : k # n => calls'[k] = calls[k]
  BY <1>1 DEF SameTo
<1>3. Runners' = Runners
  BY <1>2 DEF Runners
<1>. QED  BY <1>2, <1>3 DEF Runners, RunnersStay

LEMMA RunnersBegin ==
  ASSUME NEW n \in Nat, DOMAIN calls = 1 .. n, DOMAIN calls' = 1 .. n + 1,
         SameTo(n), calls'[n + 1].stage \notin {"run", "done"}
  PROVE  RunnersStay
<1>1. /\ \A k \in 1 .. n + 1 : k = n + 1 \/ k \in 1 .. n
      /\ \A k \in 1 .. n : k \in 1 .. n + 1
  OBVIOUS
<1>2. Runners' = Runners
  BY <1>1 DEF Runners, SameTo
<1>. QED  BY <1>2 DEF Runners, RunnersStay, SameTo

LEMMA RunnersEnd ==
  ASSUME NEW n \in Nat, n >= 1, DOMAIN calls = 1 .. n, DOMAIN calls' = 1 .. n - 1,
         SameTo(n - 1), calls[n].stage \notin {"run", "done"}
  PROVE  RunnersStay
<1>1. /\ \A k \in 1 .. n : k = n \/ k \in 1 .. n - 1
      /\ \A k \in 1 .. n - 1 : k \in 1 .. n
  OBVIOUS
<1>2. Runners' = Runners
  BY <1>1 DEF Runners, SameTo
<1>3. \A k \in Runners : k \in 1 .. n - 1
  BY <1>1 DEF Runners
<1>. QED  BY <1>2, <1>3 DEF RunnersStay, SameTo

\* What is in the buffer up to the position is there still.
KeepsBuffer ==
  /\ cnsl_buff_pos' \in Slots /\ cnsl_buff_pos' >= cnsl_buff_pos
  /\ \A j \in 0 .. cnsl_buff_pos - 1 : cnsl_line_buff'[j] = cnsl_line_buff[j]

(* A line that is worked on stays as it is while more is typed behind it.   *)
LEMMA WorkingStays ==
  ASSUME Typed, Working, RunnersStay, KeepsBuffer, ran' = ran,
         Runners # {} => \A j \in Slots : cnsl_line_buff'[j] \notin Ends
  PROVE  Working'
<1>1. ASSUME NEW k \in Runners
      PROVE  LET line == calls[k].line
             IN  /\ calls'[k].line = line /\ line < cnsl_buff_pos'
                 /\ cnsl_line_buff'[line] = Nul
                 /\ ran' # <<>> /\ ran'[Len(ran')] = Part(0, line)'
  <2>1. PICK line : line = calls[k].line
    OBVIOUS
  <2>2. /\ line < cnsl_buff_pos /\ cnsl_line_buff[line] = Nul
        /\ ran # <<>> /\ ran[Len(ran)] = Part(0, line)
    BY <2>1 DEF Working
  <2>3. line \in Slots /\ calls'[k].line = line
    <3>1. calls[k] \in Call
      BY DEF Runners, Typed, TypeOK
    <3>. QED  BY <2>1, <3>1 DEF Call, RunnersStay
  <2>4. line \in Nat /\ cnsl_buff_pos \in Nat /\ cnsl_buff_pos' \in Nat
    BY <2>3, SlotNumber DEF Typed, TypeOK, KeepsBuffer, Slots
  <2>5. line < cnsl_buff_pos' /\ line \in 0 .. cnsl_buff_pos - 1
    BY <2>2, <2>4 DEF KeepsBuffer
  <2>6. Part(0, line)' = Part(0, line)
    <3>1. \A i \in 1 .. line - 0 : 0 + i - 1 \in 0 .. cnsl_buff_pos - 1
      BY <2>2, <2>4
    <3>. QED  BY <3>1 DEF Part, KeepsBuffer
  <2>. QED  BY <2>1, <2>2, <2>3, <2>5, <2>6 DEF KeepsBuffer
<1>. QED  BY <1>1 DEF Working, RunnersStay

(* So is the text dense, if no NUL is typed. *)
LEMMA DenseStays ==
  ASSUME Typed, Dense, RunnersStay, KeepsBuffer,
         \A j \in cnsl_buff_pos .. cnsl_buff_pos' - 1 : cnsl_line_buff'[j] # Nul
  PROVE  Dense'
<1>1. cnsl_buff_pos \in Nat /\ cnsl_buff_pos' \in Nat
  BY SlotNumber DEF Typed, TypeOK, KeepsBuffer, Slots
<1>2. \A j \in 0 .. cnsl_buff_pos' - 1 :
        j \in 0 .. cnsl_buff_pos - 1 \/ j \in cnsl_buff_pos .. cnsl_buff_pos' - 1
  BY <1>1, Before
<1>3. ASSUME NEW j \in 0 .. cnsl_buff_pos' - 1, cnsl_line_buff'[j] = Nul
      PROVE  \E k \in Runners' : calls'[k].line = j
  <2>1. j \in 0 .. cnsl_buff_pos - 1
    BY <1>2, <1>3
  <2>2. cnsl_line_buff[j] = Nul
    BY <1>3, <2>1 DEF KeepsBuffer
  <2>3. PICK k \in Runners : calls[k].line = j
    BY <2>1, <2>2 DEF Dense
  <2>. QED  BY <2>3 DEF RunnersStay
<1>. QED  BY <1>3 DEF Dense

(* The commands are remembered, unless a line is given to cnsl_interpret or *)
(* a command repeated.                                                      *)
LEMMA RememberedStays ==
  ASSUME Remembered, UNCHANGED <<cnsl_last_command, cnsl_repeated_command, ran, did>>,
         calls' # <<>> /\ calls'[1].stage = "repeat" =>
           calls # <<>> /\ calls[1].stage = "repeat"
  PROVE  Remembered'
BY DEF Remembered, Given
-----------------------------------------------------------------------------
\* ----- The actions.
(* What the types say of numbers. *)
LEMMA Numbers ==
  ASSUME Typed
  PROVE  /\ Size \in Nat /\ Size > 0 /\ cnsl_buff_pos \in Nat /\ cnsl_buff_pos <= Size
         /\ \A j \in 0 .. cnsl_buff_pos - 1 : j \in Slots
         /\ cnsl_line_buff \in [Slots -> Char \cup {Nul}]
         /\ ~outside /\ cnsl_line_buff[Size] = Nul
<1>1. Size \in Nat /\ Size > 0
  BY Constants
<1>. QED  BY <1>1 DEF Typed, TypeOK, Slots

(* A character that is looked at is in the buffer. *)
LEMMA Looks ==
  ASSUME IInv, Edit
  PROVE  /\ calls # <<>> /\ Top.stage = "edit" /\ Top \in Call
         /\ Top.i \in 0 .. cnsl_buff_pos - 1 /\ Top.i \in Slots /\ Top.i < Size
<1>1. calls # <<>> /\ Top.stage = "edit" /\ Top.i < cnsl_buff_pos
  BY DEF Edit, Goes, At
<1>2. Top \in Call /\ Top.i >= 0
  BY <1>1, TopIs DEF IInv, Ordered, CallOK
<1>3. Top.i \in Int
  BY <1>2, Constants DEF Call
<1>. QED  BY <1>1, <1>2, <1>3, Numbers DEF IInv

(* Of a backspace the loop removes nothing but itself and, by the position, *)
(* the key before it.                                                       *)
LEMMA ShiftedIs ==
  ASSUME IInv, Edit, cnsl_line_buff[Top.i] = Backspace
  PROVE  /\ Len(calls) = 1 /\ calls[1] = Top /\ Top.i = cnsl_buff_pos - 1
         /\ cnsl_line_buff' = cnsl_line_buff
         /\ cnsl_buff_pos' = IF Top.i > 0 THEN Top.i - 1 ELSE 0
         /\ calls' = SetTop([Top EXCEPT !.stage = "echo", !.i = Top.i - 1])
         /\ \A k \in Slots : cnsl_line_buff[k] \notin Ends
<1>1. PICK i \in Nat : i = Top.i
  BY Looks
<1>2. PICK p \in Nat : p = cnsl_buff_pos
  BY Numbers DEF IInv
<1>3. i = p - 1 /\ Len(calls) = 1 /\ \A k \in Slots : cnsl_line_buff[k] \notin Ends
  BY <1>1, <1>2, Looks DEF IInv, Ordered, Erasing
<1>4. /\ cnsl_line_buff' = Shifted(i) /\ cnsl_buff_pos' = p - (IF i > 0 THEN 2 ELSE 1)
      /\ calls' = SetTop([Top EXCEPT !.stage = "echo", !.i = Top.i - 1])
  BY <1>1, <1>2 DEF Edit
<1>5. \A k, gap \in Nat : k + gap \notin i .. p - 2
  BY <1>3
<1>6. Shifted(i) = cnsl_line_buff
  <2>1. ASSUME NEW k \in Slots
        PROVE  k + (IF i > 0 THEN 1 ELSE 0) \notin i .. cnsl_buff_pos - 2
    BY <1>2, <1>5, SlotNumber
  <2>2. Shifted(i) = [k \in Slots |-> cnsl_line_buff[k]]
    BY <2>1 DEF Shifted
  <2>. QED  BY <2>2, Numbers DEF IInv
<1>7. cnsl_buff_pos' = IF i > 0 THEN i - 1 ELSE 0
  BY <1>3, <1>4
<1>8. calls[1] = Top
  BY <1>3, TopIs, Looks DEF IInv, Ordered
<1>. QED  BY <1>1, <1>2, <1>3, <1>4, <1>6, <1>7, <1>8

\* What no key, echo or output touches.
Aside ==
  /\ ~outside'
  /\ UNCHANGED <<cnsl_last_command, cnsl_repeated_command, repeat_command, ran, did, known>>

(* A buffer in its place, and calls that are calls, is all the types ask. *)
LEMMA TypedStays ==
  ASSUME Typed, Aside, calls' \in Seq(Call), cnsl_buff_pos' \in Slots,
         cnsl_line_buff' \in [Slots -> Char \cup {Nul}], cnsl_line_buff'[Size] = Nul
  PROVE  Typed'
BY DEF Typed, TypeOK, Aside, Slots

(* A call goes on through its loop; the position may go back, if nothing    *)
(* was there that must not get lost.                                        *)
LEMMA LoopKeeps ==
  ASSUME IInv, Aside, cnsl_line_buff' = cnsl_line_buff,
         calls # <<>>, Top.stage \in {"edit", "echo"},
         NEW call \in Call, call.stage \in {"edit", "echo"}, CallOK(call),
         calls' = SetTop(call),
         \A j \in 0 .. cnsl_buff_pos' - 1 : cnsl_line_buff[j] # Backspace,
         \/ cnsl_buff_pos' = cnsl_buff_pos
         \/ /\ Len(calls) = 1 /\ \A k \in Slots : cnsl_line_buff[k] \notin Ends
            /\ cnsl_buff_pos' \in Slots /\ cnsl_buff_pos' <= cnsl_buff_pos
  PROVE  Typed' /\ Ordered' /\ RunnersStay
<1>1. PICK n : n = Len(calls)
  OBVIOUS
<1>2. n \in Nat /\ n >= 1 /\ n \in 1 .. n /\ calls[n] = Top
  BY <1>1, TopIs DEF IInv, Ordered
<1>3. /\ Nested' /\ calls' \in Seq(Call) /\ calls' # <<>> /\ Len(calls') = n
      /\ DOMAIN calls' = 1 .. n /\ DOMAIN calls = 1 .. n
      /\ calls'[n] = call /\ \A k \in 1 .. n - 1 : calls'[k] = calls[k]
  BY <1>1, GoesOn DEF IInv, Ordered
<1>4. RunnersStay
  BY <1>2, <1>3, RunnersGoOn DEF SameTo
<1>5. IF n = 1 THEN calls[1] = Top /\ calls'[1] = call
      ELSE calls'[1] = calls[1] /\ calls[1].stage \in {"echo", "run", "repeat"}
  <2>1. CASE n = 1
    BY <1>2, <1>3, <2>1
  <2>2. CASE n # 1
    <3>1. 1 \in 1 .. n - 1
      BY <1>2, <2>2
    <3>. QED  BY <1>1, <1>3, <2>2, <3>1, TopIs DEF IInv, Ordered
  <2>. QED  BY <2>1, <2>2
<1>6. PICK p \in Nat : p = cnsl_buff_pos
  BY Numbers DEF IInv
<1>7. p \in Slots /\ cnsl_buff_pos' \in Slots
  BY <1>6 DEF IInv, Typed, TypeOK, Slots
<1>8. Typed'
  BY <1>3, <1>7, TypedStays DEF IInv, Typed, TypeOK
<1>9. Working' /\ Dense'
  <2>1. CASE cnsl_buff_pos' = cnsl_buff_pos
    <3>1. KeepsBuffer
      BY <1>6, <1>7, <2>1 DEF KeepsBuffer
    <3>2. \A j \in cnsl_buff_pos .. cnsl_buff_pos' - 1 : FALSE
      BY <1>6, <2>1
    <3>3. Working'
      BY <1>4, <3>1, WorkingStays DEF IInv, Ordered, Working, Aside
    <3>. QED  BY <1>4, <3>1, <3>2, <3>3, DenseStays DEF IInv, Ordered
  <2>2. CASE n = 1 /\ cnsl_buff_pos' <= cnsl_buff_pos
    <3>1. Runners = {} /\ Runners' = {}
      BY <1>3, <1>4, <1>5, <2>2 DEF Runners, RunnersStay
    <3>2. \A j \in 0 .. cnsl_buff_pos' - 1 : j \in 0 .. cnsl_buff_pos - 1
      <4>1. PICK q \in Nat : q = cnsl_buff_pos' /\ q <= p
        BY <1>6, <1>7, <2>2, SlotNumber
      <4>2. \A j \in 0 .. q - 1 : j \in 0 .. p - 1
        BY <4>1, Within
      <4>. QED  BY <1>6, <4>1, <4>2
    <3>3. \A j \in 0 .. cnsl_buff_pos - 1 : cnsl_line_buff[j] # Nul
      BY <3>1 DEF Dense, IInv, Ordered
    <3>4. Dense'
      BY <3>2, <3>3 DEF Dense
    <3>. QED  BY <3>1, <3>4 DEF Working
  <2>. QED  BY <1>1, <2>1, <2>2
<1>10. Ending'
  <2>1. ASSUME NEW j \in Slots, cnsl_line_buff[j] \in Ends
        PROVE  /\ j < cnsl_buff_pos' /\ calls'[1].stage \in {"edit", "echo"}
    <3>1. cnsl_buff_pos' = cnsl_buff_pos
      BY <2>1
    <3>2. j < cnsl_buff_pos /\ calls[1].stage \in {"edit", "echo"}
      BY <2>1 DEF IInv, Ordered, Ending
    <3>. QED  BY <1>5, <3>1, <3>2
  <2>. QED  BY <1>3, <2>1 DEF Ending, IInv, Ordered
<1>11. Erasing'
  BY DEF Erasing
<1>12. Remembered'
  BY <1>5, RememberedStays DEF IInv, Ordered, Aside
<1>. QED  BY <1>3, <1>4, <1>8, <1>9, <1>10, <1>11, <1>12 DEF Ordered

(* A call looks at a character of the buffer and echoes it. *)
LEMMA EditKeeps == ASSUME IInv, Edit PROVE Typed' /\ Ordered' /\ RunnersStay
<1>1. PICK i \in Nat : i = Top.i
  BY Looks
<1>2. PICK p \in Nat : p = cnsl_buff_pos
  BY Numbers DEF IInv
<1>3. i < p /\ i \in Slots /\ i < Size /\ Top.stage = "edit" /\ Top \in Call /\ calls # <<>>
  BY <1>1, <1>2, Looks
<1>4. Aside
  BY DEF Edit, Goes, Aside, commands, history
<1>5. CASE cnsl_line_buff[i] # Backspace
  <2>1. PICK call : call = [Top EXCEPT !.stage = "echo"]
    OBVIOUS
  <2>2. call \in Call /\ call.stage = "echo" /\ call.i = i
    BY <1>1, <1>3, <2>1 DEF Call, Stages
  <2>3. calls' = SetTop(call) /\ UNCHANGED <<cnsl_line_buff, cnsl_buff_pos>>
    BY <1>1, <1>5, <2>1 DEF Edit, buffer
  <2>4. CallOK(call)
    BY <1>3, <2>2 DEF CallOK
  <2>5. ASSUME NEW j \in 0 .. cnsl_buff_pos - 1 PROVE cnsl_line_buff[j] # Backspace
    <3>1. CASE cnsl_line_buff[j] = Backspace
      <4>1. Len(calls) = 1 /\ calls[1].i = j
        BY <3>1 DEF IInv, Ordered, Erasing
      <4>2. Top = calls[1]
        BY <1>3, <4>1, TopIs DEF IInv, Ordered
      <4>. QED  BY <1>1, <1>5, <3>1, <4>1, <4>2
    <3>. QED  BY <3>1
  <2>6. \A j \in 0 .. cnsl_buff_pos' - 1 : cnsl_line_buff[j] # Backspace
    BY <2>3, <2>5
  <2>. QED  BY <1>3, <1>4, <2>2, <2>3, <2>4, <2>6, LoopKeeps
<1>6. CASE cnsl_line_buff[i] = Backspace
  <2>1. PICK call : call = [Top EXCEPT !.stage = "echo", !.i = Top.i - 1]
    OBVIOUS
  <2>2. call \in Call /\ call.stage = "echo" /\ call.i = i - 1
    <3>1. i - 1 \in -1 .. Size
      BY <1>3, Constants
    <3>. QED  BY <1>1, <1>3, <2>1, <3>1 DEF Call, Stages
  <2>3. /\ Len(calls) = 1 /\ calls[1] = Top /\ i = p - 1
        /\ cnsl_line_buff' = cnsl_line_buff
        /\ cnsl_buff_pos' = IF i > 0 THEN i - 1 ELSE 0
        /\ calls' = SetTop(call)
        /\ \A k \in Slots : cnsl_line_buff[k] \notin Ends
    BY <1>1, <1>2, <1>6, <2>1, ShiftedIs
  <2>4. CallOK(call)
    <3>1. i - 1 < Size
      BY <1>3, Constants
    <3>. QED  BY <2>2, <3>1 DEF CallOK
  <2>5. cnsl_buff_pos' \in Nat /\ cnsl_buff_pos' <= i
    BY <2>3
  <2>6. cnsl_buff_pos' \in Slots /\ cnsl_buff_pos' <= p
    BY <1>3, <2>3, <2>5, Constants DEF Slots
  <2>7. ASSUME NEW j \in 0 .. cnsl_buff_pos' - 1 PROVE cnsl_line_buff[j] # Backspace
    <3>1. j \in 0 .. p - 1 /\ j # p - 1
      BY <2>3, <2>5
    <3>. QED  BY <1>2, <3>1 DEF IInv, Ordered, Erasing
  <2>. QED  BY <1>2, <1>3, <1>4, <2>2, <2>3, <2>4, <2>6, <2>7, LoopKeeps
<1>. QED  BY <1>5, <1>6

(* An echo is done, and the next character comes. *)
LEMMA EchoedKeeps == ASSUME IInv, Echoed PROVE Typed' /\ Ordered' /\ RunnersStay
<1>1. calls # <<>> /\ Top.stage = "echo" /\ Aside /\ UNCHANGED <<cnsl_line_buff, cnsl_buff_pos>>
  BY DEF Echoed, Goes, At, Aside, buffer, commands, history
<1>2. PICK call : call = [Top EXCEPT !.stage = "edit", !.i = Top.i + 1]
  OBVIOUS
<1>3. calls' = SetTop(call)
  BY <1>2 DEF Echoed
<1>4. Top \in Call /\ Top.i < Size
  BY <1>1, TopIs DEF IInv, Ordered, CallOK
<1>5. Top.i \in -1 .. Size /\ Size \in Nat
  BY <1>4, Constants DEF Call
<1>6. Top.i + 1 \in -1 .. Size /\ Top.i + 1 >= 0
  BY <1>4, <1>5
<1>7. call \in Call /\ call.stage = "edit" /\ call.i = Top.i + 1
  BY <1>2, <1>4, <1>6 DEF Call, Stages
<1>8. CallOK(call)
  BY <1>6, <1>7 DEF CallOK
<1>9. \A j \in 0 .. cnsl_buff_pos - 1 : cnsl_line_buff[j] # Backspace
  <2>1. Len(calls) = 1 => calls[1].stage = "echo"
    BY <1>1, TopIs DEF IInv, Ordered
  <2>. QED  BY <2>1 DEF IInv, Ordered, Erasing
<1>. QED  BY <1>1, <1>3, <1>7, <1>8, <1>9, LoopKeeps

(* A call ends that has nothing to do with a line. *)
LEMMA LeaveKeeps ==
  ASSUME IInv, Aside, calls # <<>>, calls' = Front(calls),
         Top.stage \notin {"run", "done"},
         UNCHANGED <<cnsl_line_buff, cnsl_buff_pos>>,
         Len(calls) = 1 => \A k \in Slots : cnsl_line_buff[k] \notin Ends,
         \A j \in 0 .. cnsl_buff_pos - 1 : cnsl_line_buff[j] # Backspace
  PROVE  Typed' /\ Ordered' /\ RunnersStay
<1>1. PICK n : n = Len(calls)
  OBVIOUS
<1>2. n \in Nat /\ n >= 1 /\ calls[n] = Top
  BY <1>1, TopIs DEF IInv, Ordered
<1>3. /\ Nested' /\ calls' \in Seq(Call) /\ Len(calls') = n - 1
      /\ DOMAIN calls' = 1 .. n - 1 /\ DOMAIN calls = 1 .. n
      /\ \A k \in 1 .. n - 1 : calls'[k] = calls[k]
  BY <1>1, CallEnds DEF IInv, Ordered
<1>4. RunnersStay
  BY <1>2, <1>3, RunnersEnd DEF SameTo
<1>5. calls' # <<>> => n # 1 /\ calls'[1] = calls[1]
  <2>. SUFFICES ASSUME calls' # <<>> PROVE n # 1 /\ calls'[1] = calls[1]
    OBVIOUS
  <2>1. n - 1 # 0
    BY <1>3
  <2>2. 1 \in 1 .. n - 1
    BY <1>2, <2>1
  <2>. QED  BY <1>2, <1>3, <2>1, <2>2
<1>6. n # 1 => calls' # <<>>
  BY <1>2, <1>3
<1>7. KeepsBuffer
  <2>1. cnsl_buff_pos \in Nat /\ cnsl_buff_pos \in Slots
    BY Numbers DEF IInv, Typed, TypeOK, Slots
  <2>. QED  BY <2>1 DEF KeepsBuffer
<1>8. Typed'
  BY <1>3, <1>7, TypedStays DEF IInv, Typed, TypeOK, Slots
<1>9. Working' /\ Dense'
  <2>1. \A j \in cnsl_buff_pos .. cnsl_buff_pos' - 1 : FALSE
    <3>1. cnsl_buff_pos \in Nat
      BY Numbers DEF IInv
    <3>. QED  BY <3>1
  <2>2. Working'
    BY <1>4, <1>7, WorkingStays DEF IInv, Ordered, Working, Aside
  <2>. QED  BY <1>4, <1>7, <2>1, <2>2, DenseStays DEF IInv, Ordered
<1>10. Ending'
  BY <1>1, <1>5, <1>6 DEF Ending, IInv, Ordered
<1>11. Erasing'
  BY DEF Erasing
<1>12. Remembered'
  <2>1. calls # <<>> /\ (calls' # <<>> => calls'[1] = calls[1])
    BY <1>5
  <2>. QED  BY <2>1, RememberedStays DEF IInv, Ordered, Aside
<1>. QED  BY <1>3, <1>4, <1>8, <1>9, <1>10, <1>11, <1>12 DEF Ordered

(* The output of a repeated command is done. *)
LEMMA RepeatedKeeps == ASSUME IInv, Repeated PROVE Typed' /\ Ordered' /\ RunnersStay
<1>1. /\ calls # <<>> /\ Top.stage = "repeat" /\ Aside
      /\ UNCHANGED <<cnsl_line_buff, cnsl_buff_pos>> /\ calls' = <<>>
  BY DEF Repeated, Goes, At, Aside, buffer, commands, history
<1>2. Len(calls) = 1 /\ calls[1].stage = "repeat"
  BY <1>1, TopIs DEF IInv, Ordered, Nested
<1>3. calls' = Front(calls)
  BY <1>1, <1>2 DEF Front
<1>4. \A k \in Slots : cnsl_line_buff[k] \notin Ends
  BY <1>2 DEF IInv, Ordered, Ending
<1>5. \A j \in 0 .. cnsl_buff_pos - 1 : cnsl_line_buff[j] # Backspace
  BY <1>2 DEF IInv, Ordered, Erasing
<1>. QED  BY <1>1, <1>3, <1>4, <1>5, LeaveKeeps
-----------------------------------------------------------------------------
\* ----- A key comes.
(* A key is stored, or there is no room for it. *)
LEMMA KeyComes ==
  ASSUME IInv, NEW chunk \in Chunks, Receive(chunk)
  PROVE  \E c \in Char :
    /\ chunk = <<c>> /\ Aside
    /\ \/ /\ calls = <<>> /\ cnsl_buff_pos = Size
          /\ calls' = <<[stage |-> "overflow", chunk |-> chunk, i |-> 0, line |-> 0]>>
          /\ UNCHANGED <<cnsl_line_buff, cnsl_buff_pos>>
       \/ /\ cnsl_buff_pos < Size /\ cnsl_buff_pos' = cnsl_buff_pos + 1
          /\ cnsl_line_buff' = [k \in Slots |-> IF k = cnsl_buff_pos THEN c
                                                ELSE cnsl_line_buff[k]]
          /\ calls' = Append(calls, [stage |-> "edit", chunk |-> <<>>,
                                     i |-> cnsl_buff_pos, line |-> 0])
          /\ calls # <<>> => c \in Letters /\ Top.stage \in {"echo", "run", "repeat"}
<1>1. PICK c \in Char : chunk = <<c>>
  BY DEF IInv, KeyByKey
<1>2. Len(chunk) = 1 /\ chunk[1] = c
  BY <1>1
<1>3. PICK p \in Nat : p = cnsl_buff_pos /\ p <= Size /\ Size \in Nat /\ Size > 0 /\ ~outside
  BY Numbers DEF IInv
<1>4. outside' \/ Aside
  BY DEF Receive, Aside, commands
<1>5. TooLong(1) <=> p = Size
  <2>1. TooLong(1) <=> p + 1 > Size \/ p + 1 < 0
    BY <1>3 DEF TooLong
  <2>. QED  BY <1>3, <2>1
<1>6. calls # <<>> =>
        c \in Letters /\ p < Size /\ Top.stage \in {"echo", "run", "repeat"}
  <2>. SUFFICES ASSUME calls # <<>>
                PROVE  c \in Letters /\ p < Size /\ Top.stage \in {"echo", "run", "repeat"}
    OBVIOUS
  <2>1. Top.stage \in Prints /\ chunk \in Seq(Letters) /\ ~TooLong(1)
    BY <1>2 DEF Receive, IInv, KeyByKey
  <2>2. c \in Letters
    BY <1>2, <2>1
  <2>3. p < Size
    BY <1>3, <1>5, <2>1
  <2>4. Top.stage # "overflow"
    BY <1>3, <2>3 DEF IInv, Ordered, Nested, At
  <2>. QED  BY <2>1, <2>2, <2>3, <2>4 DEF Prints
<1>7. CASE TooLong(1)
  <2>1. calls = <<>>
    BY <1>3, <1>5, <1>6, <1>7
  <2>2. /\ calls' = Append(calls, [stage |-> "overflow", chunk |-> chunk, i |-> 0, line |-> 0])
        /\ UNCHANGED <<buffer, outside>>
    BY <1>2, <1>7 DEF Receive
  <2>3. calls' = <<[stage |-> "overflow", chunk |-> chunk, i |-> 0, line |-> 0]>>
    BY <2>1, <2>2
  <2>4. ~outside' /\ UNCHANGED <<cnsl_line_buff, cnsl_buff_pos>>
    BY <1>3, <2>2 DEF buffer
  <2>. QED  BY <1>1, <1>3, <1>4, <1>5, <1>7, <2>1, <2>3, <2>4
<1>8. CASE ~TooLong(1)
  <2>1. PICK new : new = Store(cnsl_line_buff, p, chunk)
    OBVIOUS
  <2>2. /\ cnsl_line_buff' = new.buff /\ cnsl_buff_pos' = p + 1
        /\ calls' = Append(calls, new.call) /\ outside' = (p < 0)
    BY <1>2, <1>3, <1>8, <2>1 DEF Receive
  <2>3. new.call = [stage |-> "edit", chunk |-> <<>>, i |-> p, line |-> 0]
    BY <2>1 DEF Store
  <2>4. new.buff = [k \in Slots |-> IF k = p THEN c ELSE cnsl_line_buff[k]]
    <3>1. new.buff = [k \in Slots |-> IF k \in p .. p + 1 - 1
                                      THEN chunk[k - p + 1] ELSE cnsl_line_buff[k]]
      BY <1>2, <2>1 DEF Store
    <3>2. ASSUME NEW k \in Slots
          PROVE  (k \in p .. p + 1 - 1 <=> k = p) /\ (k = p => k - p + 1 = 1)
      BY <1>3, SlotNumber
    <3>. QED  BY <1>2, <3>1, <3>2
  <2>5. ~outside' /\ p < Size
    <3>1. ~(p < 0) /\ (p # Size => p < Size)
      BY <1>3
    <3>. QED  BY <1>5, <1>8, <2>2, <3>1
  <2>. QED  BY <1>1, <1>3, <1>4, <1>6, <2>2, <2>3, <2>4, <2>5
<1>. QED  BY <1>7, <1>8

(* A key that is stored comes behind all others. *)
LEMMA StoreKeeps ==
  ASSUME IInv, Aside, NEW c \in Char, cnsl_buff_pos < Size,
         cnsl_buff_pos' = cnsl_buff_pos + 1,
         cnsl_line_buff' = [k \in Slots |-> IF k = cnsl_buff_pos THEN c
                                            ELSE cnsl_line_buff[k]],
         calls' = Append(calls, [stage |-> "edit", chunk |-> <<>>,
                                 i |-> cnsl_buff_pos, line |-> 0]),
         calls # <<>> => c \in Letters /\ Top.stage \in {"echo", "run", "repeat"}
  PROVE  Typed' /\ Ordered' /\ RunnersStay
<1>1. PICK n : n = Len(calls)
  OBVIOUS
<1>2. PICK p \in Nat : p = cnsl_buff_pos /\ p < Size /\ Size \in Nat
  BY Numbers DEF IInv
<1>3. PICK call : call = [stage |-> "edit", chunk |-> <<>>, i |-> p, line |-> 0]
  OBVIOUS
<1>4. /\ call \in Call /\ call.stage = "edit" /\ CallOK(call) /\ call.i = p
  <2>1. p \in -1 .. Size /\ 0 \in Slots /\ p >= 0 /\ <<>> \in Seq(Char)
    BY <1>2, Constants
  <2>. QED  BY <1>3, <2>1 DEF Call, Stages, CallOK
<1>5. /\ Nested' /\ calls' \in Seq(Call) /\ calls' # <<>> /\ n \in Nat
      /\ Len(calls') = n + 1 /\ DOMAIN calls' = 1 .. n + 1 /\ DOMAIN calls = 1 .. n
      /\ calls'[n + 1] = call /\ \A k \in 1 .. n : calls'[k] = calls[k]
  BY <1>1, <1>2, <1>3, <1>4, Begins DEF IInv, Ordered
<1>6. RunnersStay
  BY <1>4, <1>5, RunnersBegin DEF SameTo
<1>7. IF calls = <<>> THEN calls'[1] = call /\ n = 0
      ELSE n # 0 /\ calls'[1] = calls[1]
  <2>1. calls = <<>> <=> n = 0
    BY <1>1 DEF IInv, Typed, TypeOK
  <2>2. n # 0 => 1 \in 1 .. n
    BY <1>5
  <2>. QED  BY <1>5, <2>1, <2>2
<1>8. p \in Slots /\ p + 1 \in Slots /\ p # Size
  BY <1>2, Constants DEF Slots
<1>9. /\ cnsl_line_buff' = [k \in Slots |-> IF k = p THEN c ELSE cnsl_line_buff[k]]
      /\ cnsl_buff_pos' = p + 1 /\ cnsl_buff_pos = p
  BY <1>2
<1>10. cnsl_line_buff'[p] = c /\ \A j \in Slots : j # p => cnsl_line_buff'[j] = cnsl_line_buff[j]
  BY <1>8, <1>9
<1>11. \A j \in 0 .. p - 1 : j \in Slots /\ j # p
  BY <1>2, <1>9, Numbers DEF IInv
<1>12. KeepsBuffer
  <2>1. p + 1 >= p
    BY <1>2
  <2>. QED  BY <1>8, <1>9, <1>10, <1>11, <2>1 DEF KeepsBuffer
<1>13. Typed'
  <2>1. cnsl_line_buff' \in [Slots -> Char \cup {Nul}]
    BY <1>9, Numbers DEF IInv
  <2>2. cnsl_line_buff'[Size] = Nul
    BY <1>8, <1>10, Numbers, Constants DEF IInv
  <2>. QED  BY <1>5, <1>8, <1>9, <2>1, <2>2, TypedStays DEF IInv
<1>14. \A j \in Slots : cnsl_line_buff'[j] \in Ends => j = p \/ cnsl_line_buff[j] \in Ends
  BY <1>10
<1>15. c \in Ends \/ c = Backspace => calls = <<>>
  BY Constants
<1>16. calls = <<>> => /\ \A j \in Slots : cnsl_line_buff[j] \notin Ends
                       /\ \A j \in 0 .. p - 1 : cnsl_line_buff[j] # Backspace
  <2>1. calls = <<>> => Len(calls) # 1
    OBVIOUS
  <2>. QED  BY <1>9, <2>1 DEF IInv, Ordered, Ending, Erasing
<1>17. Working'
  <2>1. ASSUME Runners # {} PROVE \A j \in Slots : cnsl_line_buff'[j] \notin Ends
    <3>1. calls # <<>>
      BY <2>1 DEF Runners
    <3>2. c \notin Ends /\ \A j \in Slots : cnsl_line_buff[j] \notin Ends
      BY <1>15, <2>1, <3>1 DEF IInv, Ordered, Working
    <3>. QED  BY <1>10, <3>2
  <2>. QED  BY <1>6, <1>12, <2>1, WorkingStays DEF IInv, Ordered, Aside
<1>18. Dense'
  <2>1. \A j \in p .. p + 1 - 1 : j = p
    BY <1>2
  <2>2. c # Nul
    BY Constants
  <2>. QED  BY <1>6, <1>9, <1>10, <1>12, <2>1, <2>2, DenseStays DEF IInv, Ordered
<1>19. Ending'
  <2>1. ASSUME NEW j \in Slots, cnsl_line_buff'[j] \in Ends
        PROVE  j < p + 1 /\ calls'[1].stage \in {"edit", "echo"}
    <3>1. CASE calls = <<>>
      <4>1. j = p
        BY <1>14, <1>16, <2>1, <3>1
      <4>. QED  BY <1>2, <1>4, <1>7, <3>1, <4>1
    <3>2. CASE calls # <<>>
      <4>1. cnsl_line_buff[j] \in Ends
        BY <1>10, <1>15, <2>1, <3>2
      <4>2. j < p /\ calls[1].stage \in {"edit", "echo"}
        BY <1>9, <4>1 DEF IInv, Ordered, Ending
      <4>3. j < p + 1
        BY <1>2, <4>2, SlotNumber
      <4>. QED  BY <1>7, <3>2, <4>2, <4>3
    <3>. QED  BY <3>1, <3>2
  <2>2. ASSUME NEW j \in Slots, NEW k \in Slots,
               cnsl_line_buff'[j] \in Ends, cnsl_line_buff'[k] \in Ends
        PROVE  j = k
    <3>1. CASE calls = <<>>
      BY <1>14, <1>16, <2>2, <3>1
    <3>2. CASE calls # <<>>
      <4>1. cnsl_line_buff[j] \in Ends /\ cnsl_line_buff[k] \in Ends
        BY <1>10, <1>15, <2>2, <3>2
      <4>. QED  BY <4>1 DEF IInv, Ordered, Ending
    <3>. QED  BY <3>1, <3>2
  <2>. QED  BY <1>5, <1>9, <2>1, <2>2 DEF Ending
<1>20. Erasing'
  <2>1. ASSUME NEW j \in 0 .. p + 1 - 1, cnsl_line_buff'[j] = Backspace
        PROVE  /\ j = p + 1 - 1 /\ n + 1 = 1 /\ calls'[1].stage = "edit" /\ calls'[1].i = j
               /\ \A k \in Slots : cnsl_line_buff'[k] \notin Ends
    <3>1. j = p \/ j \in 0 .. p - 1
      BY <1>2
    <3>2. CASE j = p
      <4>1. calls = <<>> /\ c = Backspace
        BY <1>10, <1>15, <2>1, <3>2
      <4>2. \A k \in Slots : cnsl_line_buff'[k] \notin Ends
        BY <1>10, <1>16, <4>1, Constants
      <4>3. j = p + 1 - 1 /\ n + 1 = 1
        BY <1>2, <1>7, <3>2, <4>1
      <4>. QED  BY <1>4, <1>7, <3>2, <4>1, <4>2, <4>3
    <3>3. CASE j \in 0 .. p - 1
      <4>1. cnsl_line_buff[j] = Backspace
        BY <1>10, <1>11, <2>1, <3>3
      <4>2. Len(calls) = 1 /\ calls[1].stage = "edit"
        BY <1>9, <3>3, <4>1 DEF IInv, Ordered, Erasing
      <4>3. calls # <<>> /\ Top.stage = "edit"
        BY <1>16, <3>3, <4>1, <4>2, TopIs DEF IInv, Ordered
      <4>. QED  BY <4>3
    <3>. QED  BY <3>1, <3>2, <3>3
  <2>. QED  BY <1>5, <1>9, <2>1 DEF Erasing
<1>21. Remembered'
  <2>1. calls' # <<>> /\ calls'[1].stage = "repeat" =>
          calls # <<>> /\ calls[1].stage = "repeat"
    BY <1>4, <1>7
  <2>. QED  BY <2>1, RememberedStays DEF IInv, Ordered, Aside
<1>. QED  BY <1>5, <1>6, <1>13, <1>17, <1>18, <1>19, <1>20, <1>21 DEF Ordered

\* Nothing is under way but one call, at the stage that is named.
Only(call) == calls' = <<call>> /\ call \in Call /\ CallOK(call)

(* What is known of a single call. *)
LEMMA OnlyNested ==
  ASSUME NEW call, Only(call), call.stage = "overflow" => cnsl_buff_pos' = Size
  PROVE  /\ Nested' /\ calls' \in Seq(Call) /\ calls' # <<>> /\ Len(calls') = 1
         /\ calls'[1] = call /\ DOMAIN calls' = 1 .. 1
<1>1. /\ calls' \in Seq(Call) /\ calls' # <<>> /\ Len(calls') = 1
      /\ calls'[1] = call /\ DOMAIN calls' = 1 .. 1
  BY DEF Only
<1>2. \A k \in 1 .. 1 : k = 1
  OBVIOUS
<1>3. Stacked(calls', 1)
  BY <1>1, <1>2 DEF Stacked, Only
<1>. QED  BY <1>1, <1>3, StackedNested

(* A key that does not fit. *)
LEMMA OverflowKeeps ==
  ASSUME IInv, Aside, NEW c \in Char, calls = <<>>, cnsl_buff_pos = Size,
         UNCHANGED <<cnsl_line_buff, cnsl_buff_pos>>,
         calls' = <<[stage |-> "overflow", chunk |-> <<c>>, i |-> 0, line |-> 0]>>
  PROVE  Typed' /\ Ordered' /\ RunnersStay
<1>1. PICK call : call = [stage |-> "overflow", chunk |-> <<c>>, i |-> 0, line |-> 0]
  OBVIOUS
<1>2. call.stage = "overflow" /\ Only(call)
  <2>1. 0 \in -1 .. Size /\ 0 \in Slots /\ <<c>> \in Seq(Char)
    BY Constants
  <2>. QED  BY <1>1, <2>1 DEF Only, Call, Stages, CallOK
<1>3. /\ Nested' /\ calls' \in Seq(Call) /\ calls' # <<>> /\ Len(calls') = 1
      /\ calls'[1] = call /\ DOMAIN calls' = 1 .. 1
  BY <1>2, OnlyNested
<1>4. Runners = {} /\ Runners' = {}
  BY <1>2, <1>3 DEF Runners
<1>5. \A j \in Slots : cnsl_line_buff[j] \notin Ends
  BY DEF IInv, Ordered, Ending
<1>6. \A j \in 0 .. cnsl_buff_pos - 1 : cnsl_line_buff[j] # Backspace
  <2>1. Len(calls) # 1
    OBVIOUS
  <2>. QED  BY <2>1 DEF IInv, Ordered, Erasing
<1>7. Typed'
  BY <1>3, TypedStays DEF IInv, Typed, TypeOK, Slots
<1>8. Working' /\ Ending' /\ Erasing'
  BY <1>4, <1>5, <1>6 DEF Working, Ending, Erasing
<1>9. Dense'
  BY <1>4 DEF Dense, IInv, Ordered
<1>10. Remembered'
  BY <1>2, <1>3, RememberedStays DEF IInv, Ordered, Aside
<1>. QED  BY <1>3, <1>4, <1>7, <1>8, <1>9, <1>10 DEF Ordered, RunnersStay

(* A key comes, in the main loop or in an output. *)
LEMMA ReceiveKeeps ==
  ASSUME IInv, NEW chunk \in Chunks, Receive(chunk) PROVE Typed' /\ Ordered'
BY KeyComes, StoreKeeps, OverflowKeeps

\* A new terminal, or a line too long, has emptied the console.
Forgotten ==
  /\ ~outside' /\ cnsl_last_command' = <<>> /\ cnsl_repeated_command' = <<>>
  /\ UNCHANGED <<repeat_command, ran, did>>

(* The overflow is reported, and the key begins a new line. *)
LEMMA StartOverKeeps ==
  ASSUME IInv, StartOver
  PROVE  /\ Typed' /\ Ordered' /\ Runners' = {}
         /\ cnsl_buff_pos' = 1 /\ cnsl_line_buff'[0] \in Char
<1>1. calls # <<>> /\ Top.stage = "overflow" /\ Forgotten
  BY DEF StartOver, Goes, At, Forgotten
<1>2. Len(calls) = 1 /\ \E c \in Char : Top.chunk = <<c>>
  BY <1>1, TopIs DEF IInv, Ordered, Nested, CallOK
<1>3. PICK c \in Char : Top.chunk = <<c>>
  BY <1>2
<1>4. PICK call : call = [stage |-> "edit", chunk |-> <<>>, i |-> 0, line |-> 0]
  OBVIOUS
<1>5. /\ cnsl_line_buff' = [k \in Slots |-> IF k = 0 THEN c ELSE Nul]
      /\ cnsl_buff_pos' = 1 /\ calls' = SetTop(call)
  <2>1. PICK new : new = Store(Zeroed, 0, <<c>>)
    OBVIOUS
  <2>2. cnsl_line_buff' = new.buff /\ calls' = SetTop(new.call) /\ cnsl_buff_pos' = 1
    BY <1>3, <2>1 DEF StartOver
  <2>3. new.call = call /\ new.buff = [k \in Slots |-> IF k \in 0 .. 0 + 1 - 1
                                               THEN <<c>>[k - 0 + 1] ELSE Zeroed[k]]
    BY <1>4, <2>1 DEF Store
  <2>4. ASSUME NEW k \in Slots
        PROVE  (k \in 0 .. 0 + 1 - 1 <=> k = 0) /\ (k = 0 => <<c>>[k - 0 + 1] = c)
               /\ Zeroed[k] = Nul
    BY SlotNumber DEF Zeroed
  <2>. QED  BY <2>2, <2>3, <2>4
<1>6. call \in Call /\ call.stage = "edit" /\ call.i = 0 /\ CallOK(call)
  <2>1. 0 \in -1 .. Size /\ 0 \in Slots /\ <<>> \in Seq(Char)
    BY Constants
  <2>. QED  BY <1>4, <2>1 DEF Call, Stages, CallOK
<1>7. calls' = <<call>>
  <2>1. Front(calls) = <<>>
    BY <1>2 DEF Front
  <2>. QED  BY <1>5, <2>1 DEF SetTop
<1>8. /\ Nested' /\ calls' \in Seq(Call) /\ calls' # <<>> /\ Len(calls') = 1
      /\ calls'[1] = call /\ DOMAIN calls' = 1 .. 1
  BY <1>6, <1>7, OnlyNested DEF Only
<1>9. Runners' = {}
  BY <1>6, <1>8 DEF Runners
<1>10. cnsl_line_buff'[0] = c /\ \A j \in Slots : j # 0 => cnsl_line_buff'[j] = Nul
  BY <1>5, Constants
<1>11. \A j \in 0 .. 1 - 1 : j = 0
  OBVIOUS
<1>12. Typed'
  <2>1. 1 \in Slots /\ Size # 0
    BY Constants DEF Slots
  <2>2. cnsl_line_buff' \in [Slots -> Char \cup {Nul}]
    BY <1>5
  <2>. QED  BY <1>1, <1>5, <1>8, <1>10, <2>1, <2>2, Constants
            DEF IInv, Typed, TypeOK, Forgotten, Slots
<1>13. Working'
  BY <1>9 DEF Working
<1>14. \A j \in Slots : cnsl_line_buff'[j] \in Ends => j = 0
  BY <1>10, Constants
<1>15. Ending'
  <2>1. 0 < 1
    OBVIOUS
  <2>2. \A j \in Slots : cnsl_line_buff'[j] \in Ends => j < 1
    BY <1>14, <2>1
  <2>. QED  BY <1>5, <1>6, <1>8, <1>14, <2>2 DEF Ending
<1>16. Erasing'
  <2>1. ASSUME c = Backspace PROVE \A j \in Slots : cnsl_line_buff'[j] \notin Ends
    BY <1>10, <1>14, <2>1, Constants
  <2>2. 0 = 1 - 1
    OBVIOUS
  <2>. QED  BY <1>5, <1>6, <1>8, <1>10, <1>11, <2>1, <2>2 DEF Erasing
<1>17. Dense'
  BY <1>5, <1>10, <1>11, Constants DEF Dense
<1>18. Remembered'
  BY <1>1, <1>6, <1>8 DEF Remembered, Given, Forgotten
<1>. QED  BY <1>5, <1>8, <1>9, <1>10, <1>12, <1>13, <1>15, <1>16, <1>17, <1>18 DEF Ordered

(* A terminal connects, which only the main loop hears of. *)
LEMMA ConnectKeeps == ASSUME IInv, Connect PROVE Typed' /\ Ordered'
<1>1. calls = <<>> /\ calls' = <<>> /\ Forgotten
      /\ cnsl_line_buff' = Zeroed /\ cnsl_buff_pos' = 0
  BY DEF Connect, IInv, KeyByKey, Forgotten
<1>2. Nested'
  <2>1. Stacked(calls', 0)
    BY <1>1 DEF Stacked
  <2>. QED  BY <2>1, StackedNested
<1>3. \A j \in Slots : cnsl_line_buff'[j] = Nul
  BY <1>1 DEF Zeroed
<1>4. \A j \in 0 .. 0 - 1 : FALSE
  OBVIOUS
<1>5. Runners' = {}
  BY <1>1 DEF Runners
<1>6. Typed'
  <2>1. cnsl_line_buff' \in [Slots -> Char \cup {Nul}] /\ 0 \in 0 .. Size
    BY <1>1, Constants DEF Zeroed, Slots
  <2>. QED  BY <1>1, <1>3, <2>1, Constants DEF IInv, Typed, TypeOK, Forgotten
<1>7. Working' /\ Ending' /\ Erasing' /\ Dense'
  BY <1>1, <1>3, <1>4, <1>5, Constants DEF Working, Ending, Erasing, Dense
<1>8. Remembered'
  BY <1>1 DEF Remembered, Given, Forgotten
<1>. QED  BY <1>2, <1>6, <1>7, <1>8 DEF Ordered

(* The console is empty when it boots. *)
LEMMA Boots == ASSUME Init, KeyByKey PROVE IInv
<1>1. calls = <<>> /\ cnsl_line_buff = Zeroed /\ cnsl_buff_pos = 0
  BY DEF Init
<1>2. \A j \in Slots : cnsl_line_buff[j] = Nul
  BY <1>1 DEF Zeroed
<1>3. \A j \in 0 .. 0 - 1 : FALSE
  OBVIOUS
<1>4. Runners = {} /\ Nested
  BY <1>1 DEF Runners, Nested, At
<1>5. Typed
  <2>1. cnsl_line_buff \in [Slots -> Char \cup {Nul}] /\ 0 \in 0 .. Size
    BY <1>1, Constants DEF Zeroed, Slots
  <2>. QED  BY <1>1, <1>2, <2>1, Constants DEF Init, Typed, TypeOK
<1>6. Working /\ Ending /\ Erasing /\ Dense
  BY <1>1, <1>2, <1>3, <1>4, Constants DEF Working, Ending, Erasing, Dense
<1>7. Remembered
  BY <1>1 DEF Init, Remembered, Given
<1>. QED  BY <1>4, <1>5, <1>6, <1>7 DEF Ordered, IInv
-----------------------------------------------------------------------------
\* ----- A line ends.
(* What the loop leaves behind: no backspace, and at most one end of a line. *)
LEMMA LoopDone ==
  ASSUME IInv, FindLineEnd
  PROVE  /\ calls # <<>> /\ Top.stage = "edit" /\ Top \in Call
         /\ \A j \in 0 .. cnsl_buff_pos - 1 : cnsl_line_buff[j] # Backspace
<1>1. calls # <<>> /\ Top.stage = "edit" /\ Top.i >= cnsl_buff_pos
  BY DEF FindLineEnd, Goes, At
<1>2. Top \in Call
  BY <1>1, TopIs DEF IInv, Ordered
<1>3. PICK p \in Nat : p = cnsl_buff_pos
  BY Numbers DEF IInv
<1>4. ASSUME NEW j \in 0 .. p - 1, cnsl_line_buff[j] = Backspace PROVE FALSE
  <2>1. Len(calls) = 1 /\ calls[1].i = j
    BY <1>3, <1>4 DEF IInv, Ordered, Erasing
  <2>2. Top.i = j
    BY <1>1, <2>1, TopIs DEF IInv, Ordered
  <2>3. ~(j >= p)
    BY <1>3
  <2>. QED  BY <1>1, <1>3, <2>2, <2>3
<1>. QED  BY <1>1, <1>2, <1>3, <1>4

\* The call has found the end of a line and given it to cnsl_interpret.
Gives(line, stage) ==
  /\ line \in 0 .. cnsl_buff_pos - 1 /\ stage \in {"run", "done"}
  /\ cnsl_line_buff[line] \in Ends /\ Runners = {}
  /\ cnsl_line_buff' = [cnsl_line_buff EXCEPT ![line] = Nul]
  /\ cnsl_buff_pos' = cnsl_buff_pos /\ ~outside'
  /\ calls' = SetTop([Top EXCEPT !.line = line, !.stage = stage])
  /\ Part(0, line) \in Seq(Char) /\ ran' = Append(ran, Part(0, line))
  /\ did' = Runs(Part(0, line)) /\ known' = Part(0, line)
  /\ cnsl_last_command' = cnsl_last_command
  /\ cnsl_repeated_command' \in {cnsl_last_command, cnsl_repeated_command}
  /\ repeat_command' \in BOOLEAN

(* There is a line, which is what stands before its end, or there is none.  *)
LEMMA LineEnds ==
  ASSUME IInv, FindLineEnd
  PROVE  /\ connects' = connects
         /\ \/ /\ \A j \in Slots : cnsl_line_buff[j] \notin Ends
               /\ calls' = Front(calls) /\ Aside
               /\ UNCHANGED <<cnsl_line_buff, cnsl_buff_pos>>
            \/ \E line, stage : Gives(line, stage)
<1>1. PICK p \in Nat : p = cnsl_buff_pos /\ p <= Size /\ Size \in Nat /\ ~outside
  BY Numbers DEF IInv
<1>2. PICK found : found = {k \in 0 .. p - 1 : cnsl_line_buff[k] \in Ends}
  OBVIOUS
<1>3. (IF cnsl_buff_pos < 0 THEN Size + 1 ELSE cnsl_buff_pos) = p /\ ~(p < 0)
  BY <1>1
<1>4. \A j \in Slots : cnsl_line_buff[j] \in Ends => j \in found
  <2>1. ASSUME NEW j \in Slots, cnsl_line_buff[j] \in Ends PROVE j \in 0 .. p - 1
    <3>1. j < p /\ j \in Nat
      BY <1>1, <2>1, SlotNumber DEF IInv, Ordered, Ending
    <3>. QED  BY <3>1
  <2>. QED  BY <1>2, <2>1
<1>5. connects' = connects
  BY DEF FindLineEnd, Interpret, history
<1>6. CASE found = {}
  <2>1. /\ calls' = Front(calls) /\ outside' = (cnsl_buff_pos < 0)
        /\ UNCHANGED <<buffer, commands, history>>
    BY <1>2, <1>3, <1>6 DEF FindLineEnd
  <2>2. ~outside'
    BY <1>1, <1>3, <2>1
  <2>. QED  BY <1>4, <1>5, <1>6, <2>1, <2>2 DEF Aside, buffer, commands, history
<1>7. CASE found # {}
  <2>1. PICK line : line = CHOOSE k \in found : \A j \in found : k <= j
    OBVIOUS
  <2>2. line \in found
    <3>1. PICK e \in found : TRUE
      BY <1>7
    <3>2. ASSUME NEW j \in found PROVE e <= j
      <4>1. e \in Slots /\ j \in Slots /\ cnsl_line_buff[e] \in Ends /\ cnsl_line_buff[j] \in Ends
        BY <1>1, <1>2, Numbers DEF IInv
      <4>2. e = j /\ e \in Nat
        BY <4>1, SlotNumber DEF IInv, Ordered, Ending
      <4>. QED  BY <4>2
    <3>. QED  BY <2>1, <3>1, <3>2
  <2>3. line \in 0 .. p - 1 /\ cnsl_line_buff[line] \in Ends /\ line \in Nat /\ line < p
    BY <1>2, <2>2
  <2>4. line \in Slots
    BY <1>1, <2>3, Numbers DEF IInv
  <2>5. PICK b : b = cnsl_line_buff'
    OBVIOUS
  <2>6. /\ b = [cnsl_line_buff EXCEPT ![line] = Nul] /\ Interpret(CString(b))
        /\ calls' = SetTop([Top EXCEPT !.line = line,
                                       !.stage = IF did' = <<>> THEN "done" ELSE "run"])
        /\ UNCHANGED <<cnsl_buff_pos, cnsl_last_command, outside>>
    BY <1>2, <1>3, <1>7, <2>1, <2>5 DEF FindLineEnd
  <2>7. Runners = {}
    BY <2>3, <2>4 DEF IInv, Ordered, Working
  <2>8. \A j \in 0 .. line - 1 : j \in 0 .. p - 1 /\ j \in Slots /\ j # line
    <3>1. \A j \in 0 .. line - 1 : j \in 0 .. p - 1 /\ j # line
      BY <2>3
    <3>. QED  BY <1>1, <3>1, Numbers DEF IInv
  <2>9. \A j \in 0 .. line - 1 : cnsl_line_buff[j] # Nul
    BY <1>1, <2>7, <2>8 DEF IInv, Ordered, Dense
  <2>10. Part(0, line) \in Seq(Char)
    <3>1. 0 \in Nat /\ 0 <= line
      BY <2>3
    <3>. QED  BY <2>4, <2>9, <3>1, PartIs DEF IInv, Typed
  <2>11. CString(b) = Part(0, line)
    <3>1. b[line] = Nul /\ \A j \in 0 .. line - 1 : b[j] = cnsl_line_buff[j]
      BY <2>4, <2>6, <2>8, Numbers DEF IInv
    <3>2. CString(b) = [k \in 1 .. line |-> b[k - 1]]
      BY <2>4, <2>9, <3>1, CStringIs
    <3>3. line - 0 = line /\ \A k \in 1 .. line : k - 1 \in 0 .. line - 1 /\ 0 + k - 1 = k - 1
      BY <2>3
    <3>4. Part(0, line) = [k \in 1 .. line |-> cnsl_line_buff[0 + k - 1]]
      BY <3>3 DEF Part
    <3>. QED  BY <3>1, <3>2, <3>3, <3>4
  <2>12. PICK stage : stage = IF did' = <<>> THEN "done" ELSE "run"
    OBVIOUS
  <2>13. /\ ran' = Append(ran, Part(0, line))
         /\ did' = Runs(Part(0, line)) /\ known' = Part(0, line)
         /\ cnsl_repeated_command' \in {cnsl_last_command, cnsl_repeated_command}
         /\ repeat_command' \in BOOLEAN
    BY <2>6, <2>11 DEF Interpret, IInv, Typed, TypeOK
  <2>14. Gives(line, stage)
    BY <1>1, <2>3, <2>5, <2>6, <2>7, <2>10, <2>12, <2>13 DEF Gives
  <2>. QED  BY <1>5, <2>14
<1>. QED  BY <1>6, <1>7

(* The line is given away, and the call works on it from now on. *)
LEMMA GivesKeeps ==
  ASSUME IInv, FindLineEnd, NEW line, NEW stage, Gives(line, stage)
  PROVE  /\ Typed' /\ Ordered'
         /\ Len(calls) \in Runners' /\ calls'[Len(calls)].line = line
<1>1. PICK n : n = Len(calls)
  OBVIOUS
<1>2. PICK p \in Nat : p = cnsl_buff_pos /\ p <= Size /\ Size \in Nat
  BY Numbers DEF IInv
<1>3. line \in Nat /\ line < p /\ line \in Slots /\ line # Size
  <2>1. line \in Nat /\ line < p
    BY <1>2 DEF Gives
  <2>. QED  BY <1>2, <2>1 DEF Slots
<1>4. PICK call : call = [Top EXCEPT !.line = line, !.stage = stage]
  OBVIOUS
<1>5. call \in Call /\ call.stage = stage /\ call.line = line /\ CallOK(call)
      /\ stage \in {"run", "done"}
  <2>1. Top \in Call /\ stage \in {"run", "done"}
    BY LoopDone DEF Gives
  <2>2. call \in Call /\ call.stage = stage /\ call.line = line
    BY <1>3, <1>4, <2>1 DEF Call, Stages
  <2>. QED  BY <2>1, <2>2 DEF CallOK
<1>6. n \in Nat /\ n >= 1 /\ n \in 1 .. n
  BY <1>1, LoopDone, TopIs DEF IInv, Ordered
<1>7. /\ Nested' /\ calls' \in Seq(Call) /\ calls' # <<>> /\ Len(calls') = n
      /\ DOMAIN calls' = 1 .. n /\ DOMAIN calls = 1 .. n
      /\ calls'[n] = call /\ \A k \in 1 .. n - 1 : calls'[k] = calls[k]
  BY <1>1, <1>4, <1>5, LoopDone, GoesOn DEF IInv, Ordered, Gives
<1>8. Runners' = {n}
  <2>1. ASSUME NEW k \in 1 .. n, k # n PROVE k \notin Runners'
    <3>1. calls'[k] = calls[k]
      BY <1>6, <1>7, <2>1
    <3>. QED  BY <1>7, <2>1, <3>1 DEF Gives, Runners
  <2>. QED  BY <1>5, <1>6, <1>7, <2>1 DEF Runners
<1>9. /\ cnsl_line_buff'[line] = Nul
      /\ \A j \in Slots : j # line => cnsl_line_buff'[j] = cnsl_line_buff[j]
  BY <1>3, Numbers DEF IInv, Gives
<1>10. \A j \in Slots : cnsl_line_buff'[j] \notin Ends
  <2>1. ASSUME NEW j \in Slots, j # line PROVE cnsl_line_buff[j] \notin Ends
    BY <1>3, <2>1 DEF Gives, IInv, Ordered, Ending
  <2>. QED  BY <1>9, <2>1, Constants
<1>11. cnsl_buff_pos' = p /\ cnsl_buff_pos = p
  BY <1>2 DEF Gives
<1>12. ran \in Seq(Seq(Char)) /\ ran' = Append(ran, Part(0, line)) /\ Part(0, line) \in Seq(Char)
  BY DEF IInv, Typed, Gives
<1>13. PICK m \in Nat : m = Len(ran)
  BY <1>12
<1>14. /\ ran' \in Seq(Seq(Char)) /\ ran' # <<>> /\ Len(ran') = m + 1
       /\ ran'[m + 1] = Part(0, line) /\ DOMAIN ran' = 1 .. m + 1 /\ DOMAIN ran = 1 .. m
       /\ \A k \in 1 .. m : k \in 1 .. m + 1 /\ ran'[k] = ran[k]
  BY <1>12, <1>13
<1>15. Typed'
  <2>1. cnsl_line_buff' \in [Slots -> Char \cup {Nul}]
    BY Numbers DEF IInv, Gives
  <2>2. cnsl_line_buff'[Size] = Nul
    BY <1>3, <1>9, Numbers, Constants DEF IInv
  <2>. QED  BY <1>7, <1>14, <2>1, <2>2 DEF Gives, IInv, Typed, TypeOK
<1>16. Part(0, line)' = Part(0, line)
  <2>1. \A i \in 1 .. line - 0 : 0 + i - 1 \in 0 .. p - 1 /\ 0 + i - 1 # line
    BY <1>2, <1>3
  <2>2. \A i \in 1 .. line - 0 : cnsl_line_buff'[0 + i - 1] = cnsl_line_buff[0 + i - 1]
    BY <1>9, <1>11, <2>1, Numbers DEF IInv
  <2>. QED  BY <2>2 DEF Part
<1>17. Working'
  <2>1. calls'[n].line = line
    BY <1>5, <1>7
  <2>. QED  BY <1>3, <1>8, <1>9, <1>10, <1>11, <1>14, <1>16, <2>1 DEF Working
<1>18. Ending'
  BY <1>10 DEF Ending
<1>19. Erasing'
  <2>1. \A j \in 0 .. p - 1 : cnsl_line_buff'[j] # Backspace
    BY <1>9, <1>11, LoopDone, Constants, Numbers DEF IInv
  <2>. QED  BY <1>11, <2>1 DEF Erasing
<1>20. Dense'
  <2>1. ASSUME NEW j \in 0 .. p - 1, cnsl_line_buff'[j] = Nul PROVE j = line
    <3>1. cnsl_line_buff[j] # Nul /\ j \in Slots
      BY <1>11, <2>1, Numbers DEF Gives, IInv, Ordered, Dense
    <3>. QED  BY <1>9, <2>1, <3>1
  <2>2. calls'[n].line = line /\ n \in Runners'
    BY <1>5, <1>7, <1>8
  <2>. QED  BY <1>11, <2>1, <2>2 DEF Dense
<1>21. Remembered'
  <2>1. \A l : Given(l) => Given(l)'
    BY <1>14 DEF Given
  <2>2. Given(cnsl_last_command) /\ Given(cnsl_repeated_command)
    BY DEF IInv, Ordered, Remembered
  <2>3. Given(cnsl_last_command)' /\ Given(cnsl_repeated_command)'
    BY <2>1, <2>2 DEF Gives, Given
  <2>4. calls'[1].stage # "repeat"
    <3>1. calls[1].stage \in {"edit", "echo"}
      BY <1>3 DEF Gives, IInv, Ordered, Ending
    <3>2. CASE n = 1
      BY <1>5, <1>7, <3>2
    <3>3. CASE n # 1
      <4>1. 1 \in 1 .. n - 1
        BY <1>6, <3>3
      <4>. QED  BY <1>7, <3>1, <4>1
    <3>. QED  BY <3>2, <3>3
  <2>. QED  BY <2>3, <2>4 DEF Remembered
<1>22. n \in Runners' /\ calls'[n].line = line
  BY <1>5, <1>7, <1>8
<1>. QED  BY <1>1, <1>7, <1>15, <1>17, <1>18, <1>19, <1>20, <1>21, <1>22 DEF Ordered

(* The loop is over. *)
LEMMA FindLineEndKeeps == ASSUME IInv, FindLineEnd PROVE Typed' /\ Ordered'
<1>1. CASE \E line, stage : Gives(line, stage)
  BY <1>1, GivesKeeps
<1>2. CASE /\ \A j \in Slots : cnsl_line_buff[j] \notin Ends
           /\ calls' = Front(calls) /\ Aside
           /\ UNCHANGED <<cnsl_line_buff, cnsl_buff_pos>>
  BY <1>2, LoopDone, LeaveKeeps
<1>. QED  BY <1>1, <1>2, LineEnds
-----------------------------------------------------------------------------
\* ----- A line is done with.
\* The call on top has worked on line, of which nothing remains.
Removes(line) ==
  /\ line \in Nat /\ line + 1 <= cnsl_buff_pos
  /\ Top.line = line /\ Runners = {Len(calls)}
  /\ cnsl_buff_pos' = cnsl_buff_pos - (line + 1)
  /\ cnsl_line_buff' \in [Slots -> Char \cup {Nul}] /\ cnsl_line_buff'[Size] = Nul
  /\ \A j \in Slots : cnsl_line_buff[j] \notin Ends /\ cnsl_line_buff'[j] \notin Ends
  /\ \A j \in 0 .. cnsl_buff_pos' - 1 :
       /\ j + (line + 1) \in 0 .. cnsl_buff_pos - 1
       /\ cnsl_line_buff'[j] = cnsl_line_buff[j + (line + 1)]
  /\ calls # <<>> /\ Top.stage \in {"run", "done"} /\ calls' = Front(calls)
  /\ cnsl_last_command' \in Seq(Char) /\ Given(cnsl_last_command')
  /\ cnsl_last_command' = ran[Len(ran)] /\ known' = known
  /\ ~outside'
  /\ UNCHANGED <<cnsl_repeated_command, repeat_command, ran, did, connects>>

(* What follows the line moves to the front, and no newline is taken from   *)
(* it, since none can be there.                                             *)
LEMMA Removed == ASSUME IInv, Finish PROVE \E line : Removes(line)
<1>1. calls # <<>> /\ Top.stage \in {"run", "done"} /\ calls' = Front(calls)
  BY DEF Finish, Goes, At
<1>2. PICK p \in Nat : p = cnsl_buff_pos /\ p <= Size /\ Size \in Nat /\ Size > 0
  BY Numbers DEF IInv
<1>3. Runners = {Len(calls)} /\ Top = calls[Len(calls)] /\ Top \in Call
  <2>1. Len(calls) \in Runners /\ Top = calls[Len(calls)] /\ Top \in Call
    BY <1>1, TopIs DEF IInv, Ordered, Runners
  <2>. QED  BY <2>1 DEF IInv, Ordered, Working
<1>4. PICK line \in Slots : line = Top.line
  BY <1>3 DEF Call
<1>5. /\ line < p /\ cnsl_line_buff[line] = Nul /\ ran # <<>> /\ ran[Len(ran)] = Part(0, line)
      /\ \A j \in Slots : cnsl_line_buff[j] \notin Ends
  BY <1>2, <1>3, <1>4 DEF IInv, Ordered, Working
<1>6. PICK cnt \in Nat : cnt = line + 1
  BY <1>4, SlotNumber
<1>7. line \in Nat /\ cnt <= p /\ cnt >= 1 /\ cnt \in Slots
  <2>1. line \in Nat
    BY <1>4, SlotNumber
  <2>2. cnt <= p /\ cnt >= 1 /\ cnt \in 0 .. Size
    BY <1>2, <1>5, <1>6, <2>1
  <2>. QED  BY <2>1, <2>2 DEF Slots
<1>8. Consumed(line) = cnt
  <2>1. cnsl_line_buff[cnt] # LF
    BY <1>5, <1>7 DEF Ends
  <2>2. cnt + 0 = cnt
    OBVIOUS
  <2>. QED  BY <1>6, <2>1, <2>2 DEF Consumed
<1>9. PICK cleared : cleared = [k \in Slots |-> IF k < cnt THEN Nul ELSE cnsl_line_buff[k]]
  OBVIOUS
<1>10. /\ cnsl_line_buff' = [k \in Slots |-> IF k + cnt <= Size
                                             THEN cleared[k + cnt] ELSE cleared[k]]
       /\ cnsl_buff_pos' = p - cnt
       /\ cnsl_last_command' = CString(cnsl_line_buff)
       /\ UNCHANGED <<cnsl_repeated_command, repeat_command, outside, ran, did, known, connects>>
  BY <1>2, <1>4, <1>8, <1>9 DEF Finish, history
<1>11. \A k \in Slots : k + cnt <= Size => k + cnt \in Slots /\ ~(k + cnt < cnt)
  <2>1. ASSUME NEW k \in Nat, k + cnt <= Size PROVE k + cnt \in 0 .. Size /\ ~(k + cnt < cnt)
    BY <1>2, <2>1
  <2>. QED  BY <2>1, SlotNumber DEF Slots
<1>12. \A k \in Slots : cleared[k] \in {Nul, cnsl_line_buff[k]}
  BY <1>9
<1>13. \A k \in Slots : cnsl_line_buff[k] \in Char \cup {Nul} /\ cnsl_line_buff[k] \notin Ends
  BY <1>5, Numbers DEF IInv
<1>14. \A k \in Slots : /\ cnsl_line_buff'[k] \in Char \cup {Nul}
                        /\ cnsl_line_buff'[k] \notin Ends
  BY <1>10, <1>11, <1>12, <1>13, Constants
<1>15. cnsl_line_buff' \in [Slots -> Char \cup {Nul}]
  BY <1>10, <1>14
<1>16. cnsl_line_buff'[Size] = Nul
  <2>1. ~(Size + cnt <= Size) /\ Size \in Slots
    BY <1>2, <1>7, Constants
  <2>2. cleared[Size] = Nul
    BY <1>12, <2>1, Numbers DEF IInv
  <2>. QED  BY <1>10, <2>1, <2>2
<1>17. ASSUME NEW j \in 0 .. p - cnt - 1
       PROVE  j + cnt \in 0 .. p - 1 /\ cnsl_line_buff'[j] = cnsl_line_buff[j + cnt]
  <2>1. j + cnt \in 0 .. p - 1 /\ j + cnt <= Size /\ j \in 0 .. Size
    BY <1>2, <1>7
  <2>2. j \in Slots /\ j + cnt \in Slots /\ ~(j + cnt < cnt)
    BY <1>11, <2>1 DEF Slots
  <2>. QED  BY <1>9, <1>10, <2>1, <2>2
<1>18. cnsl_last_command' = Part(0, line)
  <2>1. ASSUME NEW j \in 0 .. line - 1, cnsl_line_buff[j] = Nul PROVE FALSE
    <3>1. j \in 0 .. p - 1 /\ j # line
      BY <1>2, <1>5, <1>7
    <3>. QED  BY <1>2, <1>3, <1>4, <2>1, <3>1 DEF IInv, Ordered, Dense
  <2>2. CString(cnsl_line_buff) = [k \in 1 .. line |-> cnsl_line_buff[k - 1]]
    BY <1>5, <2>1, CStringIs
  <2>3. line - 0 = line /\ \A k \in 1 .. line : 0 + k - 1 = k - 1
    BY <1>7
  <2>. QED  BY <1>10, <2>2, <2>3 DEF Part
<1>19. cnsl_last_command' \in Seq(Char) /\ Given(cnsl_last_command')
  <2>1. Len(ran) \in DOMAIN ran /\ ran[Len(ran)] \in Seq(Char)
    BY <1>5 DEF IInv, Typed
  <2>. QED  BY <1>5, <1>18, <2>1 DEF Given
<1>20. line + 1 <= cnsl_buff_pos /\ cnsl_buff_pos' = cnsl_buff_pos - (line + 1)
  BY <1>2, <1>6, <1>7, <1>10
<1>21. \A j \in 0 .. cnsl_buff_pos' - 1 :
         /\ j + (line + 1) \in 0 .. cnsl_buff_pos - 1
         /\ cnsl_line_buff'[j] = cnsl_line_buff[j + (line + 1)]
  BY <1>2, <1>6, <1>10, <1>17
<1>22. ~outside'
  BY <1>10, Numbers DEF IInv
<1>23. Removes(line)
  BY <1>1, <1>3, <1>4, <1>5, <1>7, <1>10, <1>14, <1>15, <1>16, <1>18, <1>19, <1>20, <1>21, <1>22
     DEF Removes
<1>. QED  BY <1>23

(* cnsl_interpret has returned. *)
LEMMA FinishKeeps == ASSUME IInv, Finish PROVE Typed' /\ Ordered' /\ Runners' = {}
<1>1. PICK line : Removes(line)
  BY Removed
<1>2. PICK n : n = Len(calls)
  OBVIOUS
<1>3. calls # <<>> /\ calls' = Front(calls)
  BY <1>1 DEF Removes
<1>4. /\ Nested' /\ calls' \in Seq(Call) /\ n \in Nat /\ n >= 1
      /\ Len(calls') = n - 1 /\ DOMAIN calls' = 1 .. n - 1 /\ DOMAIN calls = 1 .. n
      /\ \A k \in 1 .. n - 1 : calls'[k] = calls[k]
  BY <1>2, <1>3, CallEnds DEF IInv, Ordered
<1>5. Runners' = {}
  <2>1. ASSUME NEW k \in 1 .. n - 1 PROVE calls'[k].stage \notin {"run", "done"}
    <3>1. k \in 1 .. n /\ k # n /\ calls'[k] = calls[k]
      BY <1>4
    <3>2. Runners = {n}
      BY <1>1, <1>2 DEF Removes
    <3>3. k \notin Runners
      BY <3>1, <3>2
    <3>. QED  BY <1>4, <3>1, <3>3 DEF Runners
  <2>. QED  BY <1>4, <2>1 DEF Runners
<1>6. PICK p \in Nat : p = cnsl_buff_pos /\ p <= Size /\ Size \in Nat
  BY Numbers DEF IInv
<1>7. line \in Nat /\ line + 1 <= p /\ cnsl_buff_pos' = p - (line + 1)
  BY <1>1, <1>6 DEF Removes
<1>8. cnsl_buff_pos' \in 0 .. Size
  BY <1>6, <1>7
<1>9. Typed'
  BY <1>1, <1>4, <1>8 DEF Removes, IInv, Typed, TypeOK
<1>10. \A j \in Slots : cnsl_line_buff'[j] \notin Ends
  BY <1>1 DEF Removes
<1>11. Working' /\ Ending'
  BY <1>5, <1>10 DEF Working, Ending
<1>12. Top = calls[n] /\ Top.stage \in {"run", "done"} /\ Top.line = line
  BY <1>1, <1>2, TopIs DEF Removes, IInv, Ordered
<1>13. ASSUME NEW j \in 0 .. cnsl_buff_pos' - 1
       PROVE  cnsl_line_buff'[j] # Backspace /\ cnsl_line_buff'[j] # Nul
  <2>1. PICK i : i = j + (line + 1)
    OBVIOUS
  <2>2. i \in 0 .. cnsl_buff_pos - 1 /\ cnsl_line_buff'[j] = cnsl_line_buff[i]
    BY <1>1, <2>1 DEF Removes
  <2>3. i # line
    BY <1>7, <1>8, <2>1
  <2>4. cnsl_line_buff[i] # Backspace
    <3>1. Len(calls) = 1 => calls[1].stage # "edit"
      BY <1>2, <1>12
    <3>. QED  BY <2>2, <3>1 DEF IInv, Ordered, Erasing
  <2>5. cnsl_line_buff[i] # Nul
    <3>1. \A k \in Runners : calls[k].line # i
      BY <1>1, <1>2, <1>12, <2>3 DEF Removes
    <3>. QED  BY <2>2, <3>1 DEF IInv, Ordered, Dense
  <2>. QED  BY <2>2, <2>4, <2>5
<1>14. Erasing' /\ Dense'
  BY <1>13 DEF Erasing, Dense
<1>15. Remembered'
  <2>1. /\ Given(cnsl_last_command') /\ ran' = ran /\ did' = did
        /\ cnsl_repeated_command' = cnsl_repeated_command
    BY <1>1 DEF Removes
  <2>2. calls' # <<>> => calls'[1] = calls[1]
    <3>. SUFFICES ASSUME calls' # <<>> PROVE calls'[1] = calls[1]
      OBVIOUS
    <3>1. n - 1 # 0
      BY <1>4
    <3>2. 1 \in 1 .. n - 1
      BY <1>4, <3>1
    <3>. QED  BY <1>4, <3>2
  <2>3. Given(cnsl_last_command)' /\ Given(cnsl_repeated_command)'
    BY <2>1 DEF Given, IInv, Ordered, Remembered
  <2>. QED  BY <1>3, <2>1, <2>2, <2>3 DEF IInv, Ordered, Remembered
<1>. QED  BY <1>4, <1>5, <1>9, <1>11, <1>14, <1>15 DEF Ordered
-----------------------------------------------------------------------------
\* ----- The main loop.
(* cnsl_run repeats the command, or finds that there is none to repeat. *)
LEMMA CnslRunKeeps == ASSUME IInv, CnslRun PROVE Typed' /\ Ordered' /\ RunnersStay
<1>1. calls = <<>> /\ ~outside'
      /\ UNCHANGED <<cnsl_line_buff, cnsl_buff_pos, cnsl_last_command, cnsl_repeated_command, ran>>
  BY DEF CnslRun, Idle, buffer
<1>2. PICK call : call = [stage |-> "repeat", chunk |-> <<>>, i |-> 0, line |-> 0]
  OBVIOUS
<1>3. call \in Call /\ call.stage = "repeat" /\ CallOK(call)
  <2>1. 0 \in -1 .. Size /\ 0 \in Slots /\ <<>> \in Seq(Char)
    BY Constants
  <2>. QED  BY <1>2, <2>1 DEF Call, Stages, CallOK
<1>4. \/ /\ repeat_command' = FALSE /\ calls' = <<>>
      \/ /\ repeat_command' = repeat_command
         /\ cnsl_repeated_command \notin {<<>>, RepeatLine}
         /\ calls' = <<call>> /\ did' = <<cnsl_repeated_command>>
  BY <1>1, <1>2 DEF CnslRun
<1>5. calls' # <<>> => calls' = <<call>> /\ cnsl_repeated_command \notin {<<>>, RepeatLine}
                       /\ did' = <<cnsl_repeated_command>>
  BY <1>4
<1>6. /\ Nested' /\ calls' \in Seq(Call) /\ Runners' = {}
      /\ calls' # <<>> => calls'[1] = call
  <2>1. CASE calls' = <<>>
    <3>1. Stacked(calls', 0)
      BY <2>1 DEF Stacked
    <3>. QED  BY <2>1, <3>1, StackedNested DEF Runners
  <2>2. CASE calls' = <<call>>
    <3>1. /\ Nested' /\ calls' \in Seq(Call) /\ DOMAIN calls' = 1 .. 1 /\ calls'[1] = call
      BY <1>3, <2>2, OnlyNested DEF Only
    <3>. QED  BY <1>3, <3>1 DEF Runners
  <2>. QED  BY <1>5, <2>1, <2>2
<1>7. /\ \A j \in Slots : cnsl_line_buff[j] \notin Ends
      /\ \A j \in 0 .. cnsl_buff_pos - 1 : cnsl_line_buff[j] # Backspace /\ cnsl_line_buff[j] # Nul
  <2>1. Len(calls) # 1 /\ Runners = {}
    BY <1>1 DEF Runners
  <2>. QED  BY <1>1, <2>1 DEF IInv, Ordered, Ending, Erasing, Dense
<1>8. Typed'
  BY <1>1, <1>4, <1>6 DEF IInv, Typed, TypeOK
<1>9. Working' /\ Ending' /\ Erasing' /\ Dense'
  BY <1>1, <1>6, <1>7 DEF Working, Ending, Erasing, Dense
<1>10. Remembered'
  BY <1>1, <1>5 DEF Remembered, Given, IInv, Ordered
<1>11. Runners = {}
  BY <1>1 DEF Runners
<1>. QED  BY <1>6, <1>8, <1>9, <1>10, <1>11 DEF Ordered, RunnersStay

(* The main loop goes round, or nothing happens. *)
LEMMA StandsStill == ASSUME IInv, UNCHANGED vars PROVE Typed' /\ Ordered'
<1>. USE DEF vars, buffer, commands, history
<1>1. Runners' = Runners /\ Nested'
  BY DEF Runners, Nested, At, Top, IInv, Ordered
<1>2. Typed' /\ Ending' /\ Erasing' /\ Remembered'
  BY DEF IInv, Ordered, Typed, TypeOK, Ending, Erasing, Remembered, Given
<1>3. Working' /\ Dense'
  BY <1>1 DEF IInv, Ordered, Working, Dense, Part
<1>. QED  BY <1>1, <1>2, <1>3 DEF Ordered

(* Every step keeps the invariant. *)
LEMMA NextKeeps == IInv /\ [Next]_vars => IInv'
<1>. SUFFICES ASSUME IInv, [Next]_vars PROVE Typed' /\ Ordered'
  BY DEF IInv, KeyByKey
<1>. QED  BY ReceiveKeeps, StartOverKeeps, EditKeeps, EchoedKeeps, FindLineEndKeeps, FinishKeeps,
             CnslRunKeeps, RepeatedKeeps, ConnectKeeps, StandsStill
          DEF Next, Loop
-----------------------------------------------------------------------------
\* ----- The theorems.
(* The inductive invariant holds from boot on. *)
THEOREM Invariance == KeyByKey => (Spec => []IInv)
<1>1. KeyByKey /\ Init => IInv
  BY Boots
<1>. QED  BY <1>1, NextKeeps, PTL DEF Spec

(* Of keys that come one by one, in any order and at any time a terminal    *)
(* sends them, cnsl_buff_pos never leaves the buffer, and no statement of   *)
(* console.c touches what is behind it (console.c:223-280).                 *)
THEOREM TypeCorrect == KeyByKey => (Spec => []TypeOK)
<1>1. IInv => TypeOK
  BY DEF IInv, Typed
<1>. QED  BY <1>1, Invariance, PTL

(* What the main loop repeats was typed, and is not "repeat" itself         *)
(* (console.c:46-63, 204-221).                                              *)
THEOREM RepeatsCommands == KeyByKey => (Spec => []RepeatsACommand)
<1>1. IInv => RepeatsACommand
  <2>. SUFFICES ASSUME IInv, At("repeat")
                PROVE  did[1] # RepeatLine /\ \E k \in DOMAIN ran : ran[k] = did[1]
    BY DEF RepeatsACommand
  <2>1. calls # <<>> /\ Top.stage = "repeat"
    BY DEF At
  <2>2. calls[1].stage = "repeat"
    BY <2>1, TopIs DEF IInv, Ordered, Nested
  <2>3. did = <<cnsl_repeated_command>> /\ cnsl_repeated_command \notin {<<>>, RepeatLine}
        /\ Given(cnsl_repeated_command)
    BY <2>1, <2>2 DEF IInv, Ordered, Remembered
  <2>4. did[1] = cnsl_repeated_command
    BY <2>3
  <2>. QED  BY <2>3, <2>4 DEF Given
<1>. QED  BY <1>1, Invariance, PTL
-----------------------------------------------------------------------------
\* ----- The line before.
\* The command kept is the line before, which a call that works on it will keep.
LineBefore ==
  IF Runners = {} THEN cnsl_last_command = known ELSE known = ran[Len(ran)]

(* Nothing is done to the lines. *)
LEMMA LineBeforeStays ==
  ASSUME LineBefore, RunnersStay, UNCHANGED <<cnsl_last_command, known, ran>>
  PROVE  LineBefore'
BY DEF LineBefore, RunnersStay

(* A line ends, or there was none. *)
LEMMA FindLineEndRemembers ==
  ASSUME IInv, LineBefore, FindLineEnd PROVE LineBefore'
<1>1. CASE \E line, stage : Gives(line, stage)
  <2>1. PICK line, stage : Gives(line, stage)
    BY <1>1
  <2>2. Runners' # {}
    BY <2>1, GivesKeeps
  <2>3. ran \in Seq(Seq(Char)) /\ Part(0, line) \in Seq(Char)
        /\ ran' = Append(ran, Part(0, line)) /\ known' = Part(0, line)
    BY <2>1 DEF Gives, IInv, Typed
  <2>4. ran'[Len(ran')] = Part(0, line)
    BY <2>3
  <2>. QED  BY <2>2, <2>3, <2>4 DEF LineBefore
<1>2. CASE /\ \A j \in Slots : cnsl_line_buff[j] \notin Ends
           /\ calls' = Front(calls) /\ Aside
           /\ UNCHANGED <<cnsl_line_buff, cnsl_buff_pos>>
  <2>1. RunnersStay
    BY <1>2, LoopDone, LeaveKeeps
  <2>. QED  BY <1>2, <2>1, LineBeforeStays DEF Aside
<1>. QED  BY <1>1, <1>2, LineEnds

(* Every step remembers the line before. *)
LEMMA NextRemembers == IInv /\ LineBefore /\ [Next]_vars => LineBefore'
<1>. SUFFICES ASSUME IInv, LineBefore, [Next]_vars PROVE LineBefore'
  OBVIOUS
<1>1. ASSUME NEW chunk \in Chunks, Receive(chunk) PROVE LineBefore'
  <2>1. UNCHANGED <<cnsl_last_command, known, ran>>
    BY <1>1 DEF Receive, commands
  <2>2. RunnersStay
    BY <1>1, KeyComes, StoreKeeps, OverflowKeeps
  <2>. QED  BY <2>1, <2>2, LineBeforeStays
<1>2. CASE StartOver
  <2>1. Runners' = {} /\ cnsl_last_command' = <<>> /\ known' = <<>>
    BY <1>2, StartOverKeeps DEF StartOver
  <2>. QED  BY <2>1 DEF LineBefore
<1>3. CASE Edit
  BY <1>3, EditKeeps, LineBeforeStays DEF Edit, commands, history
<1>4. CASE Echoed
  BY <1>4, EchoedKeeps, LineBeforeStays DEF Echoed, commands, history
<1>5. CASE FindLineEnd
  BY <1>5, FindLineEndRemembers
<1>6. CASE Finish
  <2>1. PICK line : Removes(line)
    BY <1>6, Removed
  <2>2. Runners # {} /\ cnsl_last_command' = ran[Len(ran)] /\ known' = known
    BY <2>1 DEF Removes
  <2>3. Runners' = {}
    BY <1>6, FinishKeeps
  <2>. QED  BY <2>2, <2>3 DEF LineBefore
<1>7. CASE CnslRun
  BY <1>7, CnslRunKeeps, LineBeforeStays DEF CnslRun
<1>8. CASE Repeated
  BY <1>8, RepeatedKeeps, LineBeforeStays DEF Repeated, commands, history
<1>9. CASE Connect
  <2>1. calls' = <<>> /\ cnsl_last_command' = <<>> /\ known' = <<>>
    BY <1>9 DEF Connect, IInv, KeyByKey
  <2>2. Runners' = {}
    BY <2>1 DEF Runners
  <2>. QED  BY <2>1, <2>2 DEF LineBefore
<1>10. CASE UNCHANGED vars
  <2>1. UNCHANGED <<calls, cnsl_last_command, known, ran>>
    BY <1>10 DEF vars, commands, history
  <2>2. RunnersStay
    BY <2>1 DEF RunnersStay, Runners
  <2>. QED  BY <2>1, <2>2, LineBeforeStays
<1>. QED  BY <1>1, <1>2, <1>3, <1>4, <1>5, <1>6, <1>7, <1>8, <1>9, <1>10 DEF Next, Loop

(* Only a line that ends is given to cnsl_interpret. *)
LEMMA OnlyLineEnds ==
  ASSUME [Next]_vars, ran' # ran PROVE FindLineEnd
<1>1. CASE \E chunk \in Chunks : Receive(chunk)
  BY <1>1 DEF Receive
<1>2. CASE Loop \/ UNCHANGED vars
  BY <1>2 DEF Loop, vars, history
<1>3. CASE StartOver \/ Connect \/ CnslRun
  BY <1>3 DEF StartOver, Connect, CnslRun
<1>4. CASE Edit \/ Echoed \/ Finish \/ Repeated
  BY <1>4 DEF Edit, Echoed, Finish, Repeated, history
<1>. QED  BY <1>1, <1>2, <1>3, <1>4 DEF Next

(* Enter with no input repeats the line before, in whatever other letters   *)
(* were typed while that one printed, and nothing that is older             *)
(* (console.c:46-54, 267-270).                                              *)
THEOREM RepeatsTheLineBefore == KeyByKey => (Spec => EnterRepeats)
<1>1. KeyByKey /\ Init => LineBefore
  BY DEF Init, LineBefore, Runners
<1>2. IInv /\ LineBefore /\ [Next]_vars
      => [ran' # ran /\ Last(ran') = <<>> =>
            did' = IF known \in {<<>>, RepeatLine} THEN <<>> ELSE <<known>>]_vars
  <2>. SUFFICES ASSUME IInv, LineBefore, [Next]_vars, ran' # ran, Last(ran') = <<>>
                PROVE  did' = IF known \in {<<>>, RepeatLine} THEN <<>> ELSE <<known>>
    OBVIOUS
  <2>1. PICK line, stage : Gives(line, stage)
    <3>1. FindLineEnd
      BY OnlyLineEnds
    <3>2. ~Aside
      BY DEF Aside
    <3>. QED  BY <3>1, <3>2, LineEnds
  <2>2. ran \in Seq(Seq(Char)) /\ Part(0, line) \in Seq(Char)
        /\ ran' = Append(ran, Part(0, line))
    BY <2>1 DEF Gives, IInv, Typed
  <2>3. Last(ran') = Part(0, line)
    BY <2>2 DEF Last
  <2>4. cnsl_last_command = known /\ did' = Runs(<<>>)
    BY <2>1, <2>3 DEF Gives, LineBefore
  <2>. QED  BY <2>4 DEF Runs
<1>. QED  BY <1>1, <1>2, Invariance, NextRemembers, PTL DEF Spec, EnterRepeats
-----------------------------------------------------------------------------
\* ----- The editor the console seems to be.
\* The characters from s to before e of a buffer.
From(buff, s, e) == [k \in 1 .. e - s |-> buff[s + k - 1]]

\* They are members of S.
Over(S, buff, s, e) == \A j \in s .. e - 1 : buff[j] \in S

(* They are a string. *)
LEMMA FromIs ==
  ASSUME NEW text, NEW s \in Nat, NEW e \in Nat, s <= e
  PROVE  /\ Len(From(text, s, e)) = e - s
         /\ \A k \in 1 .. e - s : From(text, s, e)[k] = text[s + k - 1]
<1>1. e - s \in Nat
  OBVIOUS
<1>2. From(text, s, e) = [k \in 1 .. e - s |-> text[s + k - 1]]
  BY DEF From
<1>. QED  BY <1>1, <1>2

LEMMA FromSeq ==
  ASSUME NEW S, NEW buff, NEW s \in Nat, NEW e \in Nat, s <= e, Over(S, buff, s, e)
  PROVE  From(buff, s, e) \in Seq(S)
<1>1. \A k \in 1 .. e - s : s + k - 1 \in s .. e - 1
  OBVIOUS
<1>2. e - s \in Nat
  OBVIOUS
<1>3. From(buff, s, e) = [k \in 1 .. e - s |-> buff[s + k - 1]]
  BY DEF From
<1>. QED  BY <1>1, <1>2, <1>3 DEF Over

(* Strings of the same characters are the same. *)
LEMMA SameString ==
  ASSUME NEW S, NEW s \in Seq(S), NEW t \in Seq(S), Len(s) = Len(t),
         \A k \in 1 .. Len(s) : s[k] = t[k]
  PROVE  s = t
BY LenProperties

(* A string that moves to the front, or lies where nothing is written, stays *)
(* the same.                                                               *)
LEMMA FromMoves ==
  ASSUME NEW d \in Nat, NEW e \in Nat, NEW buff, NEW moved,
         \A j \in 0 .. e - 1 : moved[j] = buff[j + d]
  PROVE  From(moved, 0, e) = From(buff, d, e + d)
<1>1. e - 0 = e /\ (e + d) - d = e
  OBVIOUS
<1>2. ASSUME NEW k \in 1 .. e
      PROVE  0 + k - 1 \in 0 .. e - 1 /\ (0 + k - 1) + d = d + k - 1
  OBVIOUS
<1>3. \A k \in 1 .. e : moved[0 + k - 1] = buff[d + k - 1]
  BY <1>2
<1>. QED  BY <1>1, <1>3 DEF From

LEMMA FromStays ==
  ASSUME NEW s \in Nat, NEW e \in Nat, NEW buff, NEW new,
         \A j \in s .. e - 1 : new[j] = buff[j]
  PROVE  From(new, s, e) = From(buff, s, e)
<1>1. \A k \in 1 .. e - s : s + k - 1 \in s .. e - 1
  OBVIOUS
<1>. QED  BY <1>1 DEF From

(* What appending does. *)
LEMMA AppendIs ==
  ASSUME NEW S, NEW a \in Seq(S), NEW c \in S, NEW n, n = Len(a)
  PROVE  /\ Append(a, c) \in Seq(S) /\ Len(Append(a, c)) = n + 1
         /\ Append(a, c)[n + 1] = c /\ \A k \in 1 .. n : Append(a, c)[k] = a[k]
OBVIOUS

(* A string grows by the character behind it. *)
LEMMA FromGrows ==
  ASSUME NEW S, NEW buff, NEW s \in Nat, NEW e \in Nat, s <= e,
         Over(S, buff, s, e + 1)
  PROVE  From(buff, s, e + 1) = Append(From(buff, s, e), buff[e])
<1>1. e + 1 \in Nat /\ s <= e + 1
  OBVIOUS
<1>2. Over(S, buff, s, e) /\ buff[e] \in S
  <2>1. e \in s .. e + 1 - 1 /\ \A j \in s .. e - 1 : j \in s .. e + 1 - 1
    OBVIOUS
  <2>. QED  BY <2>1 DEF Over
<1>3. From(buff, s, e) \in Seq(S) /\ From(buff, s, e + 1) \in Seq(S)
  BY <1>1, <1>2, FromSeq
<1>4. PICK a \in Seq(S) : /\ a = From(buff, s, e) /\ Len(a) = e - s
                          /\ \A k \in 1 .. e - s : a[k] = buff[s + k - 1]
  BY <1>3, FromIs
<1>5. PICK b \in Seq(S) : /\ b = From(buff, s, e + 1) /\ Len(b) = e + 1 - s
                          /\ \A k \in 1 .. e + 1 - s : b[k] = buff[s + k - 1]
  <2>1. PICK f \in Nat : f = e + 1 /\ s <= f
    BY <1>1
  <2>2. Len(From(buff, s, f)) = f - s
    BY <2>1, FromIs
  <2>3. \A k \in 1 .. f - s : From(buff, s, f)[k] = buff[s + k - 1]
    BY DEF From
  <2>. QED  BY <1>3, <2>1, <2>2, <2>3
<1>6. PICK c \in S : c = buff[e]
  BY <1>2
<1>7. /\ Append(a, c) \in Seq(S) /\ Len(Append(a, c)) = e + 1 - s
      /\ Append(a, c)[e + 1 - s] = c
      /\ \A k \in 1 .. e - s : Append(a, c)[k] = a[k]
  <2>1. PICK n \in Nat : n = e - s
    OBVIOUS
  <2>2. /\ Append(a, c) \in Seq(S) /\ Len(Append(a, c)) = n + 1
        /\ Append(a, c)[n + 1] = c /\ \A k \in 1 .. n : Append(a, c)[k] = a[k]
    BY <1>4, <2>1, AppendIs
  <2>3. e + 1 - s = n + 1
    BY <2>1
  <2>. QED  BY <2>1, <2>2, <2>3
<1>8. ASSUME NEW k \in 1 .. e + 1 - s PROVE b[k] = Append(a, c)[k]
  <2>1. CASE k \in 1 .. e - s
    <3>1. s + k - 1 \in s .. e - 1
      BY <2>1
    <3>. QED  BY <1>4, <1>5, <1>7, <2>1, <3>1
  <2>2. CASE k = e + 1 - s
    <3>1. s + k - 1 = e
      BY <2>2
    <3>. QED  BY <1>5, <1>6, <1>7, <2>2, <3>1
  <2>3. k \in 1 .. e - s \/ k = e + 1 - s
    OBVIOUS
  <2>. QED  BY <2>1, <2>2, <2>3
<1>9. b = Append(a, c)
  BY <1>5, <1>7, <1>8, SameString
<1>. QED  BY <1>4, <1>5, <1>6, <1>9

(* A part of a string is a string from there. *)
LEMMA FromPart ==
  ASSUME NEW S, NEW buff, NEW e \in Nat, Over(S, buff, 0, e),
         NEW a \in Nat, NEW b \in Nat, a <= b, b <= e
  PROVE  From(buff, a, b) = SubSeq(From(buff, 0, e), a + 1, b)
<1>1. 0 \in Nat /\ 0 <= e
  OBVIOUS
<1>2. Over(S, buff, a, b)
  <2>1. \A j \in a .. b - 1 : j \in 0 .. e - 1
    OBVIOUS
  <2>. QED  BY <2>1 DEF Over
<1>3. From(buff, 0, e) \in Seq(S) /\ From(buff, a, b) \in Seq(S)
  BY <1>1, <1>2, FromSeq
<1>4. PICK t \in Seq(S) : /\ t = From(buff, 0, e) /\ Len(t) = e - 0
                          /\ \A k \in 1 .. e - 0 : t[k] = buff[0 + k - 1]
  BY <1>1, <1>3, FromIs
<1>5. PICK u \in Seq(S) : /\ u = From(buff, a, b) /\ Len(u) = b - a
                          /\ \A k \in 1 .. b - a : u[k] = buff[a + k - 1]
  BY <1>3, FromIs
<1>6. /\ SubSeq(t, a + 1, b) \in Seq(S) /\ Len(SubSeq(t, a + 1, b)) = b - a
      /\ \A k \in 1 .. b - a : SubSeq(t, a + 1, b)[k] = t[a + k]
  <2>1. \A k \in a + 1 .. b : t[k] \in S
    <3>1. \A k \in a + 1 .. b : k \in 1 .. Len(t)
      BY <1>4
    <3>. QED  BY <3>1
  <2>2. /\ SubSeq(t, a + 1, b) \in Seq(S)
        /\ Len(SubSeq(t, a + 1, b)) = IF a + 1 <= b THEN b - (a + 1) + 1 ELSE 0
        /\ \A k \in 1 .. b - (a + 1) + 1 : SubSeq(t, a + 1, b)[k] = t[(a + 1) + k - 1]
    <3>1. a + 1 \in Int /\ b \in Int
      OBVIOUS
    <3>2. PICK c \in Int : c = a + 1
      BY <3>1
    <3>3. \A k \in c .. b : t[k] \in S
      BY <2>1, <3>2
    <3>4. /\ SubSeq(t, c, b) \in Seq(S)
          /\ Len(SubSeq(t, c, b)) = IF c <= b THEN b - c + 1 ELSE 0
          /\ \A k \in 1 .. b - c + 1 : SubSeq(t, c, b)[k] = t[c + k - 1]
      BY <3>1, <3>3, SubSeqProperties
    <3>. QED  BY <3>2, <3>4
  <2>3. b - (a + 1) + 1 = b - a /\ (~(a + 1 <= b) => b - a = 0)
    OBVIOUS
  <2>4. \A k \in 1 .. b - a : (a + 1) + k - 1 = a + k
    OBVIOUS
  <2>. QED  BY <2>2, <2>3, <2>4
<1>7. ASSUME NEW k \in 1 .. b - a PROVE u[k] = SubSeq(t, a + 1, b)[k]
  <2>1. a + k \in 1 .. e - 0 /\ 0 + (a + k) - 1 = a + k - 1
    OBVIOUS
  <2>. QED  BY <1>4, <1>5, <1>6, <2>1
<1>. QED  BY <1>4, <1>5, <1>6, <1>7, SameString

\* Where the text is: behind the line that a call works on, up to a backspace
\* that the only call is about to look at.
Placed ==
  /\ cnsl_buff_pos \in Nat /\ cnsl_buff_pos <= Size
  /\ Start \in Nat /\ End \in Nat /\ Start <= End /\ End <= cnsl_buff_pos
  /\ Runners = {} => Start = 0
  /\ \A k \in Runners : Start = calls[k].line + 1
  /\ Over(Letters \cup Ends, cnsl_line_buff, Start, End)
  /\ \/ /\ End = cnsl_buff_pos
        /\ \A j \in 0 .. cnsl_buff_pos - 1 : cnsl_line_buff[j] # Backspace
     \/ /\ End = cnsl_buff_pos - 1 /\ End \in 0 .. cnsl_buff_pos - 1
        /\ cnsl_line_buff[End] = Backspace
        /\ Len(calls) = 1 /\ calls[1].stage = "edit" /\ calls[1].i = End
        /\ \A j \in 0 .. cnsl_buff_pos - 1 : cnsl_line_buff[j] = Backspace => j = End
        /\ Runners = {}

(* The invariant says so. *)
LEMMA TextPlaced == IInv => Placed
<1>. SUFFICES ASSUME IInv PROVE Placed
  OBVIOUS
<1>1. PICK p \in Nat : p = cnsl_buff_pos /\ p <= Size /\ Size \in Nat
  BY Numbers DEF IInv
<1>2. ASSUME NEW k \in Runners
      PROVE  Start = calls[k].line + 1 /\ calls[k].line \in Slots /\ calls[k].line < p
  <2>1. (CHOOSE j \in Runners : TRUE) = k
    BY DEF IInv, Ordered, Working
  <2>2. calls[k] \in Call
    BY DEF Runners, IInv, Typed, TypeOK
  <2>3. calls[k].line \in Slots /\ calls[k].line < p
    BY <1>1, <2>2 DEF Call, IInv, Ordered, Working
  <2>. QED  BY <2>1, <2>3 DEF Start
<1>3. Runners = {} => Start = 0
  BY DEF Start
<1>4. Start \in Nat /\ Start <= p
  <2>1. CASE Runners = {}
    BY <1>1, <1>3, <2>1
  <2>2. CASE Runners # {}
    <3>1. PICK l \in Slots : Start = l + 1 /\ l < p
      BY <1>2, <2>2
    <3>2. l \in Nat
      BY SlotNumber
    <3>. QED  BY <1>1, <3>1, <3>2
  <2>. QED  BY <2>1, <2>2
<1>5. PICK s \in Nat : s = Start /\ s <= p
  BY <1>4
<1>6. End = IF s < p /\ cnsl_line_buff[p - 1] = Backspace THEN p - 1 ELSE p
  BY <1>1, <1>5 DEF End
<1>7. End \in Nat /\ s <= End /\ End <= p
  <2>1. s < p => p - 1 \in Nat /\ s <= p - 1 /\ p - 1 <= p
    BY <1>5
  <2>2. p <= p
    OBVIOUS
  <2>. QED  BY <1>5, <1>6, <2>1, <2>2
<1>8. \/ /\ End = p
         /\ \A j \in 0 .. p - 1 : cnsl_line_buff[j] # Backspace
      \/ /\ End = p - 1 /\ End \in 0 .. p - 1 /\ cnsl_line_buff[End] = Backspace
         /\ Len(calls) = 1 /\ calls[1].stage = "edit" /\ calls[1].i = End
         /\ \A j \in 0 .. p - 1 : cnsl_line_buff[j] = Backspace => j = End
         /\ Runners = {}
  <2>1. CASE \A j \in 0 .. p - 1 : cnsl_line_buff[j] # Backspace
    <3>1. s < p => p - 1 \in 0 .. p - 1
      BY <1>5
    <3>. QED  BY <1>6, <2>1, <3>1
  <2>2. ASSUME NEW e \in 0 .. p - 1, cnsl_line_buff[e] = Backspace
        PROVE  /\ End = p - 1 /\ End \in 0 .. p - 1 /\ cnsl_line_buff[End] = Backspace
               /\ Len(calls) = 1 /\ calls[1].stage = "edit" /\ calls[1].i = End
               /\ \A j \in 0 .. p - 1 : cnsl_line_buff[j] = Backspace => j = End
               /\ Runners = {}
    <3>1. \A j \in 0 .. p - 1 : cnsl_line_buff[j] = Backspace => j = p - 1
      BY <1>1 DEF IInv, Ordered, Erasing
    <3>2. Len(calls) = 1 /\ calls[1].stage = "edit" /\ calls[1].i = e
      BY <1>1, <2>2 DEF IInv, Ordered, Erasing
    <3>3. e = p - 1
      BY <2>2, <3>1
    <3>4. Runners = {}
      <4>1. DOMAIN calls = 1 .. Len(calls)
        BY DEF IInv, Typed, TypeOK
      <4>2. DOMAIN calls = 1 .. 1
        BY <3>2, <4>1
      <4>3. \A k \in 1 .. 1 : k = 1
        OBVIOUS
      <4>. QED  BY <3>2, <4>2, <4>3 DEF Runners
    <3>5. s < p
      <4>1. s = 0
        BY <1>3, <1>5, <3>4
      <4>. QED  BY <4>1
    <3>6. End = p - 1
      BY <1>6, <2>2, <3>3, <3>5
    <3>. QED  BY <2>2, <3>1, <3>2, <3>3, <3>4, <3>6
  <2>. QED  BY <2>1, <2>2
<1>9. ASSUME NEW j \in s .. End - 1
      PROVE  cnsl_line_buff[j] \in Letters \cup Ends
  <2>1. j \in 0 .. p - 1 /\ j # End /\ j >= s
    BY <1>5, <1>7
  <2>2. cnsl_line_buff[j] # Backspace
    BY <1>8, <2>1
  <2>3. cnsl_line_buff[j] # Nul
    <3>1. \A k \in Runners : calls[k].line # j
      <4>. SUFFICES ASSUME NEW k \in Runners PROVE calls[k].line # j
        OBVIOUS
      <4>1. PICK l \in Nat : l = calls[k].line
        BY <1>2, SlotNumber
      <4>2. s = l + 1
        BY <1>2, <1>5, <4>1
      <4>3. l # j
        BY <2>1, <4>2
      <4>. QED  BY <4>1, <4>3
    <3>. QED  BY <1>1, <2>1, <3>1 DEF IInv, Ordered, Dense
  <2>4. cnsl_line_buff[j] \in Char \cup {Nul}
    BY <1>1, <2>1, Numbers DEF IInv
  <2>. QED  BY <2>2, <2>3, <2>4 DEF Char, Ends
<1>. QED  BY <1>1, <1>2, <1>3, <1>5, <1>7, <1>8, <1>9 DEF Placed, Over

\* The text is the part of the buffer from Start to before End.
Located == /\ Placed
           /\ Text = From(cnsl_line_buff, Start, End)
           /\ Text \in Seq(Letters \cup Ends) /\ Len(Text) = End - Start

LEMMA TextIs == IInv => Located
<1>. SUFFICES ASSUME Placed PROVE Located
  BY TextPlaced
<1>1. Text = From(cnsl_line_buff, Start, End)
  BY DEF Text, Part, From
<1>2. PICK s \in Nat, e \in Nat : s = Start /\ e = End /\ s <= e
  BY DEF Placed
<1>3. Over(Letters \cup Ends, cnsl_line_buff, s, e)
  BY <1>2 DEF Placed
<1>. QED  BY <1>1, <1>2, <1>3, FromIs, FromSeq DEF Located

LEMMA TextNext == IInv /\ [Next]_vars => Located /\ Located'
BY TextIs, NextKeeps, PTL

(* The text begins where it did if the same calls work on the same lines. *)
LEMMA StartStays ==
  ASSUME Located, Located', RunnersStay
  PROVE  Start' = Start
<1>1. CASE Runners = {}
  BY <1>1 DEF Located, Placed, RunnersStay
<1>2. ASSUME NEW k \in Runners PROVE Start' = Start
  BY <1>2 DEF Located, Placed, RunnersStay
<1>. QED  BY <1>1, <1>2

(* It stays where it is if nothing is typed or removed. *)
LEMMA TextStays ==
  ASSUME Located, Located', RunnersStay, UNCHANGED <<cnsl_line_buff, cnsl_buff_pos>>
  PROVE  Text' = Text
<1>1. Start' = Start
  BY StartStays
<1>2. End' = End
  BY <1>1 DEF End
<1>. QED  BY <1>1, <1>2 DEF Located

\* What the editor allows.
EditorStep == [Editor!Next]_<<Text, ran, connects>>

(* An output that is done, a command that is repeated and the main loop     *)
(* change no text.                                                          *)
LEMMA StutterImplements ==
  ASSUME Text' = Text, UNCHANGED <<ran, connects>>
  PROVE  EditorStep
BY DEF EditorStep

(* A key is appended to the text, but a backspace, which waits. *)
LEMMA ReceiveImplements ==
  ASSUME IInv, Located, Located', NEW chunk \in Chunks, Receive(chunk)
  PROVE  EditorStep
<1>1. UNCHANGED <<ran, connects>>
  BY DEF Receive
<1>2. PICK c \in Char :
    /\ chunk = <<c>> /\ Aside
    /\ \/ /\ calls = <<>> /\ cnsl_buff_pos = Size
          /\ calls' = <<[stage |-> "overflow", chunk |-> chunk, i |-> 0, line |-> 0]>>
          /\ UNCHANGED <<cnsl_line_buff, cnsl_buff_pos>>
       \/ /\ cnsl_buff_pos < Size /\ cnsl_buff_pos' = cnsl_buff_pos + 1
          /\ cnsl_line_buff' = [k \in Slots |-> IF k = cnsl_buff_pos THEN c
                                                ELSE cnsl_line_buff[k]]
          /\ calls' = Append(calls, [stage |-> "edit", chunk |-> <<>>,
                                     i |-> cnsl_buff_pos, line |-> 0])
          /\ calls # <<>> => c \in Letters /\ Top.stage \in {"echo", "run", "repeat"}
  BY KeyComes
<1>3. CASE UNCHANGED <<cnsl_line_buff, cnsl_buff_pos>> /\ cnsl_buff_pos = Size
  <2>1. RunnersStay
    <3>1. Size + 1 # Size
      BY Constants
    <3>. QED  BY <1>2, <1>3, <3>1, OverflowKeeps
  <2>. QED  BY <1>1, <1>3, <2>1, TextStays, StutterImplements
<1>4. CASE /\ cnsl_buff_pos < Size /\ cnsl_buff_pos' = cnsl_buff_pos + 1
           /\ cnsl_line_buff' = [k \in Slots |-> IF k = cnsl_buff_pos THEN c
                                                 ELSE cnsl_line_buff[k]]
           /\ calls' = Append(calls, [stage |-> "edit", chunk |-> <<>>,
                                      i |-> cnsl_buff_pos, line |-> 0])
           /\ calls # <<>> => c \in Letters /\ Top.stage \in {"echo", "run", "repeat"}
  <2>1. RunnersStay
    BY <1>2, <1>4, StoreKeeps
  <2>2. PICK p \in Nat, s \in Nat : p = cnsl_buff_pos /\ s = Start /\ s <= p /\ p < Size
    BY <1>4 DEF Located, Placed
  <2>3. Start' = s /\ cnsl_buff_pos' = p + 1
    BY <1>4, <2>1, <2>2, StartStays
  <2>4. p \in Slots /\ \A j \in 0 .. p - 1 : j \in Slots /\ j # p
    <3>1. p \in 0 .. Size /\ \A j \in 0 .. p - 1 : j \in 0 .. Size /\ j # p
      BY <2>2, Constants
    <3>. QED  BY <3>1 DEF Slots
  <2>5. cnsl_line_buff'[p] = c /\ \A j \in 0 .. p - 1 : cnsl_line_buff'[j] = cnsl_line_buff[j]
    BY <1>4, <2>2, <2>4
  <2>6. End = p
    <3>1. ASSUME Len(calls) = 1, calls[1].stage = "edit" PROVE FALSE
      <4>1. calls # <<>>
        BY <3>1
      <4>. QED  BY <1>4, <3>1, <4>1, TopIs DEF IInv, Ordered
    <3>. QED  BY <2>2, <3>1 DEF Located, Placed
  <2>7. \A j \in s .. p - 1 : /\ cnsl_line_buff'[j] = cnsl_line_buff[j]
                              /\ cnsl_line_buff[j] \in Letters \cup Ends
    <3>1. \A j \in s .. p - 1 : j \in 0 .. p - 1
      BY <2>2
    <3>2. \A j \in s .. p - 1 : cnsl_line_buff[j] \in Letters \cup Ends
      BY <2>2, <2>6 DEF Located, Placed, Over
    <3>. QED  BY <2>5, <3>1, <3>2
  <2>8. Text = From(cnsl_line_buff, s, p) /\ Text' = From(cnsl_line_buff', s, End')
    BY <2>2, <2>3, <2>6 DEF Located
  <2>9. CASE c = Backspace
    <3>1. End' = p
      <4>1. p \in 0 .. p + 1 - 1 /\ p + 1 - 1 = p
        OBVIOUS
      <4>. QED  BY <2>3, <2>5, <2>9, <4>1 DEF Located, Placed
    <3>2. Text' = Text
      BY <2>2, <2>7, <2>8, <3>1, FromStays
    <3>. QED  BY <1>1, <3>2, StutterImplements
  <2>10. CASE c # Backspace
    <3>1. c \in Letters \cup Ends
      BY <2>10 DEF Char, Ends
    <3>2. End' = p + 1
      <4>1. p + 1 - 1 = p
        OBVIOUS
      <4>. QED  BY <2>3, <2>5, <2>10, <4>1 DEF Located, Placed
    <3>3. Text' = Append(Text, c)
      <4>1. PICK S, b : S = Letters \cup Ends /\ b = cnsl_line_buff'
        OBVIOUS
      <4>2. b[p] = c /\ From(cnsl_line_buff, s, p) = From(b, s, p)
        BY <2>2, <2>5, <2>7, <4>1, FromStays
      <4>3. Over(S, b, s, p + 1)
        <5>1. \A j \in s .. p + 1 - 1 : j = p \/ j \in s .. p - 1
          BY <2>2
        <5>. QED  BY <2>7, <3>1, <4>1, <4>2, <5>1 DEF Over
      <4>4. From(b, s, p + 1) = Append(From(b, s, p), b[p])
        <5>1. s <= p
          BY <2>2
        <5>. QED  BY ONLY <4>3, <5>1, FromGrows, s \in Nat, p \in Nat
      <4>. QED  BY <2>8, <3>2, <4>1, <4>2, <4>4
    <3>4. Len(Text) < Size
      <4>1. Len(Text) = p - s
        BY <2>2, <2>6 DEF Located
      <4>. QED  BY <2>2, <4>1, Constants
    <3>5. Editor!Type
      BY <1>1, <3>1, <3>3, <3>4 DEF Editor!Type
    <3>. QED  BY <3>5 DEF EditorStep, Editor!Next
  <2>. QED  BY <2>9, <2>10
<1>. QED  BY <1>2, <1>3, <1>4

(* An overflow throws away a text that is full, and begins with the key. *)
LEMMA StartOverImplements ==
  ASSUME IInv, Located, Located', StartOver
  PROVE  EditorStep
<1>1. UNCHANGED <<ran, connects>> /\ At("overflow") /\ calls # <<>> /\ Top.stage = "overflow"
  BY DEF StartOver, Goes, At
<1>2. calls[1].stage = "overflow" /\ Len(calls) = 1 /\ DOMAIN calls = 1 .. Len(calls)
  BY <1>1, TopIs DEF IInv, Ordered, Nested
<1>3. Runners = {}
  <2>1. \A k \in 1 .. 1 : k = 1
    OBVIOUS
  <2>. QED  BY <1>2, <2>1 DEF Runners
<1>4. Len(Text) = Size
  <2>1. Start = 0 /\ End = Size
    BY <1>1, <1>2, <1>3 DEF IInv, Ordered, Nested, Located, Placed
  <2>. QED  BY <2>1, Constants DEF Located
<1>5. PICK c \in Char : cnsl_line_buff'[0] = c /\ cnsl_buff_pos' = 1 /\ Runners' = {}
  BY StartOverKeeps
<1>6. Start' = 0
  BY <1>5 DEF Located, Placed
<1>7. 0 \in 0 .. 1 - 1 /\ 1 - 1 = 0
  OBVIOUS
<1>8. CASE c = Backspace
  <2>1. End' = 0
    BY <1>5, <1>7, <1>8 DEF Located, Placed
  <2>2. Text' = <<>>
    BY <1>6, <2>1 DEF Located
  <2>3. Editor!Overflow
    BY <1>1, <1>4, <2>2 DEF Editor!Overflow
  <2>. QED  BY <2>3 DEF EditorStep, Editor!Next
<1>9. CASE c # Backspace
  <2>1. End' = 1
    BY <1>5, <1>7, <1>9 DEF Located, Placed
  <2>2. c \in Letters \cup Ends
    BY <1>9 DEF Char, Ends
  <2>3. Text' = <<c>>
    <3>1. PICK t : t = Text'
      OBVIOUS
    <3>2. t \in Seq(Letters \cup Ends) /\ Len(t) = 1 /\ t = From(cnsl_line_buff', 0, 1)
      BY <1>6, <2>1, <3>1 DEF Located
    <3>3. t[1] = c
      <4>1. 1 \in 1 .. 1 - 0 /\ 0 + 1 - 1 = 0
        OBVIOUS
      <4>. QED  BY <1>5, <3>2, <4>1 DEF From
    <3>4. \A k \in 1 .. 1 : k = 1
      OBVIOUS
    <3>5. <<c>> \in Seq(Letters \cup Ends) /\ Len(<<c>>) = 1 /\ <<c>>[1] = c
      BY <2>2
    <3>6. t = <<c>>
      BY <3>2, <3>3, <3>4, <3>5, SameString
    <3>. QED  BY <3>1, <3>6
  <2>4. Editor!Overflow
    BY <1>1, <1>4, <2>2, <2>3 DEF Editor!Overflow
  <2>. QED  BY <2>4 DEF EditorStep, Editor!Next
<1>. QED  BY <1>8, <1>9

(* A backspace erases the last character of the text, if there is one, and  *)
(* any other key that is looked at leaves it alone.                         *)
LEMMA EditImplements ==
  ASSUME IInv, Located, Located', Edit
  PROVE  EditorStep
<1>1. UNCHANGED <<ran, connects>> /\ RunnersStay
  BY EditKeeps DEF Edit, history
<1>2. CASE cnsl_line_buff[Top.i] # Backspace
  <2>1. UNCHANGED <<cnsl_line_buff, cnsl_buff_pos>>
    BY <1>2 DEF Edit, buffer
  <2>. QED  BY <1>1, <2>1, TextStays, StutterImplements
<1>3. CASE cnsl_line_buff[Top.i] = Backspace
  <2>1. PICK i \in Nat : i = Top.i /\ i \in 0 .. cnsl_buff_pos - 1
    BY Looks
  <2>2. /\ i = cnsl_buff_pos - 1 /\ cnsl_line_buff' = cnsl_line_buff
        /\ cnsl_buff_pos' = IF i > 0 THEN i - 1 ELSE 0
    BY <1>3, <2>1, ShiftedIs
  <2>3. End = i /\ Runners = {} /\ Start = 0
    BY <1>3, <2>1, <2>2 DEF Located, Placed
  <2>4. Start' = 0
    BY <1>1, <2>3, StartStays
  <2>5. PICK q \in Nat : q = cnsl_buff_pos' /\ q <= i /\ (i > 0 => q = i - 1) /\ (i = 0 => q = 0)
    BY <2>2
  <2>6. End' = q
    <3>1. \A j \in 0 .. q - 1 : j \in 0 .. cnsl_buff_pos - 1 /\ j # i
      BY <2>2, <2>5
    <3>2. \A j \in 0 .. q - 1 : cnsl_line_buff'[j] # Backspace
      BY <2>2, <2>3, <3>1 DEF Located, Placed
    <3>. QED  BY <2>5, <3>2 DEF Located, Placed
  <2>7. /\ Text = From(cnsl_line_buff, 0, i) /\ Text' = From(cnsl_line_buff, 0, q)
        /\ Len(Text) = i - 0 /\ Text \in Seq(Letters \cup Ends)
    BY <2>2, <2>3, <2>4, <2>6 DEF Located
  <2>8. CASE i = 0
    <3>1. Text' = Text
      BY <2>5, <2>7, <2>8
    <3>. QED  BY <1>1, <3>1, StutterImplements
  <2>9. CASE i > 0
    <3>1. q = i - 1 /\ 0 <= q /\ q <= i /\ i - 0 - 1 = q /\ 0 + 1 = 1 /\ i - 0 # 0
      BY <2>5, <2>9
    <3>2. From(cnsl_line_buff, 0, q) = SubSeq(From(cnsl_line_buff, 0, i), 0 + 1, q)
      <4>1. PICK S, buff : S = Letters \cup Ends /\ buff = cnsl_line_buff
        OBVIOUS
      <4>2. Over(S, buff, 0, i)
        BY <2>3, <4>1 DEF Located, Placed
      <4>3. 0 \in Nat
        OBVIOUS
      <4>4. From(buff, 0, q) = SubSeq(From(buff, 0, i), 0 + 1, q)
        BY ONLY <3>1, <4>2, <4>3, FromPart, i \in Nat, q \in Nat
      <4>. QED  BY <4>1, <4>4
    <3>3. Text' = SubSeq(Text, 1, Len(Text) - 1) /\ Text # <<>>
      BY <2>7, <3>1, <3>2
    <3>4. Editor!Erase
      BY <1>1, <3>3 DEF Editor!Erase
    <3>. QED  BY <3>4 DEF EditorStep, Editor!Next
  <2>. QED  BY <2>1, <2>8, <2>9
<1>. QED  BY <1>2, <1>3

(* The end of a line runs what was typed before it, and leaves the rest. *)
LEMMA GivesImplements ==
  ASSUME IInv, Located, Located', FindLineEnd, NEW line, NEW stage, Gives(line, stage)
  PROVE  EditorStep
<1>1. PICK p \in Nat : p = cnsl_buff_pos /\ p <= Size /\ Size \in Nat
  BY Numbers DEF IInv
<1>2. line \in Nat /\ line < p /\ line \in 0 .. p - 1 /\ line \in Slots
  <2>1. line \in 0 .. p - 1
    BY <1>1 DEF Gives
  <2>2. line \in Slots
    BY <1>1, <2>1, Numbers DEF IInv
  <2>. QED  BY <2>1, <2>2
<1>3. Start = 0 /\ End = p /\ Over(Letters \cup Ends, cnsl_line_buff, 0, p)
  <2>1. Start = 0 /\ \A j \in 0 .. p - 1 : cnsl_line_buff[j] # Backspace
    BY <1>1, LoopDone DEF Gives, Located, Placed
  <2>2. End = p
    BY <1>1, <2>1 DEF Located, Placed
  <2>. QED  BY <2>1, <2>2 DEF Located, Placed
<1>4. Start' = line + 1 /\ End' = p
  <2>1. Len(calls) \in Runners' /\ calls'[Len(calls)].line = line
    BY GivesKeeps
  <2>2. cnsl_buff_pos' = p
    BY <1>1 DEF Gives
  <2>. QED  BY <2>1, <2>2 DEF Located, Placed
<1>5. PICK S, old : S = Letters \cup Ends /\ old = cnsl_line_buff
  OBVIOUS
<1>6. PICK k \in Nat : k = line + 1
  BY <1>2
<1>7. /\ Text = From(old, 0, p) /\ Text' = From(cnsl_line_buff', k, p)
      /\ Text \in Seq(S) /\ Len(Text) = p - 0
  BY <1>3, <1>4, <1>5, <1>6 DEF Located
<1>8. Text' = From(old, k, p)
  <2>1. \A j \in k .. p - 1 : j # line /\ j \in 0 .. p - 1
    BY <1>2, <1>6
  <2>2. \A j \in k .. p - 1 : cnsl_line_buff'[j] = old[j]
    BY <1>1, <1>5, <2>1, Numbers DEF Gives, IInv
  <2>. QED  BY <1>7, <2>2, FromStays
<1>9. Part(0, line) = SubSeq(Text, 0 + 1, line) /\ Text' = SubSeq(Text, k + 1, p)
  <2>1. Over(S, old, 0, p)
    BY <1>3, <1>5
  <2>2. 0 \in Nat /\ 0 <= line /\ line <= p /\ k <= p /\ p <= p
    BY <1>2, <1>6
  <2>3. line \in Nat
    BY <1>2
  <2>4. From(old, 0, line) = SubSeq(From(old, 0, p), 0 + 1, line)
    BY ONLY <2>1, <2>2, <2>3, FromPart, p \in Nat
  <2>5. From(old, k, p) = SubSeq(From(old, 0, p), k + 1, p)
    BY ONLY <2>1, <2>2, FromPart, p \in Nat, k \in Nat
  <2>6. Part(0, line) = From(old, 0, line)
    BY <1>5 DEF Part, From
  <2>. QED  BY <1>7, <1>8, <2>4, <2>5, <2>6
<1>10. k \in DOMAIN Text /\ Editor!IsLine(k)
  <2>1. DOMAIN Text = 1 .. p /\ \A i \in 1 .. p : Text[i] = old[i - 1]
    <3>1. p - 0 = p /\ \A i \in 1 .. p : 0 + i - 1 = i - 1
      OBVIOUS
    <3>. QED  BY <1>7, <3>1 DEF From
  <2>2. k \in 1 .. p /\ k - 1 = line
    BY <1>2, <1>6
  <2>3. Text[k] \in Ends
    BY <1>5, <1>6, <2>1, <2>2 DEF Gives
  <2>4. ASSUME NEW i \in 1 .. k - 1 PROVE Text[i] \notin Ends
    <3>1. i \in 1 .. p /\ i - 1 # line /\ i - 1 \in 0 .. p - 1
      BY <2>2
    <3>2. i - 1 \in Slots
      BY <1>1, <3>1, Numbers DEF IInv
    <3>3. old[i - 1] \notin Ends
      BY <1>2, <1>5, <3>1, <3>2 DEF Gives, IInv, Ordered, Ending
    <3>. QED  BY <2>1, <3>1, <3>3
  <2>. QED  BY <2>1, <2>2, <2>3, <2>4 DEF Editor!IsLine
<1>11. /\ ran' = Append(ran, SubSeq(Text, 1, k - 1))
       /\ Text' = SubSeq(Text, k + 1, Len(Text)) /\ UNCHANGED connects
  <2>1. k - 1 = line /\ 0 + 1 = 1 /\ p - 0 = p
    BY <1>2, <1>6
  <2>. QED  BY <1>7, <1>9, <2>1, LineEnds DEF Gives
<1>12. Editor!Enter
  BY <1>10, <1>11 DEF Editor!Enter
<1>. QED  BY <1>12 DEF EditorStep, Editor!Next

LEMMA FindLineEndImplements ==
  ASSUME IInv, Located, Located', FindLineEnd
  PROVE  EditorStep
<1>1. CASE \E line, stage : Gives(line, stage)
  BY <1>1, GivesImplements
<1>2. CASE /\ \A j \in Slots : cnsl_line_buff[j] \notin Ends
           /\ calls' = Front(calls) /\ Aside
           /\ UNCHANGED <<cnsl_line_buff, cnsl_buff_pos>>
  <2>1. RunnersStay
    BY <1>2, LoopDone, LeaveKeeps
  <2>2. UNCHANGED <<ran, connects>>
    BY <1>2, LineEnds DEF Aside
  <2>. QED  BY <1>2, <2>1, <2>2, TextStays, StutterImplements
<1>. QED  BY <1>1, <1>2, LineEnds

(* A line that is removed is in the text no longer, and the rest moves. *)
LEMMA FinishImplements ==
  ASSUME IInv, Located, Located', Finish
  PROVE  EditorStep
<1>1. PICK line : Removes(line)
  BY Removed
<1>2. Runners' = {}
  BY FinishKeeps
<1>3. PICK p \in Nat, d \in Nat, q \in Nat :
        /\ p = cnsl_buff_pos /\ d = line + 1 /\ q = cnsl_buff_pos' /\ p = q + d
  <2>1. line \in Nat /\ line + 1 <= cnsl_buff_pos /\ cnsl_buff_pos \in Nat
    BY <1>1, Numbers DEF Removes, IInv
  <2>. QED  BY <1>1, <2>1 DEF Removes
<1>4. Len(calls) \in Runners /\ calls[Len(calls)].line = line
  <2>1. calls # <<>> /\ Top.line = line /\ Runners = {Len(calls)}
    BY <1>1 DEF Removes
  <2>. QED  BY <2>1, TopIs DEF IInv, Ordered
<1>5. Start = d /\ End = p /\ \A j \in 0 .. p - 1 : cnsl_line_buff[j] # Backspace
  BY <1>3, <1>4 DEF Located, Placed
<1>6. \A j \in 0 .. q - 1 : j + d \in 0 .. p - 1 /\ cnsl_line_buff'[j] = cnsl_line_buff[j + d]
  BY <1>1, <1>3 DEF Removes
<1>7. Start' = 0 /\ End' = q
  <2>1. \A j \in 0 .. q - 1 : cnsl_line_buff'[j] # Backspace
    BY <1>5, <1>6
  <2>. QED  BY <1>2, <1>3, <2>1 DEF Located, Placed
<1>8. Text' = Text
  <2>1. Text = From(cnsl_line_buff, d, p) /\ Text' = From(cnsl_line_buff', 0, q)
    BY <1>5, <1>7 DEF Located
  <2>3. PICK old, moved : old = cnsl_line_buff /\ moved = cnsl_line_buff'
    OBVIOUS
  <2>4. \A j \in 0 .. q - 1 : moved[j] = old[j + d]
    BY <1>6, <2>3
  <2>5. From(moved, 0, q) = From(old, d, q + d)
    BY ONLY <2>4, FromMoves, q \in Nat, d \in Nat
  <2>. QED  BY <1>3, <2>1, <2>3, <2>5
<1>9. UNCHANGED <<ran, connects>>
  BY <1>1 DEF Removes
<1>. QED  BY <1>8, <1>9, StutterImplements

(* A new terminal has typed nothing. *)
LEMMA ConnectImplements ==
  ASSUME IInv, Located, Located', Connect
  PROVE  EditorStep
<1>1. cnsl_buff_pos' = 0 /\ connects' = connects + 1 /\ ran' = ran
  BY DEF Connect
<1>2. End' - Start' = 0
  <2>1. End' = 0 /\ Start' = 0
    BY <1>1 DEF Located, Placed
  <2>. QED  BY <2>1
<1>3. Text' = <<>>
  BY <1>2 DEF Located
<1>4. Editor!Connect
  BY <1>1, <1>3 DEF Editor!Connect
<1>. QED  BY <1>4 DEF EditorStep, Editor!Next

(* Every step of the console is one of the editor, or changes no text. *)
LEMMA NextImplements == IInv /\ [Next]_vars => EditorStep
<1>. SUFFICES ASSUME IInv, [Next]_vars PROVE EditorStep
  OBVIOUS
<1>1. Located /\ Located'
  BY TextNext
<1>2. CASE Echoed
  <2>1. RunnersStay /\ UNCHANGED <<cnsl_line_buff, cnsl_buff_pos, ran, connects>>
    BY <1>2, EchoedKeeps DEF Echoed, buffer, history
  <2>. QED  BY <1>1, <2>1, TextStays, StutterImplements
<1>3. CASE Repeated
  <2>1. RunnersStay /\ UNCHANGED <<cnsl_line_buff, cnsl_buff_pos, ran, connects>>
    BY <1>3, RepeatedKeeps DEF Repeated, buffer, history
  <2>. QED  BY <1>1, <2>1, TextStays, StutterImplements
<1>4. CASE CnslRun
  <2>1. RunnersStay /\ UNCHANGED <<cnsl_line_buff, cnsl_buff_pos, ran, connects>>
    BY <1>4, CnslRunKeeps DEF CnslRun, buffer
  <2>. QED  BY <1>1, <2>1, TextStays, StutterImplements
<1>5. CASE UNCHANGED vars
  <2>1. UNCHANGED <<cnsl_line_buff, cnsl_buff_pos, calls, ran, connects>>
    BY <1>5 DEF vars, buffer, history
  <2>2. RunnersStay
    BY <2>1 DEF RunnersStay, Runners
  <2>. QED  BY <1>1, <2>1, <2>2, TextStays, StutterImplements
<1>. QED  BY <1>1, <1>2, <1>3, <1>4, <1>5, ReceiveImplements, StartOverImplements, EditImplements,
             FindLineEndImplements, FinishImplements, ConnectImplements
          DEF Next, Loop

(* Nothing was typed before the console boots. *)
LEMMA InitImplements == KeyByKey /\ Init => Editor!Init
<1>. SUFFICES ASSUME KeyByKey, Init PROVE Editor!Init
  OBVIOUS
<1>1. Located
  BY Boots, TextIs
<1>2. End - Start = 0
  BY <1>1 DEF Init, Located, Placed
<1>3. Text = <<>>
  BY <1>1, <1>2 DEF Located
<1>. QED  BY <1>3 DEF Init, Editor!Init

(* For keys that come one by one console.c is the editor it seems to be: no *)
(* key is lost, doubled or moved to another line, also of those that come   *)
(* while a command prints, and each line is run once, as it was typed       *)
(* (console.c:223-280).                                                     *)
THEOREM Refinement == KeyByKey => (Spec => EditorImplemented)
<1>. QED  BY InitImplements, NextImplements, Invariance, PTL
          DEF Spec, EditorImplemented, Editor!Spec, EditorStep
=============================================================================
