--------------------------- MODULE DebugLogProofs ---------------------------
(* Proofs about DebugLog: what becomes of a message whose buffer is used    *)
(* again while it is printed, and of a terminal that opens and closes the   *)
(* port meanwhile, for every size of the buffer and the FIFO, however deep  *)
(* the functions nest.                                                      *)
EXTENDS DebugLog, SequenceTheorems, TLAPS

-----------------------------------------------------------------------------
\* The outputs under way, and those of calls of debug_log.
Writes == {k \in DOMAIN stack : stack[k].fn = "usb_cdc_write"}
Outputs == {k \in Writes : stack[k].id # 0}

\* What stands at place k of the buffer since call c began: what the last
\* message left there that went through it.
Newest(ch, c, k) ==
  \E w \in Writers(c, k) : (\A v \in Writers(c, k) : v <= w) /\ ch = LeftAt(w, k)

\* What may have been sent from there.
Sent(ch, c, k) == \E w \in Writers(c, k) : ch = LeftAt(w, k)

\* An output is that of its call: it has written what the port has taken, and
\* it ends when that is all of it, or at once when there is no terminal.
InStep(k) ==
  LET f == stack[k] c == f.id
  IN /\ f.l = calls[c].l /\ f.l < BuffSize
     /\ calls[c].entry = <<>>
     /\ Len(calls[c].out) = f.sent
     /\ IF calls[c].connected THEN f.at = "end" => f.sent = f.l
        ELSE f.at = "end" /\ f.sent = 0

\* What it has sent is its own text, or that of a message in its output; what
\* the buffer has is the newest.
Unmixed(k) ==
  LET f == stack[k] c == f.id
  IN /\ \A i \in 1 .. f.sent : Sent(calls[c].out[i], c, i)
     /\ \A i \in 1 .. f.l : Newest(line_buff[i], c, i)

\* The messages in the output of a call are calls.
Nesting == \A c \in DOMAIN calls : calls[c].nested \subseteq DOMAIN calls

\* No call has two outputs.
OneOutput == \A j, k \in Outputs : stack[j].id = stack[k].id => j = k

\* A call that has ended has left its message.
Left(c) ==
  /\ Len(calls[c].entry) = IF calls[c].log THEN calls[c].l ELSE 0
  /\ Len(calls[c].out) = IF calls[c].connected THEN calls[c].l ELSE 0
  /\ \A k \in DOMAIN calls[c].entry : Newest(calls[c].entry[k], c, k)
  /\ \A k \in DOMAIN calls[c].out : Sent(calls[c].out[k], c, k)

\* What the calls were does not change.
Lasting ==
  \A d \in DOMAIN calls :
    d \in DOMAIN calls' /\ calls'[d].l = calls[d].l /\ calls'[d].wrote = calls[d].wrote

TextInv ==
  /\ TypeOK
  /\ Nesting /\ OneOutput
  /\ \A k \in Outputs : InStep(k) /\ Unmixed(k)
  /\ \A c \in DOMAIN calls : Ended(c) => Left(c)
-----------------------------------------------------------------------------
\* A callback that was told of the present state of the port, or its opposite.
Telling(k, dtr) == stack[k].fn = "line_state" /\ stack[k].dtr = dtr

\* last_dtr is what the port is, unless a callback that tells so is under way.
Followed ==
  ~disturbed => last_dtr = opened \/ \E k \in DOMAIN stack : Telling(k, opened)

\* Where a callback is that has begun a replay.
Showing == {"log", "rest", "live", "message"}

\* A terminal that is open has been given the log, or is being given it, or it
\* opened in the output of a callback that tells of its closing.
GivenTheLog ==
  opened /\ ~disturbed /\ ~full =>
    \/ replayed = "yes"
    \/ replayed = "begun" /\ \E k \in DOMAIN stack : Telling(k, TRUE) /\ stack[k].at \in Showing
    \/ At("line_state", "start") /\ Top.dtr /\ ~last_dtr
    \/ \E k \in DOMAIN stack : Telling(k, FALSE)

TerminalInv == TypeOK /\ Followed /\ GivenTheLog
-----------------------------------------------------------------------------
(* The frames: an output and a callback have different fields. *)
LEMMA FrameKinds ==
  ASSUME NEW f \in Frame
  PROVE  /\ f.fn \in {"usb_cdc_write", "line_state"}
         /\ f.fn = "usb_cdc_write" =>
              f \in [fn : {"usb_cdc_write"}, id : Nat, l : Nat, sent : Nat,
                    at : {"loop", "task", "end"}]
         /\ f.fn = "line_state" =>
              f \in [fn : {"line_state"}, dtr : BOOLEAN,
                    at : {"start", "log", "rest", "live", "message", "end"}]
BY DEF Frame

(* A function is called: its frame is the new top. *)
LEMMA Pushed ==
  ASSUME NEW s \in Seq(Frame), NEW f \in Frame
  PROVE  /\ Append(s, f) \in Seq(Frame) /\ Len(s) \in Nat
         /\ DOMAIN s = 1 .. Len(s) /\ DOMAIN Append(s, f) = 1 .. Len(s) + 1
         /\ \A k \in DOMAIN s : k \in DOMAIN Append(s, f) /\ Append(s, f)[k] = s[k]
         /\ Append(s, f)[Len(s) + 1] = f
BY AppendProperties, LenProperties

(* It returns: the frame below is. *)
LEMMA Popped ==
  ASSUME NEW s \in Seq(Frame), s # <<>>
  PROVE  /\ Front(s) \in Seq(Frame) /\ Len(s) \in Nat \ {0}
         /\ DOMAIN s = 1 .. Len(s) /\ DOMAIN Front(s) = 1 .. Len(s) - 1
         /\ Len(Front(s)) = Len(s) - 1
         /\ Last(s) = s[Len(s)] /\ Last(s) \in Frame /\ Len(s) \in DOMAIN s
         /\ \A k \in DOMAIN Front(s) : k \in DOMAIN s /\ Front(s)[k] = s[k]
<1>1. Len(s) \in Nat \ {0} /\ DOMAIN s = 1 .. Len(s)
  BY EmptySeq, LenProperties
<1>2. 1 \in 1 .. Len(s) + 1 /\ Len(s) - 1 \in 0 .. Len(s) /\ Len(s) - 1 \in Nat
  BY <1>1
<1>3. /\ Front(s) \in Seq(Frame) /\ Len(Front(s)) = Len(s) - 1
      /\ \A k \in 1 .. Len(s) - 1 : Front(s)[k] = s[k]
  BY <1>1, <1>2, SubSeqProperties DEF Front
<1>4. Last(s) = s[Len(s)] /\ Last(s) \in Frame
  BY <1>1, ElementOfSeq DEF Last
<1>. QED  BY <1>1, <1>3, <1>4, LenProperties

(* It goes on: only its own frame changes. *)
LEMMA Replaced ==
  ASSUME NEW s \in Seq(Frame), s # <<>>, NEW f \in Frame
  PROVE  /\ Append(Front(s), f) \in Seq(Frame) /\ Len(s) \in Nat \ {0}
         /\ DOMAIN s = 1 .. Len(s) /\ DOMAIN Append(Front(s), f) = 1 .. Len(s)
         /\ Len(Append(Front(s), f)) = Len(s)
         /\ \A k \in 1 .. Len(s) - 1 : Append(Front(s), f)[k] = s[k]
         /\ Append(Front(s), f)[Len(s)] = f
<1>1. /\ Front(s) \in Seq(Frame) /\ Len(s) \in Nat \ {0}
      /\ DOMAIN s = 1 .. Len(s) /\ DOMAIN Front(s) = 1 .. Len(s) - 1
      /\ \A k \in DOMAIN Front(s) : Front(s)[k] = s[k]
      /\ Len(Front(s)) = Len(s) - 1
  BY Popped
<1>3. Len(Front(s)) + 1 = Len(s)
  BY <1>1
<1>4. /\ Append(Front(s), f) \in Seq(Frame)
      /\ DOMAIN Append(Front(s), f) = 1 .. Len(Front(s)) + 1
      /\ \A k \in DOMAIN Front(s) : Append(Front(s), f)[k] = Front(s)[k]
      /\ Append(Front(s), f)[Len(Front(s)) + 1] = f
  BY <1>1, Pushed
<1>5. Len(Append(Front(s), f)) = Len(Front(s)) + 1
  BY <1>1, AppendProperties
<1>. QED  BY <1>1, <1>3, <1>4, <1>5

(* The function on top. *)
LEMMA TopFrame ==
  ASSUME TypeOK, NEW fn, NEW at, At(fn, at)
  PROVE  /\ stack \in Seq(Frame) /\ stack # <<>> /\ Len(stack) \in DOMAIN stack
         /\ Top = stack[Len(stack)] /\ Top \in Frame /\ Top.fn = fn /\ Top.at = at
BY Popped DEF At, Idle, Top, TypeOK
\* The frame of a callback that is there.
Further(f, at) == [f EXCEPT !.at = at]

(* The frame of a callback that goes on. *)
LEMMA CallbackFields ==
  ASSUME NEW f \in [fn : {"line_state"}, dtr : BOOLEAN,
                    at : {"start", "log", "rest", "live", "message", "end"}],
         NEW at \in {"start", "log", "rest", "live", "message", "end"}
  PROVE  /\ Further(f, at) \in Frame /\ Further(f, at).fn = "line_state"
         /\ Further(f, at).dtr = f.dtr /\ Further(f, at).at = at
<1>1. Further(f, at) \in [fn : {"line_state"}, dtr : BOOLEAN,
                    at : {"start", "log", "rest", "live", "message", "end"}]
  BY DEF Further
<1>2. Further(f, at).fn = "line_state" /\ Further(f, at).at = at
  BY DEF Further
<1>3. Further(f, at).dtr = f.dtr
  BY Zenon DEF Further
<1>. QED  BY <1>1, <1>2, <1>3 DEF Frame

(* A callback goes on: the rest of the stack stays. *)
LEMMA CallbackGoesOn ==
  ASSUME TypeOK, NEW at, At("line_state", at), NEW next \in {"start", "log", "rest", "live", "message", "end"},
         NEW s, s = SetTop(Further(Top, next)), NEW n, n = Len(stack)
  PROVE  /\ stack \in Seq(Frame) /\ stack # <<>> /\ n \in DOMAIN stack /\ n \in Nat \ {0}
         /\ stack[n] = Top /\ Top.fn = "line_state" /\ Top.at = at /\ Top.dtr \in BOOLEAN
         /\ s \in Seq(Frame) /\ DOMAIN s = DOMAIN stack /\ DOMAIN stack = 1 .. n /\ Len(s) = n
         /\ \A k \in DOMAIN stack : k # n => s[k] = stack[k]
         /\ s[n] \in Frame /\ s[n].fn = "line_state" /\ s[n].dtr = Top.dtr /\ s[n].at = next
<1>1. /\ stack \in Seq(Frame) /\ stack # <<>> /\ n \in DOMAIN stack
      /\ Top = stack[n] /\ Top \in Frame /\ Top.fn = "line_state" /\ Top.at = at
  BY TopFrame
<1>2. Top \in [fn : {"line_state"}, dtr : BOOLEAN,
                    at : {"start", "log", "rest", "live", "message", "end"}]
  BY <1>1, FrameKinds
<1>. DEFINE f == Further(Top, next)
<1>3. f \in Frame /\ f.fn = "line_state" /\ f.dtr = Top.dtr /\ f.at = next
  BY <1>2, CallbackFields
<1>4. s = Append(Front(stack), f)
  BY DEF SetTop
<1>. HIDE DEF f
<1>5. /\ Append(Front(stack), f) \in Seq(Frame) /\ Len(stack) \in Nat \ {0}
      /\ DOMAIN stack = 1 .. Len(stack) /\ DOMAIN Append(Front(stack), f) = 1 .. Len(stack)
      /\ Len(Append(Front(stack), f)) = Len(stack)
      /\ \A k \in 1 .. Len(stack) - 1 : Append(Front(stack), f)[k] = stack[k]
      /\ Append(Front(stack), f)[Len(stack)] = f
  BY <1>1, <1>3, Replaced
<1>6. /\ s \in Seq(Frame) /\ n \in Nat \ {0} /\ DOMAIN stack = 1 .. n /\ DOMAIN s = 1 .. n
      /\ Len(s) = n /\ (\A k \in 1 .. n - 1 : s[k] = stack[k]) /\ s[n] = f
  BY <1>4, <1>5
<1>7. \A k \in DOMAIN stack : k # n => s[k] = stack[k]
  BY <1>6
<1>8. Top.dtr \in BOOLEAN
  BY <1>2
<1>. QED  BY <1>1, <1>3, <1>6, <1>7, <1>8

-----------------------------------------------------------------------------
(* Steps that leave the callbacks alone. *)
LEMMA CallbacksAlone ==
  ASSUME TerminalInv, UNCHANGED <<opened, last_dtr, replayed>>,
         disturbed => disturbed', full => full', ~At("line_state", "start"),
         \A k \in DOMAIN stack : stack[k].fn = "line_state" =>
           k \in DOMAIN stack' /\ stack'[k] = stack[k]
  PROVE  Followed' /\ GivenTheLog'
<1>1. \A k \in DOMAIN stack, dtr \in BOOLEAN :
        Telling(k, dtr) => k \in DOMAIN stack' /\ Telling(k, dtr)' /\ stack'[k].at = stack[k].at
  BY DEF Telling
<1>2. opened \in BOOLEAN
  BY DEF TerminalInv, TypeOK
<1>3. Followed'
  BY <1>1, <1>2 DEF TerminalInv, Followed
<1>4. ASSUME opened', ~disturbed', ~full'
      PROVE  \/ replayed' = "yes"
             \/ replayed' = "begun" /\ \E k \in DOMAIN stack' :
                                       Telling(k, TRUE)' /\ stack'[k].at \in Showing
             \/ \E k \in DOMAIN stack' : Telling(k, FALSE)'
  <2>1. opened /\ ~disturbed /\ ~full
    BY <1>4
  <2>2. \A k \in DOMAIN stack : Telling(k, TRUE) /\ stack[k].at \in Showing =>
          k \in DOMAIN stack' /\ Telling(k, TRUE)' /\ stack'[k].at \in Showing
    BY <1>1
  <2>3. \A k \in DOMAIN stack : Telling(k, FALSE) => k \in DOMAIN stack' /\ Telling(k, FALSE)'
    BY <1>1
  <2>. QED  BY <2>1, <2>2, <2>3 DEF TerminalInv, GivenTheLog
<1>. QED  BY <1>3, <1>4 DEF GivenTheLog, Showing

(* The terminal opens or closes the port, or repeats what it is. *)
LEMMA SetLineStateKeeps ==
  ASSUME TerminalInv, NEW dtr \in BOOLEAN, SetLineState(dtr)
  PROVE  Followed' /\ GivenTheLog'
<1>. DEFINE f == LineState(dtr)
<1>1. opened \in BOOLEAN /\ last_dtr \in BOOLEAN /\ stack \in Seq(Frame)
  BY DEF TerminalInv, TypeOK
<1>2. f \in Frame /\ f.fn = "line_state" /\ f.dtr = dtr /\ f.at = "start"
  BY DEF LineState, Frame
<1>3. /\ stack' = Append(stack, f) /\ opened' = dtr
      /\ replayed' = IF dtr = opened THEN replayed ELSE "no"
      /\ UNCHANGED <<last_dtr, disturbed, full>>
      /\ ~At("line_state", "start")
  BY DEF SetLineState, log_buff, Calls, InTask, At, Idle
<1>4. PICK n : n = Len(stack) + 1
  OBVIOUS
<1>5. /\ DOMAIN stack' = 1 .. n /\ stack'[n] = f /\ n \in DOMAIN stack' /\ n \in Nat
      /\ stack' \in Seq(Frame)
      /\ \A k \in DOMAIN stack : k \in DOMAIN stack' /\ stack'[k] = stack[k]
  <2>. HIDE DEF f
  <2>. QED  BY <1>1, <1>2, <1>3, <1>4, Pushed
<1>6. f.dtr = opened'
  BY <1>2, <1>3
<1>7. Followed'
  <2>. HIDE DEF f
  <2>. QED  BY <1>2, <1>5, <1>6 DEF Followed, Telling
<1>8. ASSUME NEW d, NEW k \in DOMAIN stack, Telling(k, d)
      PROVE  k \in DOMAIN stack' /\ Telling(k, d)' /\ stack'[k].at = stack[k].at
  BY <1>5, <1>8, Zenon DEF Telling
<1>9. CASE dtr = opened
  <2>1. opened' = opened /\ replayed' = replayed
    BY <1>3, <1>9
  <2>2. ASSUME opened', ~disturbed', ~full'
        PROVE  \/ replayed' = "yes"
               \/ replayed' = "begun" /\ \E k \in DOMAIN stack' :
                                         Telling(k, TRUE)' /\ stack'[k].at \in Showing
               \/ \E k \in DOMAIN stack' : Telling(k, FALSE)'
    <3>1. opened /\ ~disturbed /\ ~full
      BY <1>3, <2>1, <2>2
    <3>. QED  BY <1>3, <1>8, <2>1, <3>1, Zenon DEF TerminalInv, GivenTheLog
  <2>. QED  BY <1>7, <2>2, Zenon DEF GivenTheLog, Showing
<1>10. CASE dtr # opened
  <2>1. ASSUME opened', ~disturbed', last_dtr
        PROVE  \E k \in DOMAIN stack' : Telling(k, FALSE)'
    <3>1. opened = FALSE /\ last_dtr # opened
      BY <1>1, <1>3, <1>10, <2>1
    <3>2. PICK k \in DOMAIN stack : Telling(k, opened)
      BY <1>3, <2>1, <3>1 DEF TerminalInv, Followed
    <3>3. k \in DOMAIN stack' /\ stack'[k] = stack[k]
      BY <1>5
    <3>. QED  BY <3>1, <3>2, <3>3, Zenon DEF Telling
  <2>2. ASSUME opened', ~last_dtr
        PROVE  (At("line_state", "start") /\ Top.dtr /\ ~last_dtr)'
    <3>1. Len(stack') = n /\ stack' # <<>>
      BY <1>5, LenProperties, EmptySeq
    <3>2. Last(stack') = f
      BY <1>5, <3>1 DEF Last
    <3>. HIDE DEF f
    <3>. QED  BY <1>2, <1>3, <1>6, <2>2, <3>1, <3>2, Zenon DEF At, Idle, Top
  <2>. QED  BY <1>3, <1>7, <2>1, <2>2, Zenon DEF GivenTheLog
<1>. QED  BY <1>9, <1>10

(* A callback goes on, and perhaps calls an output. *)
LEMMA CallbackMoves ==
  ASSUME TypeOK, NEW at, At("line_state", at), NEW next \in {"start", "log", "rest", "live", "message", "end"},
         NEW o \in Frame, NEW n, n = Len(stack),
         stack' = SetTop(Further(Top, next)) \/ stack' = Append(SetTop(Further(Top, next)), o)
  PROVE  /\ n \in DOMAIN stack /\ stack[n].fn = "line_state" /\ stack[n].at = at
         /\ stack[n].dtr = Top.dtr /\ Top.dtr \in BOOLEAN /\ Top.at = at
         /\ n \in DOMAIN stack' /\ stack'[n].fn = "line_state" /\ stack'[n].at = next
         /\ stack'[n].dtr = Top.dtr
         /\ \A k \in DOMAIN stack : k # n => k \in DOMAIN stack' /\ stack'[k] = stack[k]
         /\ stack' \in Seq(Frame)
         /\ \A k \in DOMAIN stack' : k \in DOMAIN stack \/ stack'[k] = o
<1>1. PICK s : s = SetTop(Further(Top, next))
  OBVIOUS
<1>2. /\ stack \in Seq(Frame) /\ stack # <<>> /\ n \in DOMAIN stack /\ n \in Nat \ {0}
      /\ stack[n] = Top /\ Top.fn = "line_state" /\ Top.at = at /\ Top.dtr \in BOOLEAN
      /\ s \in Seq(Frame) /\ DOMAIN s = DOMAIN stack /\ DOMAIN stack = 1 .. n /\ Len(s) = n
      /\ \A k \in DOMAIN stack : k # n => s[k] = stack[k]
      /\ s[n] \in Frame /\ s[n].fn = "line_state" /\ s[n].dtr = Top.dtr /\ s[n].at = next
  BY <1>1, CallbackGoesOn
<1>3. /\ stack' \in Seq(Frame)
      /\ \A k \in DOMAIN stack : k \in DOMAIN stack' /\ stack'[k] = s[k]
      /\ \A k \in DOMAIN stack' : k \in DOMAIN stack \/ stack'[k] = o
  <2>1. CASE stack' = s
    BY <1>2, <2>1
  <2>2. CASE stack' = Append(s, o)
    <3>1. /\ stack' \in Seq(Frame) /\ DOMAIN stack' = 1 .. n + 1
          /\ \A k \in DOMAIN s : k \in DOMAIN stack' /\ stack'[k] = s[k]
          /\ stack'[n + 1] = o
      BY <1>2, <2>2, Pushed
    <3>2. \A k \in 1 .. n + 1 : k \in 1 .. n \/ k = n + 1
      BY <1>2
    <3>. QED  BY <1>2, <3>1, <3>2
  <2>. QED  BY <1>1, <2>1, <2>2
<1>. QED  BY <1>2, <1>3

(* What it tells stays what it is, and so do the callbacks below. *)
LEMMA TellingStays ==
  ASSUME NEW n, n \in DOMAIN stack', stack'[n].fn = "line_state", stack'[n].dtr = stack[n].dtr,
         \A k \in DOMAIN stack : k # n => k \in DOMAIN stack' /\ stack'[k] = stack[k]
  PROVE  \A k \in DOMAIN stack, d \in BOOLEAN :
           Telling(k, d) => /\ k \in DOMAIN stack' /\ Telling(k, d)'
                            /\ k # n => stack'[k].at = stack[k].at
<1>. SUFFICES ASSUME NEW k \in DOMAIN stack, NEW d \in BOOLEAN, Telling(k, d)
              PROVE  /\ k \in DOMAIN stack' /\ Telling(k, d)'
                     /\ k # n => stack'[k].at = stack[k].at
  OBVIOUS
<1>1. CASE k # n
  BY <1>1, Zenon DEF Telling
<1>2. CASE k = n
  BY <1>2 DEF Telling
<1>. QED  BY <1>1, <1>2

\* A callback told of an opening is at a step of its replay, in the next state.
ShowingNext == \E k \in DOMAIN stack' : Telling(k, TRUE)' /\ stack'[k].at \in Showing
ClosingNext == \E k \in DOMAIN stack' : Telling(k, FALSE)'

(* Two of the ways to have the log last, when a callback goes on. *)
LEMMA WaysLast ==
  ASSUME TerminalInv, NEW n \in DOMAIN stack, n \in DOMAIN stack',
         stack'[n].fn = "line_state", stack'[n].dtr = stack[n].dtr,
         \A k \in DOMAIN stack : k # n => k \in DOMAIN stack' /\ stack'[k] = stack[k]
  PROVE  /\ \A k \in DOMAIN stack :
              Telling(k, TRUE) /\ stack[k].at \in Showing /\ (k = n => stack'[n].at \in Showing)
                => ShowingNext
         /\ (\E k \in DOMAIN stack : Telling(k, FALSE)) => ClosingNext
         /\ UNCHANGED <<opened, last_dtr, disturbed>> => Followed'
<1>1. \A k \in DOMAIN stack, d \in BOOLEAN :
        Telling(k, d) => /\ k \in DOMAIN stack' /\ Telling(k, d)'
                         /\ k # n => stack'[k].at = stack[k].at
  BY TellingStays
<1>2. ASSUME NEW k \in DOMAIN stack, Telling(k, TRUE), stack[k].at \in Showing,
             k = n => stack'[n].at \in Showing
      PROVE  ShowingNext
  <2>1. k \in DOMAIN stack' /\ Telling(k, TRUE)' /\ (k # n => stack'[k].at = stack[k].at)
    BY <1>1, <1>2
  <2>. QED  BY <1>2, <2>1, Zenon DEF ShowingNext
<1>3. (\E k \in DOMAIN stack : Telling(k, FALSE)) => ClosingNext
  BY <1>1 DEF ClosingNext
<1>4. opened \in BOOLEAN
  BY DEF TerminalInv, TypeOK
<1>5. UNCHANGED <<opened, last_dtr, disturbed>> => Followed'
  BY <1>1, <1>4 DEF TerminalInv, Followed
<1>. QED  BY <1>2, <1>3, <1>5

(* The sizes are numbers. *)
LEMMA Sizes ==
  /\ BuffSize \in Nat \ {0} /\ FifoSize \in Nat \ {0} /\ NoteLen \in Nat \ {0}
  /\ TitleLen \in Nat \ {0} /\ LogSize \in Nat \ {0} /\ NoteLen < BuffSize
  /\ \A len \in Lengths : len \in Nat \ {0}
BY DebugLogAssumption

(* What the callback writes, and where it is then. *)
LEMMA Pieces ==
  ASSUME TypeOK, NEW at \in {"log", "rest", "live"}
  PROVE  Piece(at) \in Nat /\ After(at) \in {"rest", "live", "message"}
<1>1. LogSize - head \in Nat /\ head \in Nat /\ TitleLen \in Nat
  BY Sizes DEF TypeOK
<1>2. CASE at = "log"
  BY <1>1, <1>2 DEF Piece, After
<1>3. CASE at = "rest"
  BY <1>1, <1>3 DEF Piece, After
<1>4. CASE at = "live"
  BY <1>1, <1>4 DEF Piece, After
<1>. QED  BY <1>2, <1>3, <1>4

(* The new output. *)
LEMMA OutputType ==
  ASSUME TypeOK, NEW id \in Nat, NEW l \in Nat
  PROVE  /\ Output(id, l) \in Frame
         /\ Output(id, l).fn = "usb_cdc_write" /\ Output(id, l).id = id
         /\ Output(id, l).l = l /\ Output(id, l).sent = 0
         /\ Output(id, l).at = IF Connected /\ l > 0 THEN "loop" ELSE "end"
BY DEF Output, Frame

(* The callback begins: it replays the log, or not. *)
LEMMA LogDumpKeeps ==
  ASSUME TerminalInv, LogDumpToUsb
  PROVE  Followed' /\ GivenTheLog'
<1>1. PICK n : n = Len(stack)
  OBVIOUS
<1>2. /\ At("line_state", "start") /\ TypeOK
      /\ UNCHANGED <<opened, last_dtr, disturbed, full>>
      /\ replayed' = IF Opening /\ ~full THEN "begun" ELSE replayed
  BY DEF LogDumpToUsb, TerminalInv, port, log_buff
<1>3. PICK o \in Frame : o = Output(0, TitleLen)
  BY <1>2, OutputType, Sizes
<1>4. PICK next \in {"log", "message", "end"} :
        /\ stack' = SetTop(Further(Top, next)) \/ stack' = Append(SetTop(Further(Top, next)), o)
        /\ Opening => next \in {"log", "message"}
  <2>1. CASE Opening /\ ~full /\ head > 0
    BY <1>3, <2>1 DEF LogDumpToUsb, Further
  <2>2. CASE ~(Opening /\ ~full /\ head > 0) /\ (Opening \/ Closing)
    BY <2>2 DEF LogDumpToUsb, Further
  <2>3. CASE ~(Opening \/ Closing)
    BY <2>3 DEF LogDumpToUsb, Further
  <2>. QED  BY <2>1, <2>2, <2>3
<1>5. /\ n \in DOMAIN stack /\ stack[n].fn = "line_state" /\ stack[n].at = "start"
      /\ stack[n].dtr = Top.dtr /\ Top.dtr \in BOOLEAN
      /\ n \in DOMAIN stack' /\ stack'[n].fn = "line_state" /\ stack'[n].at = next
      /\ stack'[n].dtr = Top.dtr
      /\ \A k \in DOMAIN stack : k # n => k \in DOMAIN stack' /\ stack'[k] = stack[k]
  BY <1>1, <1>2, <1>4, CallbackMoves
<1>6. /\ \A k \in DOMAIN stack :
           Telling(k, TRUE) /\ stack[k].at \in Showing /\ (k = n => stack'[n].at \in Showing)
             => ShowingNext
      /\ (\E k \in DOMAIN stack : Telling(k, FALSE)) => ClosingNext
      /\ Followed'
  BY <1>2, <1>5, WaysLast
<1>7. ASSUME opened', ~disturbed', ~full'
      PROVE  replayed' = "yes" \/ (replayed' = "begun" /\ ShowingNext) \/ ClosingNext
  <2>1. opened /\ ~disturbed /\ ~full
    BY <1>2, <1>7
  <2>2. CASE Opening
    <3>1. replayed' = "begun" /\ next \in Showing
      BY <1>2, <1>4, <2>1, <2>2 DEF Showing
    <3>2. Telling(n, TRUE)' /\ stack'[n].at \in Showing
      BY <1>5, <2>2, <3>1 DEF Opening, Telling
    <3>. QED  BY <1>5, <3>1, <3>2 DEF ShowingNext
  <2>3. CASE ~Opening
    <3>1. replayed' = replayed /\ stack[n].at \notin Showing
      BY <1>2, <1>5, <2>3 DEF Showing
    <3>2. \A k \in DOMAIN stack : stack[k].at \in Showing => k # n
      BY <3>1
    <3>. QED  BY <1>6, <2>1, <2>3, <3>1, <3>2 DEF TerminalInv, GivenTheLog, Opening
  <2>. QED  BY <2>2, <2>3
<1>. QED  BY <1>6, <1>7 DEF GivenTheLog, ShowingNext, ClosingNext, Showing

(* It goes on with its replay. *)
LEMMA LogDumpPieceKeeps ==
  ASSUME TerminalInv, LogDumpPiece
  PROVE  Followed' /\ GivenTheLog'
<1>1. PICK n : n = Len(stack)
  OBVIOUS
<1>2. PICK at \in {"log", "rest", "live"} :
        /\ At("line_state", at)
        /\ stack' = Append(SetTop([Top EXCEPT !.at = After(at)]), Output(0, Piece(at)))
        /\ UNCHANGED <<log_buff, port, replayed, disturbed>>
  BY DEF LogDumpPiece
<1>3. UNCHANGED <<opened, last_dtr, disturbed, full, replayed>> /\ TypeOK
  BY <1>2 DEF TerminalInv, port, log_buff
<1>4. PICK o \in Frame, next \in {"rest", "live", "message"} :
        next = After(at) /\ stack' = Append(SetTop(Further(Top, next)), o)
  BY <1>2, <1>3, Pieces, OutputType DEF Further
<1>5. /\ n \in DOMAIN stack /\ stack[n].at = at
      /\ stack[n].dtr = Top.dtr
      /\ n \in DOMAIN stack' /\ stack'[n].fn = "line_state" /\ stack'[n].at = next
      /\ stack'[n].dtr = Top.dtr
      /\ \A k \in DOMAIN stack : k # n => k \in DOMAIN stack' /\ stack'[k] = stack[k]
  <2>1. At("line_state", at) /\ next \in {"start", "log", "rest", "live", "message", "end"}
    BY <1>2
  <2>2. stack' = SetTop(Further(Top, next)) \/ stack' = Append(SetTop(Further(Top, next)), o)
    BY <1>4
  <2>. QED  BY <1>1, <1>3, <2>1, <2>2, CallbackMoves
<1>6. /\ \A k \in DOMAIN stack :
           Telling(k, TRUE) /\ stack[k].at \in Showing /\ (k = n => stack'[n].at \in Showing)
             => ShowingNext
      /\ (\E k \in DOMAIN stack : Telling(k, FALSE)) => ClosingNext
      /\ Followed'
  BY <1>3, <1>5, WaysLast
<1>7. stack'[n].at \in Showing /\ ~At("line_state", "start")
  BY <1>2, <1>4, <1>5 DEF Showing, At
<1>8. ASSUME opened', ~disturbed', ~full'
      PROVE  replayed' = "yes" \/ (replayed' = "begun" /\ ShowingNext) \/ ClosingNext
  BY <1>3, <1>6, <1>7, <1>8 DEF TerminalInv, GivenTheLog
<1>. QED  BY <1>6, <1>8 DEF GivenTheLog, ShowingNext, ClosingNext, Showing

-----------------------------------------------------------------------------
(* What is left of a message fits into the buffer, with its NUL. *)
LEMMA FormattedFits ==
  ASSUME NEW len \in Lengths
  PROVE  /\ Formatted(len) \in Nat \ {0} /\ Formatted(len) < BuffSize
         /\ Wrote(len) \in Nat /\ Formatted(len) < Wrote(len) /\ Wrote(len) <= BuffSize
BY Sizes DEF Formatted, Wrote

(* The buffer has the new text as far as it was written. *)
LEMMA BufferAfter ==
  ASSUME TypeOK, NEW id \in Nat, NEW len \in Lengths
  PROVE  /\ LineBuffAfter(id, len) \in [1 .. BuffSize -> Character]
         /\ \A k \in 1 .. BuffSize :
              LineBuffAfter(id, len)[k] =
                IF k > Wrote(len) THEN line_buff[k]
                ELSE IF k > Formatted(len) /\ k \in {Formatted(len) + 1, BuffSize} THEN NUL
                ELSE <<id, k>>
<1>1. Formatted(len) \in Nat \ {0} /\ Formatted(len) < BuffSize /\ BuffSize \in Nat \ {0}
  BY FormattedFits, Sizes
<1>2. ASSUME NEW k \in 1 .. BuffSize
      PROVE  LineBuffAfter(id, len)[k] =
                IF k > Wrote(len) THEN line_buff[k]
                ELSE IF k > Formatted(len) /\ k \in {Formatted(len) + 1, BuffSize} THEN NUL
                ELSE <<id, k>>
  <2>1. k \in {Formatted(len) + 1, BuffSize} => k > Formatted(len)
    BY <1>1
  <2>. QED  BY <2>1 DEF LineBuffAfter
<1>3. ASSUME NEW k \in 1 .. BuffSize
      PROVE  NUL \in Character /\ <<id, k>> \in Character /\ line_buff[k] \in Character
  BY <1>1 DEF NUL, Character, TypeOK
<1>4. LineBuffAfter(id, len) \in [1 .. BuffSize -> Character]
  <2>1. LineBuffAfter(id, len) = [k \in 1 .. BuffSize |-> LineBuffAfter(id, len)[k]]
    BY DEF LineBuffAfter
  <2>2. \A k \in 1 .. BuffSize : LineBuffAfter(id, len)[k] \in Character
    BY <1>2, <1>3
  <2>. QED  BY <2>1, <2>2
<1>. QED  BY <1>2, <1>4

(* A call with one more in its output. *)
LEMMA NestedType ==
  ASSUME NEW r \in Call, NEW id \in Nat
  PROVE  [r EXCEPT !.nested = @ \cup {id}] \in Call
<1>1. r.nested \cup {id} \in SUBSET Nat
  BY DEF Call
<1>. QED  BY <1>1 DEF Call

(* A call of debug_log is added, and those under way have one more in their *)
(* output.                                                                  *)
LEMMA BeginCalls ==
  ASSUME TypeOK, NEW log \in BOOLEAN, NEW len \in Lengths, NEW below, Begin(log, len, below)
  PROVE  /\ Len(calls) \in Nat /\ DOMAIN calls = 1 .. Len(calls)
         /\ DOMAIN calls' = 1 .. Len(calls) + 1 /\ Len(calls') = Len(calls) + 1
         /\ calls' \in Seq(Call)
         /\ \A c \in DOMAIN calls :
              calls'[c] = IF c \in Ids THEN [calls[c] EXCEPT !.nested = @ \cup {Len(calls) + 1}]
                          ELSE calls[c]
         /\ calls'[Len(calls) + 1] = [log |-> log, l |-> Formatted(len), wrote |-> Wrote(len),
                                      connected |-> Connected, nested |-> {}, out |-> <<>>, entry |-> <<>>]
<1>. DEFINE id == Len(calls) + 1
            old == [c \in DOMAIN calls |->
                     IF c \in Ids THEN [calls[c] EXCEPT !.nested = @ \cup {id}] ELSE calls[c]]
            new == [log |-> log, l |-> Formatted(len), wrote |-> Wrote(len),
                    connected |-> Connected, nested |-> {}, out |-> <<>>, entry |-> <<>>]
<1>1. Len(calls) \in Nat /\ DOMAIN calls = 1 .. Len(calls) /\ calls \in Seq(Call)
  BY LenProperties DEF TypeOK
<1>2. ASSUME NEW c \in DOMAIN calls
      PROVE  old[c] \in Call
  <2>1. calls[c] \in Call
    BY <1>1, ElementOfSeq
  <2>2. [calls[c] EXCEPT !.nested = @ \cup {id}] \in Call
    BY <1>1, <2>1, NestedType
  <2>. QED  BY <2>1, <2>2
<1>3. old \in Seq(Call) /\ Len(old) = Len(calls)
  <2>1. old = [c \in 1 .. Len(calls) |-> old[c]]
    BY <1>1
  <2>. HIDE DEF old
  <2>. QED  BY <1>1, <1>2, <2>1
<1>4. new \in Call
  <2>1. Connected \in BOOLEAN
    BY DEF Connected, TypeOK
  <2>. QED  BY <2>1, FormattedFits DEF Call
<1>5. calls' = Append(old, new)
  BY DEF Begin
<1>6. \A c \in DOMAIN calls :
        old[c] = IF c \in Ids THEN [calls[c] EXCEPT !.nested = @ \cup {id}] ELSE calls[c]
  OBVIOUS
<1>. HIDE DEF old, new
<1>7. /\ calls' \in Seq(Call) /\ Len(calls') = Len(calls) + 1
      /\ \A c \in 1 .. Len(calls) : calls'[c] = old[c]
      /\ calls'[Len(calls) + 1] = new
  BY <1>3, <1>4, <1>5, AppendProperties
<1>. QED  BY <1>1, <1>6, <1>7, LenProperties DEF new

\* What TypeOK says of the outputs of a stack.
Bounded(s, n) ==
  \A k \in DOMAIN s : s[k].fn = "usb_cdc_write" => s[k].id \in 0 .. n /\ s[k].sent \in 0 .. s[k].l

(* debug_log begins. *)
LEMMA BeginType ==
  ASSUME TypeOK, NEW log \in BOOLEAN, NEW len \in Lengths, NEW below \in Seq(Frame),
         Begin(log, len, below), Bounded(below, Len(calls)),
         UNCHANGED <<log_buff, port, disturbed>>, replayed' \in {"no", "begun", "yes"}
  PROVE  TypeOK'
<1>1. Len(calls) \in Nat /\ Len(calls') = Len(calls) + 1 /\ calls' \in Seq(Call)
  BY BeginCalls
<1>2. PICK id \in Nat : id = Len(calls) + 1
  BY <1>1
<1>3. PICK l \in Nat : l = Formatted(len) /\ l <= BuffSize
  BY FormattedFits, Sizes
<1>4. stack' = Append(below, Output(id, l)) /\ line_buff' = LineBuffAfter(id, len)
  BY <1>2, <1>3 DEF Begin
<1>5. /\ Output(id, l) \in Frame /\ Output(id, l).id = id
      /\ Output(id, l).l = l /\ Output(id, l).sent = 0
  BY OutputType
<1>6. /\ stack' \in Seq(Frame) /\ DOMAIN stack' = 1 .. Len(below) + 1 /\ Len(below) \in Nat
      /\ DOMAIN below = 1 .. Len(below)
      /\ \A k \in DOMAIN below : stack'[k] = below[k]
      /\ stack'[Len(below) + 1] = Output(id, l)
  BY <1>4, <1>5, Pushed
<1>7. Bounded(stack, Len(calls))'
  <2>. SUFFICES ASSUME NEW k \in DOMAIN stack', stack'[k].fn = "usb_cdc_write"
                PROVE  stack'[k].id \in 0 .. id /\ stack'[k].sent \in 0 .. stack'[k].l
    BY <1>1, <1>2 DEF Bounded
  <2>1. CASE k \in DOMAIN below
    <3>1. below[k].id \in 0 .. Len(calls) /\ below[k].sent \in 0 .. below[k].l
      BY <1>6, <2>1 DEF Bounded
    <3>. QED  BY <1>1, <1>2, <1>6, <2>1, <3>1
  <2>2. CASE k = Len(below) + 1
    BY <1>5, <1>6, <2>2
  <2>. QED  BY <1>6, <2>1, <2>2
<1>8. line_buff' \in [1 .. BuffSize -> Character]
  BY <1>4, BufferAfter
<1>. QED  BY <1>1, <1>6, <1>7, <1>8 DEF TypeOK, Bounded, log_buff, port
-----------------------------------------------------------------------------
(* The calls under way are those of an output. *)
LEMMA IdsOfOutputs == \A c : c \in Ids <=> \E k \in Outputs : stack[k].id = c
BY DEF Ids, Outputs, Writes

(* The output of a call: its frame, its call, and where the two meet. *)
LEMMA OutputFrame ==
  ASSUME TextInv, NEW k \in Outputs
  PROVE  /\ k \in DOMAIN stack /\ stack[k].fn = "usb_cdc_write"
         /\ stack[k] \in [fn : {"usb_cdc_write"}, id : Nat, l : Nat, sent : Nat,
                          at : {"loop", "task", "end"}]
         /\ stack[k].id \in DOMAIN calls /\ calls[stack[k].id] \in Call
         /\ stack[k].sent <= stack[k].l /\ stack[k].l < BuffSize
<1>1. k \in DOMAIN stack /\ stack[k].fn = "usb_cdc_write" /\ stack[k].id # 0
  BY DEF Outputs, Writes
<1>2. stack[k] \in Frame
  BY <1>1, ElementOfSeq, LenProperties DEF TextInv, TypeOK
<1>3. stack[k] \in [fn : {"usb_cdc_write"}, id : Nat, l : Nat, sent : Nat,
                   at : {"loop", "task", "end"}]
  BY <1>1, <1>2, FrameKinds
<1>4. stack[k].id \in 0 .. Len(calls) /\ stack[k].sent \in 0 .. stack[k].l
  BY <1>1 DEF TextInv, TypeOK
<1>5. DOMAIN calls = 1 .. Len(calls) /\ Len(calls) \in Nat
  BY LenProperties DEF TextInv, TypeOK
<1>6. stack[k].id \in DOMAIN calls
  BY <1>1, <1>4, <1>5
<1>7. calls[stack[k].id] \in Call
  BY <1>6, ElementOfSeq, LenProperties DEF TextInv, TypeOK
<1>8. stack[k].l < BuffSize
  BY DEF TextInv, InStep
<1>9. stack[k].sent <= stack[k].l
  BY <1>3, <1>4
<1>. QED  BY <1>1, <1>3, <1>6, <1>7, <1>8, <1>9

(* The buffer is a sequence of characters, and so is every part of it. *)
LEMMA PartOfBuffer ==
  ASSUME TypeOK, NEW from \in Nat, NEW n \in Nat, from + n <= BuffSize
  PROVE  /\ SubSeq(line_buff, from + 1, from + n) \in Seq(Character)
         /\ Len(SubSeq(line_buff, from + 1, from + n)) = n
         /\ \A i \in 1 .. n : SubSeq(line_buff, from + 1, from + n)[i] = line_buff[from + i]
<1>. DEFINE s == SubSeq(line_buff, from + 1, from + n)
<1>1. BuffSize \in Nat /\ line_buff \in [1 .. BuffSize -> Character]
  BY Sizes DEF TypeOK
<1>2. line_buff \in Seq(Character) /\ Len(line_buff) = BuffSize
  BY <1>1
<1>3. from + 1 \in 1 .. Len(line_buff) + 1 /\ from + n \in from + 1 - 1 .. Len(line_buff)
  BY <1>1, <1>2
<1>4. /\ s \in Seq(Character)
      /\ Len(s) = IF from + 1 <= from + n THEN from + n - (from + 1) + 1 ELSE 0
      /\ \A i \in 1 .. Len(s) : s[i] = line_buff[from + 1 + i - 1]
  <2>1. from + 1 \in Nat /\ from + n \in Nat /\ Len(line_buff) \in Nat
    BY <1>1, <1>2
  <2>. QED  BY <1>2, <1>3, <2>1, SubSeqProperties
<1>5. Len(s) = n
  BY <1>4
<1>6. \A i \in 1 .. n : from + 1 + i - 1 = from + i
  OBVIOUS
<1>. QED  BY <1>4, <1>5, <1>6

(* What a message has left in the buffer, or sent, does not change when      *)
(* another begins that is not in its output.                                *)
LEMMA TextLasts ==
  ASSUME Nesting, Lasting, NEW c \in DOMAIN calls, calls'[c].nested = calls[c].nested,
         NEW k, NEW ch
  PROVE  (Newest(ch, c, k) => Newest(ch, c, k)') /\ (Sent(ch, c, k) => Sent(ch, c, k)')
<1>1. calls[c].nested \subseteq DOMAIN calls
  BY DEF Nesting
<1>2. Writers(c, k)' = Writers(c, k)
  BY <1>1 DEF Writers, Lasting
<1>3. \A w \in Writers(c, k) : LeftAt(w, k)' = LeftAt(w, k)
  BY <1>1 DEF Writers, LeftAt, Lasting
<1>. QED  BY <1>2, <1>3 DEF Newest, Sent

(* An output that is left alone, and whose call and text are, goes on. *)
LEMMA OutputAlone ==
  ASSUME Nesting, Lasting, NEW k, NEW c \in DOMAIN calls, InStep(k), Unmixed(k),
         stack'[k] = stack[k], stack[k].id = c,
         calls'[c] = calls[c], line_buff' = line_buff
  PROVE  InStep(k)' /\ Unmixed(k)'
<1>1. \A ch, i : (Newest(ch, c, i) => Newest(ch, c, i)') /\ (Sent(ch, c, i) => Sent(ch, c, i)')
  BY TextLasts
<1>2. InStep(k)'
  BY DEF InStep
<1>3. /\ \A i \in 1 .. stack[k].sent : Sent(calls[c].out[i], c, i)
      /\ \A i \in 1 .. stack[k].l : Newest(line_buff[i], c, i)
  BY DEF Unmixed
<1>4. /\ \A i \in 1 .. stack[k].sent : Sent(calls[c].out[i], c, i)'
      /\ \A i \in 1 .. stack[k].l : Newest(line_buff[i], c, i)'
  <2>1. ASSUME NEW i \in 1 .. stack[k].sent
        PROVE  Sent(calls[c].out[i], c, i)'
    <3>1. PICK ch : ch = calls[c].out[i]
      OBVIOUS
    <3>2. Sent(ch, c, i)
      BY <1>3, <3>1
    <3>3. Sent(ch, c, i)'
      BY <1>1, <3>2
    <3>4. calls'[c].out[i] = ch
      BY <3>1
    <3>. QED  BY <3>3, <3>4 DEF Sent
  <2>2. ASSUME NEW i \in 1 .. stack[k].l
        PROVE  Newest(line_buff[i], c, i)'
    <3>1. Newest(line_buff[i], c, i)
      BY <1>3
    <3>. QED  BY <3>1, <1>1 DEF Newest
  <2>. QED  BY <2>1, <2>2
<1>. QED  BY <1>2, <1>4 DEF Unmixed

(* A call that has ended stays as it is. *)
LEMMA LeftAlone ==
  ASSUME Nesting, Lasting, NEW c \in DOMAIN calls, Left(c), calls'[c] = calls[c]
  PROVE  Left(c)'
<1>1. \A ch, i : (Newest(ch, c, i) => Newest(ch, c, i)') /\ (Sent(ch, c, i) => Sent(ch, c, i)')
  BY TextLasts
<1>2. ASSUME NEW i \in DOMAIN calls[c].entry
      PROVE  Newest(calls[c].entry[i], c, i)'
  <2>1. Newest(calls[c].entry[i], c, i)
    BY DEF Left
  <2>. QED  BY <1>1, <2>1 DEF Newest
<1>3. ASSUME NEW i \in DOMAIN calls[c].out
      PROVE  Sent(calls[c].out[i], c, i)'
  <2>1. Sent(calls[c].out[i], c, i)
    BY DEF Left
  <2>. QED  BY <1>1, <2>1 DEF Sent
<1>. QED  BY <1>2, <1>3 DEF Left

(* Steps that touch no output of a call and no text. *)
LEMMA TextAlone ==
  ASSUME TextInv, TypeOK', UNCHANGED <<line_buff, calls>>,
         \A k \in Outputs : k \in DOMAIN stack' /\ stack'[k] = stack[k],
         \A k \in DOMAIN stack' : stack'[k].fn = "usb_cdc_write" /\ stack'[k].id # 0 =>
           k \in DOMAIN stack /\ stack'[k] = stack[k]
  PROVE  TextInv'
<1>1. Outputs' = Outputs /\ \A k \in Outputs : stack'[k] = stack[k]
  BY DEF Outputs, Writes
<1>2. OneOutput' /\ Nesting' /\ Nesting /\ Lasting
  BY <1>1 DEF TextInv, OneOutput, Nesting, Lasting
<1>3. ASSUME NEW k \in Outputs'
      PROVE  InStep(k)' /\ Unmixed(k)'
  <2>1. stack[k].id \in DOMAIN calls /\ InStep(k) /\ Unmixed(k)
    BY <1>1, OutputFrame DEF TextInv
  <2>. QED  BY <1>1, <1>2, <2>1, OutputAlone
<1>4. ASSUME NEW c \in DOMAIN calls', Ended(c)'
      PROVE  Left(c)'
  <2>1. Ids' = Ids
    <3>1. \A d : d \in Ids' <=> \E k \in Outputs' : stack'[k].id = d
      BY DEF Ids, Outputs, Writes
    <3>. QED  BY <1>1, <3>1, IdsOfOutputs
  <2>2. Ended(c)
    BY <1>4, <2>1 DEF Ended
  <2>. QED  BY <1>2, <1>4, <2>2, LeftAlone DEF TextInv
<1>. QED  BY <1>2, <1>3, <1>4 DEF TextInv
-----------------------------------------------------------------------------
(* A call of debug_log begins: its text is in the buffer, and is a newer    *)
(* text for all the outputs under way.                                      *)
LEMMA BeginKeeps ==
  ASSUME TextInv, NEW log \in BOOLEAN, NEW len \in Lengths, NEW below \in Seq(Frame),
         Begin(log, len, below), DOMAIN below = DOMAIN stack,
         \A k \in DOMAIN stack :
           stack[k].fn = "usb_cdc_write" \/ below[k].fn = "usb_cdc_write" => below[k] = stack[k],
         UNCHANGED <<log_buff, port, disturbed>>, replayed' \in {"no", "begun", "yes"}
  PROVE  TextInv'
<1>1. TypeOK'
  <2>1. Bounded(below, Len(calls))
    BY DEF Bounded, TextInv, TypeOK
  <2>. QED  BY <2>1, BeginType DEF TextInv
<1>2. PICK id \in Nat : id = Len(calls) + 1
  BY LenProperties DEF TextInv, TypeOK
<1>3. PICK l \in Nat \ {0} : l = Formatted(len) /\ l < BuffSize /\ l <= BuffSize
  BY FormattedFits, Sizes
<1>4. PICK top : top = Len(below) + 1
  OBVIOUS
<1>5. /\ DOMAIN calls' = 1 .. id /\ DOMAIN calls = 1 .. id - 1
      /\ \A c \in DOMAIN calls :
           calls'[c] = IF c \in Ids THEN [calls[c] EXCEPT !.nested = @ \cup {id}] ELSE calls[c]
      /\ calls'[id] = [log |-> log, l |-> l, wrote |-> Wrote(len), connected |-> Connected,
                       nested |-> {}, out |-> <<>>, entry |-> <<>>]
  BY <1>2, <1>3, BeginCalls DEF TextInv
<1>6. /\ Output(id, l) \in Frame /\ Output(id, l).fn = "usb_cdc_write"
      /\ Output(id, l).id = id /\ Output(id, l).l = l /\ Output(id, l).sent = 0
      /\ Output(id, l).at = IF Connected THEN "loop" ELSE "end"
  BY <1>3, OutputType, Sizes DEF TextInv
<1>7. stack' = Append(below, Output(id, l)) /\ line_buff' = LineBuffAfter(id, len)
  BY <1>2, <1>3 DEF Begin
<1>8. /\ DOMAIN stack' = 1 .. top /\ DOMAIN stack = 1 .. top - 1 /\ top \in Nat \ {0}
      /\ \A k \in DOMAIN stack : stack'[k] = below[k]
      /\ stack'[top] = Output(id, l)
  BY <1>4, <1>6, <1>7, Pushed
<1>9. id # 0 /\ id \notin DOMAIN calls /\ top \notin DOMAIN stack /\ top \in DOMAIN stack'
      /\ DOMAIN stack' = DOMAIN stack \cup {top} /\ DOMAIN calls' = DOMAIN calls \cup {id}
  BY <1>2, <1>5, <1>8
<1>10. /\ Outputs' = Outputs \cup {top}
       /\ \A k \in Outputs : k \in DOMAIN stack /\ stack'[k] = stack[k] /\ stack[k].id \in DOMAIN calls
  <2>1. \A k \in DOMAIN stack : k \in Outputs' <=> k \in Outputs
    BY <1>8, <1>9 DEF Outputs, Writes
  <2>2. top \in Outputs' /\ Outputs \subseteq DOMAIN stack /\ Outputs' \subseteq DOMAIN stack'
    BY <1>6, <1>8, <1>9 DEF Outputs, Writes
  <2>3. Outputs' = Outputs \cup {top}
    BY <1>9, <2>1, <2>2
  <2>4. \A k \in Outputs : stack'[k] = stack[k]
    BY <1>8 DEF Outputs, Writes
  <2>. QED  BY <2>2, <2>3, <2>4, OutputFrame
<1>11. OneOutput'
  BY <1>6, <1>8, <1>9, <1>10 DEF TextInv, OneOutput
<1>a. Nesting /\ Lasting /\ Nesting'
  <2>1. Nesting
    BY DEF TextInv
  <2>2. \A c \in DOMAIN calls : calls[c] \in Call
    BY ElementOfSeq, LenProperties DEF TextInv, TypeOK
  <2>3. \A c \in DOMAIN calls : /\ calls'[c].l = calls[c].l /\ calls'[c].wrote = calls[c].wrote
                                /\ calls'[c].nested \subseteq calls[c].nested \cup {id}
    BY <1>5, <2>2 DEF Call
  <2>4. calls'[id].nested = {}
    BY <1>5
  <2>. QED  BY <1>9, <2>1, <2>3, <2>4 DEF Nesting, Lasting
<1>b. \A k \in 1 .. BuffSize :
        line_buff'[k] = IF k > Wrote(len) THEN line_buff[k] ELSE LeftAt(id, k)'
  <2>1. calls'[id].l = l
    BY <1>5
  <2>2. \A k \in 1 .. BuffSize :
          LineBuffAfter(id, len)[k] =
            IF k > Wrote(len) THEN line_buff[k]
            ELSE IF k > l /\ k \in {l + 1, BuffSize} THEN NUL ELSE <<id, k>>
    BY <1>3, BufferAfter DEF TextInv
  <2>3. \A k : LeftAt(id, k)' = IF k > l /\ k \in {l + 1, BuffSize} THEN NUL ELSE <<id, k>>
    BY <2>1 DEF LeftAt
  <2>. QED  BY <1>7, <2>2, <2>3
<1>c. /\ Wrote(len) \in Nat /\ l < Wrote(len) /\ Wrote(len) <= BuffSize /\ calls'[id].wrote = Wrote(len)
      /\ BuffSize \in Nat
  BY <1>3, <1>5, FormattedFits, Sizes
<1>12. InStep(top)' /\ Unmixed(top)'
  <2>1. InStep(top)'
    BY <1>3, <1>5, <1>6, <1>8 DEF InStep
  <2>2. calls'[id].nested = {}
    BY <1>5
  <2>3. ASSUME NEW i \in 1 .. l
        PROVE  Newest(line_buff[i], id, i)'
    <3>1. i \in 1 .. BuffSize /\ ~(i > Wrote(len))
      BY <1>3, <1>c
    <3>2. line_buff'[i] = LeftAt(id, i)'
      BY <1>b, <3>1
    <3>3. Writers(id, i)' = {id}
      BY <2>2 DEF Writers
    <3>4. \E w \in Writers(id, i)' : (\A v \in Writers(id, i)' : v <= w) /\ line_buff'[i] = LeftAt(w, i)'
      BY <3>2, <3>3
    <3>. QED  BY <3>4 DEF Newest
  <2>4. stack'[top].id = id /\ stack'[top].l = l /\ stack'[top].sent = 0
    BY <1>6, <1>8
  <2>. QED  BY <2>1, <2>3, <2>4 DEF Unmixed
<1>13. ASSUME NEW k \in Outputs
       PROVE  InStep(k)' /\ Unmixed(k)'
  <2>. DEFINE f == stack[k]
  <2>1. PICK c : c = f.id
    OBVIOUS
  <2>2. c \in DOMAIN calls /\ c \in Ids /\ calls[c] \in Call /\ stack'[k] = f
        /\ f.l \in Nat /\ f.l < BuffSize /\ f.sent \in Nat /\ f.sent <= f.l
    BY <1>10, <2>1, IdsOfOutputs, OutputFrame
  <2>3. calls'[c] = [calls[c] EXCEPT !.nested = @ \cup {id}]
    BY <1>5, <2>2
  <2>4. /\ calls'[c].l = calls[c].l /\ calls'[c].entry = calls[c].entry
        /\ calls'[c].out = calls[c].out /\ calls'[c].connected = calls[c].connected
        /\ calls'[c].nested = calls[c].nested \cup {id}
    BY <2>2, <2>3 DEF Call
  <2>5. InStep(k) /\ Unmixed(k)
    BY DEF TextInv
  <2>6. InStep(k)'
    BY <2>1, <2>2, <2>4, <2>5 DEF InStep
  <2>7. calls[c].nested \subseteq DOMAIN calls
    BY <1>a, <2>2 DEF Nesting
  <2>8. \A i : /\ Writers(c, i)' = Writers(c, i) \cup (IF Wrote(len) >= i THEN {id} ELSE {})
               /\ Writers(c, i) \subseteq DOMAIN calls
               /\ \A w \in Writers(c, i) : LeftAt(w, i)' = LeftAt(w, i)
    <3>. SUFFICES ASSUME NEW i
                  PROVE  /\ Writers(c, i)' = Writers(c, i) \cup (IF Wrote(len) >= i THEN {id} ELSE {})
                         /\ Writers(c, i) \subseteq DOMAIN calls
                         /\ \A w \in Writers(c, i) : LeftAt(w, i)' = LeftAt(w, i)
      OBVIOUS
    <3>1. \A d \in DOMAIN calls : calls'[d].l = calls[d].l /\ calls'[d].wrote = calls[d].wrote
      BY <1>a DEF Lasting
    <3>2. Writers(c, i) \subseteq DOMAIN calls
      BY <2>2, <2>7 DEF Writers
    <3>3. \A w \in Writers(c, i) : LeftAt(w, i)' = LeftAt(w, i)
      BY <3>1, <3>2 DEF LeftAt
    <3>4. Writers(c, i)' = {c} \cup {d \in calls[c].nested \cup {id} : calls'[d].wrote >= i}
      BY <2>4 DEF Writers
    <3>5. {d \in calls[c].nested \cup {id} : calls'[d].wrote >= i}
            = {d \in calls[c].nested : calls[d].wrote >= i} \cup (IF Wrote(len) >= i THEN {id} ELSE {})
      BY <1>c, <2>7, <3>1
    <3>. QED  BY <3>2, <3>3, <3>4, <3>5 DEF Writers
  <2>9. ASSUME NEW i \in 1 .. f.l
        PROVE  Newest(line_buff[i], c, i)'
    <3>1. i \in 1 .. BuffSize
      BY <2>2, Sizes
    <3>2. PICK w \in Writers(c, i) : (\A v \in Writers(c, i) : v <= w) /\ line_buff[i] = LeftAt(w, i)
      BY <2>1, <2>5 DEF Unmixed, Newest
    <3>3. CASE Wrote(len) >= i
      <4>1. ~(i > Wrote(len))
        BY <1>c, <3>1, <3>3
      <4>2. line_buff'[i] = LeftAt(id, i)'
        BY <1>b, <3>1, <4>1
      <4>3. Writers(c, i)' = Writers(c, i) \cup {id} /\ Writers(c, i) \subseteq 1 .. id - 1
        BY <1>5, <2>8, <3>3
      <4>4. \A v \in Writers(c, i)' : v <= id
        BY <4>3
      <4>. QED  BY <4>2, <4>3, <4>4 DEF Newest
    <3>4. CASE ~(Wrote(len) >= i)
      <4>1. i > Wrote(len)
        BY <1>c, <3>1, <3>4
      <4>2. line_buff'[i] = line_buff[i]
        BY <1>b, <3>1, <4>1
      <4>3. Writers(c, i)' = Writers(c, i) /\ LeftAt(w, i)' = LeftAt(w, i)
        BY <2>8, <3>4
      <4>. QED  BY <3>2, <4>2, <4>3 DEF Newest
    <3>. QED  BY <3>3, <3>4
  <2>10. ASSUME NEW i \in 1 .. f.sent
         PROVE  Sent(calls[c].out[i], c, i)'
    <3>1. PICK w \in Writers(c, i) : calls[c].out[i] = LeftAt(w, i)
      BY <2>1, <2>5 DEF Unmixed, Sent
    <3>2. w \in Writers(c, i)' /\ LeftAt(w, i)' = LeftAt(w, i)
      BY <2>8
    <3>. QED  BY <2>4, <3>1, <3>2 DEF Sent
  <2>. QED  BY <2>1, <2>2, <2>6, <2>9, <2>10 DEF Unmixed
<1>14. ASSUME NEW c \in DOMAIN calls', Ended(c)'
       PROVE  Left(c)'
  <2>1. \A d : d \in Ids' <=> \E k \in Outputs' : stack'[k].id = d
    BY DEF Ids, Outputs, Writes
  <2>2. id \in Ids' /\ \A d \in Ids : d \in Ids'
    BY <1>6, <1>8, <1>10, <2>1, IdsOfOutputs
  <2>3. c \in DOMAIN calls /\ Ended(c) /\ c \notin Ids
    BY <1>9, <1>14, <2>2 DEF Ended
  <2>4. calls'[c] = calls[c]
    BY <1>5, <2>3
  <2>. QED  BY <1>a, <2>3, <2>4, LeftAlone DEF TextInv
<1>. QED  BY <1>a, <1>1, <1>10, <1>11, <1>12, <1>13, <1>14 DEF TextInv
-----------------------------------------------------------------------------
(* The output on top, as a record. *)
LEMMA TopOutput ==
  ASSUME TextInv, NEW at, At("usb_cdc_write", at)
  PROVE  /\ stack \in Seq(Frame) /\ stack # <<>> /\ Len(stack) \in DOMAIN stack
         /\ Top = stack[Len(stack)] /\ Top.fn = "usb_cdc_write" /\ Top.at = at
         /\ Top \in [fn : {"usb_cdc_write"}, id : Nat, l : Nat, sent : Nat,
                     at : {"loop", "task", "end"}]
         /\ Top.id \in 0 .. Len(calls) /\ Top.sent <= Top.l
         /\ Top.id # 0 => Len(stack) \in Outputs
<1>1. /\ stack \in Seq(Frame) /\ stack # <<>> /\ Len(stack) \in DOMAIN stack
      /\ Top = stack[Len(stack)] /\ Top \in Frame /\ Top.fn = "usb_cdc_write" /\ Top.at = at
  BY TopFrame DEF TextInv
<1>2. Top \in [fn : {"usb_cdc_write"}, id : Nat, l : Nat, sent : Nat, at : {"loop", "task", "end"}]
  BY <1>1, FrameKinds
<1>3. Top.id \in 0 .. Len(calls) /\ Top.sent \in 0 .. Top.l
  BY <1>1 DEF TextInv, TypeOK
<1>4. Top.sent <= Top.l
  BY <1>2, <1>3
<1>. QED  BY <1>1, <1>2, <1>3, <1>4 DEF Outputs, Writes

\* The frame of an output that has sent so much, and is there in its loop.
GoneOn(f, sent, at) == [f EXCEPT !.sent = sent, !.at = at]

(* Only those two fields change. *)
LEMMA GoneOnFields ==
  ASSUME NEW f \in [fn : {"usb_cdc_write"}, id : Nat, l : Nat, sent : Nat,
                    at : {"loop", "task", "end"}],
         NEW sent \in Nat, NEW at \in {"loop", "task", "end"}
  PROVE  /\ GoneOn(f, sent, at) \in Frame
         /\ GoneOn(f, sent, at).fn = f.fn /\ GoneOn(f, sent, at).id = f.id
         /\ GoneOn(f, sent, at).l = f.l
         /\ GoneOn(f, sent, at).sent = sent /\ GoneOn(f, sent, at).at = at
<1>1. GoneOn(f, sent, at) \in [fn : {"usb_cdc_write"}, id : Nat, l : Nat, sent : Nat,
                               at : {"loop", "task", "end"}]
  BY DEF GoneOn
<1>2. GoneOn(f, sent, at) \in Frame
  BY <1>1 DEF Frame
<1>3. /\ GoneOn(f, sent, at).fn = f.fn /\ GoneOn(f, sent, at).id = f.id
      /\ GoneOn(f, sent, at).l = f.l
      /\ GoneOn(f, sent, at).sent = sent /\ GoneOn(f, sent, at).at = at
  BY DEF GoneOn
<1>. QED  BY <1>2, <1>3

(* An output goes on: what it is now in its loop, and the rest of the stack. *)
LEMMA OutputGoesOn ==
  ASSUME TextInv, NEW at, At("usb_cdc_write", at), NEW sent \in Nat, sent <= Top.l,
         NEW next \in {"loop", "task", "end"}, NEW n, n = Len(stack),
         stack' = SetTop(GoneOn(Top, sent, next))
  PROVE  /\ stack' \in Seq(Frame) /\ DOMAIN stack' = DOMAIN stack
         /\ n \in DOMAIN stack /\ stack[n] = Top /\ Top.fn = "usb_cdc_write"
         /\ stack'[n].fn = "usb_cdc_write" /\ stack'[n].id = Top.id /\ stack'[n].l = Top.l
         /\ stack'[n].sent = sent /\ stack'[n].at = next
         /\ \A k \in DOMAIN stack : k # n => stack'[k] = stack[k]
         /\ Bounded(stack', Len(calls)) /\ Outputs' = Outputs
<1>. DEFINE f == GoneOn(Top, sent, next)
<1>1. /\ stack \in Seq(Frame) /\ stack # <<>> /\ n \in DOMAIN stack
      /\ Top = stack[n] /\ Top.fn = "usb_cdc_write"
      /\ Top \in [fn : {"usb_cdc_write"}, id : Nat, l : Nat, sent : Nat,
                  at : {"loop", "task", "end"}]
      /\ Top.id \in 0 .. Len(calls)
  BY TopOutput
<1>2. stack' = Append(Front(stack), f)
  BY DEF SetTop
<1>3. f \in Frame
  BY <1>1, GoneOnFields
<1>4. f.fn = "usb_cdc_write" /\ f.id = Top.id /\ f.l = Top.l /\ f.sent = sent /\ f.at = next
  BY <1>1, GoneOnFields
<1>. HIDE DEF f
<1>5. /\ stack' \in Seq(Frame) /\ n \in Nat \ {0} /\ DOMAIN stack = 1 .. n /\ DOMAIN stack' = 1 .. n
      /\ \A k \in 1 .. n - 1 : stack'[k] = stack[k]
      /\ stack'[n] = f
  <2>. DEFINE s == Append(Front(stack), f)
  <2>1. /\ s \in Seq(Frame) /\ Len(stack) \in Nat \ {0}
        /\ DOMAIN stack = 1 .. Len(stack) /\ DOMAIN s = 1 .. Len(stack)
        /\ \A k \in 1 .. Len(stack) - 1 : s[k] = stack[k]
        /\ s[Len(stack)] = f
    BY <1>1, <1>3, Replaced
  <2>2. stack' = s
    BY <1>2
  <2>. HIDE DEF s
  <2>. QED  BY <2>1, <2>2
<1>6. \A k \in DOMAIN stack : k # n => stack'[k] = stack[k]
  BY <1>5
<1>7. Bounded(stack', Len(calls))
  <2>. SUFFICES ASSUME NEW k \in DOMAIN stack, stack'[k].fn = "usb_cdc_write"
                PROVE  stack'[k].id \in 0 .. Len(calls) /\ stack'[k].sent \in 0 .. stack'[k].l
    BY <1>5 DEF Bounded
  <2>1. CASE k = n
    <3>1. sent \in 0 .. Top.l
      BY <1>1
    <3>. QED  BY <1>1, <1>4, <1>5, <2>1, <3>1
  <2>2. CASE k # n
    BY <1>6, <2>2 DEF TextInv, TypeOK
  <2>. QED  BY <2>1, <2>2
<1>8. Outputs' = Outputs
  BY <1>1, <1>4, <1>5, <1>6 DEF Outputs, Writes
<1>. QED  BY <1>1, <1>4, <1>5, <1>6, <1>7, <1>8

(* The chunk that the port takes is the next part of the buffer. *)
LEMMA ChunkOut ==
  ASSUME TypeOK, NEW r \in Call, NEW sent \in Nat, Len(r.out) = sent, NEW m \in Nat,
         sent + m <= BuffSize
  PROVE  /\ [r EXCEPT !.out = @ \o SubSeq(line_buff, sent + 1, sent + m)] \in Call
         /\ LET out == r.out \o SubSeq(line_buff, sent + 1, sent + m)
            IN /\ out \in Seq(Character)
               /\ Len(out) = sent + m
               /\ \A i \in 1 .. sent : out[i] = r.out[i]
               /\ \A i \in 1 .. sent + m : i \notin 1 .. sent => out[i] = line_buff[i]
<1>. DEFINE chunk == SubSeq(line_buff, sent + 1, sent + m)  out == r.out \o chunk
<1>1. /\ chunk \in Seq(Character) /\ Len(chunk) = m
      /\ \A i \in 1 .. m : chunk[i] = line_buff[sent + i]
  BY PartOfBuffer
<1>2. r.out \in Seq(Character)
  BY DEF Call
<1>. HIDE DEF chunk
<1>3. /\ out \in Seq(Character) /\ Len(out) = sent + m
      /\ \A i \in 1 .. sent + m : out[i] = IF i <= sent THEN r.out[i] ELSE chunk[i - sent]
  <2>1. /\ out \in Seq(Character) /\ Len(out) = Len(r.out) + Len(chunk)
        /\ \A i \in 1 .. Len(r.out) + Len(chunk) :
             out[i] = IF i <= Len(r.out) THEN r.out[i] ELSE chunk[i - Len(r.out)]
    BY <1>1, <1>2, ConcatProperties
  <2>. HIDE DEF out
  <2>. QED  BY <1>1, <2>1
<1>4. \A i \in 1 .. sent + m : i \notin 1 .. sent =>
        ~(i <= sent) /\ i - sent \in 1 .. m /\ sent + (i - sent) = i
  OBVIOUS
<1>5. \A i \in 1 .. sent : i \in 1 .. sent + m /\ i <= sent
  OBVIOUS
<1>6. \A i \in 1 .. sent + m : i \notin 1 .. sent => out[i] = line_buff[i]
  BY <1>1, <1>3, <1>4
<1>7. \A i \in 1 .. sent : out[i] = r.out[i]
  BY <1>3, <1>5
<1>. HIDE DEF out
<1>8. [r EXCEPT !.out = out] \in Call
  BY <1>3 DEF Call
<1>. QED  BY <1>3, <1>6, <1>7, <1>8 DEF out, chunk

(* A chunk goes into the FIFO: it is the next part of the message. *)
LEMMA WriteChunkKeeps ==
  ASSUME TextInv, WriteChunk
  PROVE  TextInv'
<1>1. PICK n : n = Len(stack)
  OBVIOUS
<1>2. PICK f : f = Top
  OBVIOUS
<1>3. PICK m : m = Available(f.l - f.sent)
  OBVIOUS
<1>4. /\ f = stack[n] /\ n \in DOMAIN stack /\ f.at = "loop"
      /\ f \in [fn : {"usb_cdc_write"}, id : Nat, l : Nat, sent : Nat,
                at : {"loop", "task", "end"}]
      /\ f.id \in 0 .. Len(calls) /\ f.sent <= f.l /\ (f.id # 0 => n \in Outputs)
  BY <1>1, <1>2, TopOutput DEF WriteChunk
<1>5. /\ m \in Nat /\ f.sent + m \in Nat /\ f.sent + m <= f.l /\ fifo + m \in 0 .. FifoSize
      /\ f.sent \in Nat /\ f.l \in Nat
  BY <1>3, <1>4, Sizes DEF Available, TextInv, TypeOK
<1>6. /\ fifo' = fifo + m
      /\ UNCHANGED <<line_buff, head, full, opened, suspended, last_dtr, replayed, disturbed>>
      /\ stack' = SetTop([Top EXCEPT !.sent = f.sent + m, !.at = "task"])
      /\ calls' = IF f.id = 0 THEN calls ELSE [calls EXCEPT ![f.id].out = @ \o Chunk(m)]
  BY <1>2, <1>3 DEF WriteChunk, log_buff
<1>7. /\ stack' \in Seq(Frame) /\ DOMAIN stack' = DOMAIN stack
      /\ stack'[n].id = f.id /\ stack'[n].l = f.l /\ stack'[n].fn = "usb_cdc_write"
      /\ stack'[n].sent = f.sent + m /\ stack'[n].at = "task"
      /\ \A k \in DOMAIN stack : k # n => stack'[k] = stack[k]
      /\ Bounded(stack', Len(calls)) /\ Outputs' = Outputs
  <2>1. PICK t \in Nat : t = f.sent + m
    BY <1>5
  <2>2. At("usb_cdc_write", "loop")
    BY DEF WriteChunk
  <2>3. stack' = SetTop(GoneOn(Top, t, "task")) /\ t <= Top.l
    BY <1>2, <1>5, <1>6, <2>1 DEF GoneOn
  <2>4. /\ stack' \in Seq(Frame) /\ DOMAIN stack' = DOMAIN stack
        /\ stack'[n].fn = "usb_cdc_write" /\ stack'[n].id = Top.id /\ stack'[n].l = Top.l
        /\ stack'[n].sent = t /\ stack'[n].at = "task"
        /\ \A k \in DOMAIN stack : k # n => stack'[k] = stack[k]
        /\ Bounded(stack', Len(calls)) /\ Outputs' = Outputs
    BY <1>1, <2>2, <2>3, OutputGoesOn
  <2>. QED  BY <1>2, <2>1, <2>4
<1>8. \A c : c \in Ids' <=> c \in Ids
  <2>1. \A c : c \in Ids' <=> \E k \in Outputs' : stack'[k].id = c
    BY DEF Ids, Outputs, Writes
  <2>2. \A k \in Outputs : stack'[k].id = stack[k].id
    BY <1>4, <1>7 DEF Outputs, Writes
  <2>. QED  BY <1>7, <2>1, <2>2, IdsOfOutputs
<1>9. OneOutput'
  <2>1. \A k \in Outputs : stack'[k].id = stack[k].id
    BY <1>4, <1>7 DEF Outputs, Writes
  <2>. QED  BY <1>7, <2>1 DEF TextInv, OneOutput
<1>10. CASE f.id = 0
  <2>1. calls' = calls /\ n \notin Outputs
    BY <1>4, <1>6, <1>10 DEF Outputs
  <2>2. TypeOK'
    BY <1>5, <1>6, <1>7, <2>1 DEF TextInv, TypeOK, Bounded
  <2>a. Nesting /\ Lasting /\ Nesting'
    BY <2>1 DEF TextInv, Nesting, Lasting
  <2>3. ASSUME NEW k \in Outputs
        PROVE  InStep(k)' /\ Unmixed(k)'
    <3>1. stack'[k] = stack[k]
      BY <1>7, <2>1 DEF Outputs, Writes
    <3>2. stack[k].id \in DOMAIN calls /\ InStep(k) /\ Unmixed(k)
      BY OutputFrame DEF TextInv
    <3>. QED  BY <1>6, <2>1, <2>a, <3>1, <3>2, OutputAlone
  <2>4. ASSUME NEW c \in DOMAIN calls, Ended(c)'
        PROVE  Left(c)'
    <3>1. Ended(c)
      BY <1>8, <2>1, <2>4 DEF Ended
    <3>. QED  BY <2>1, <2>a, <3>1, LeftAlone DEF TextInv
  <2>5. DOMAIN calls' = DOMAIN calls
    BY <2>1
  <2>. QED  BY <1>7, <1>9, <2>a, <2>2, <2>3, <2>4, <2>5 DEF TextInv
<1>11. CASE f.id # 0
  <2>1. PICK c : c = f.id
    OBVIOUS
  <2>. DEFINE r == calls[c]
  <2>2. c \in DOMAIN calls /\ r \in Call /\ f.l < BuffSize /\ n \in Outputs
    BY <1>4, <1>11, <2>1, OutputFrame
  <2>3. /\ f.l = r.l /\ r.entry = <<>> /\ Len(r.out) = f.sent /\ r.connected
    BY <1>4, <2>1, <2>2 DEF TextInv, InStep
  <2>4. f.sent + m <= BuffSize
    BY <1>5, <2>2, Sizes
  <2>. DEFINE out == r.out \o SubSeq(line_buff, f.sent + 1, f.sent + m)
  <2>5. /\ [r EXCEPT !.out = out] \in Call
        /\ out \in Seq(Character) /\ Len(out) = f.sent + m
        /\ \A i \in 1 .. f.sent : out[i] = r.out[i]
        /\ \A i \in 1 .. f.sent + m : i \notin 1 .. f.sent => out[i] = line_buff[i]
    BY <1>5, <2>2, <2>3, <2>4, ChunkOut DEF TextInv
  <2>6. calls' = [calls EXCEPT ![c] = [r EXCEPT !.out = out]]
    BY <1>2, <1>6, <1>11, <2>1 DEF Chunk
  <2>7. calls \in Seq(Call)
    BY DEF TextInv, TypeOK
  <2>. HIDE DEF out
  <2>8. /\ calls' \in Seq(Call) /\ Len(calls') = Len(calls) /\ DOMAIN calls' = DOMAIN calls
        /\ calls'[c] = [r EXCEPT !.out = out]
        /\ \A d \in DOMAIN calls : d # c => calls'[d] = calls[d]
    BY <2>2, <2>5, <2>6, <2>7, ExceptSeq, LenProperties
  <2>a. Nesting /\ Lasting /\ Nesting'
    <3>1. \A d \in DOMAIN calls : /\ calls'[d].l = calls[d].l /\ calls'[d].wrote = calls[d].wrote
                                  /\ calls'[d].nested = calls[d].nested
      BY <2>2, <2>8 DEF Call
    <3>. QED  BY <2>8, <3>1 DEF TextInv, Nesting, Lasting
  <2>9. /\ calls'[c].out = out /\ calls'[c].l = r.l /\ calls'[c].entry = r.entry
        /\ calls'[c].connected = r.connected /\ calls'[c].nested = r.nested
    BY <2>2, <2>8 DEF Call
  <2>10. TypeOK'
    BY <1>5, <1>6, <1>7, <2>8 DEF TextInv, TypeOK, Bounded
  <2>11. InStep(n)'
    BY <1>7, <2>1, <2>2, <2>3, <2>5, <2>9 DEF InStep
  <2>12. Unmixed(n)'
    <3>1. Unmixed(n)
      BY <2>2 DEF TextInv
    <3>2. \A ch, k : (Newest(ch, c, k) => Newest(ch, c, k)') /\ (Sent(ch, c, k) => Sent(ch, c, k)')
      BY <2>2, <2>9, <2>a, TextLasts
    <3>3. \A i \in 1 .. f.sent + m : i \notin 1 .. f.sent => i \in 1 .. f.l
      BY <1>5
    <3>4. \A i \in 1 .. f.l : Newest(line_buff[i], c, i)
      BY <1>4, <2>1, <3>1 DEF Unmixed
    <3>5. \A i \in 1 .. f.sent : Sent(calls[c].out[i], c, i)
      BY <1>4, <2>1, <3>1 DEF Unmixed
    <3>6. ASSUME NEW i \in 1 .. f.sent + m
          PROVE  Sent(out[i], c, i)
      <4>1. CASE i \in 1 .. f.sent
        BY <2>5, <3>5, <4>1
      <4>2. CASE i \notin 1 .. f.sent
        <5>1. i \in 1 .. f.l /\ out[i] = line_buff[i]
          BY <2>5, <3>3, <3>6, <4>2
        <5>2. Newest(line_buff[i], c, i)
          BY <3>4, <5>1
        <5>. QED  BY <5>1, <5>2 DEF Newest, Sent
      <4>. QED  BY <4>1, <4>2
    <3>7. ASSUME NEW i \in 1 .. f.sent + m
          PROVE  Sent(calls[c].out[i], c, i)'
      <4>1. PICK ch : ch = out[i]
        OBVIOUS
      <4>2. Sent(ch, c, i)'
        BY <3>2, <3>6, <4>1
      <4>3. calls'[c].out[i] = ch
        BY <2>9, <4>1
      <4>. QED  BY <4>2, <4>3 DEF Sent
    <3>8. ASSUME NEW i \in 1 .. f.l
          PROVE  Newest(line_buff[i], c, i)'
      <4>1. PICK ch : ch = line_buff[i]
        OBVIOUS
      <4>2. Newest(ch, c, i)'
        BY <3>2, <3>4, <4>1
      <4>3. line_buff'[i] = ch
        BY <1>6, <4>1
      <4>. QED  BY <4>2, <4>3 DEF Newest
    <3>. QED  BY <1>7, <2>1, <3>7, <3>8 DEF Unmixed
  <2>13. ASSUME NEW k \in Outputs, k # n
         PROVE  InStep(k)' /\ Unmixed(k)'
    <3>1. PICK d : d = stack[k].id
      OBVIOUS
    <3>2. d # c /\ d \in DOMAIN calls /\ k \in DOMAIN stack
      BY <1>4, <2>1, <2>2, <2>13, <3>1, OutputFrame DEF TextInv, OneOutput
    <3>3. calls'[d] = calls[d] /\ stack'[k] = stack[k]
      BY <1>7, <2>8, <2>13, <3>2
    <3>4. InStep(k) /\ Unmixed(k)
      BY DEF TextInv
    <3>. QED  BY <1>6, <2>a, <3>1, <3>2, <3>3, <3>4, OutputAlone
  <2>14. ASSUME NEW d \in DOMAIN calls, Ended(d)'
         PROVE  Left(d)'
    <3>1. Ended(d) /\ d \notin Ids
      BY <1>8, <2>14 DEF Ended
    <3>2. d # c
      BY <1>4, <2>1, <2>2, <3>1, IdsOfOutputs
    <3>3. calls'[d] = calls[d]
      BY <2>8, <3>2
    <3>. QED  BY <2>a, <3>1, <3>3, LeftAlone DEF TextInv
  <2>. QED  BY <2>a, <1>7, <1>9, <2>8, <2>10, <2>11, <2>12, <2>13, <2>14 DEF TextInv
<1>. QED  BY <1>10, <1>11

(* The stack has run: the output looks again whether it is done. *)
LEMMA TaskDoneKeeps ==
  ASSUME TextInv, TaskDone
  PROVE  TextInv'
<1>1. PICK n : n = Len(stack)
  OBVIOUS
<1>2. PICK f : f = Top
  OBVIOUS
<1>3. /\ f = stack[n] /\ n \in DOMAIN stack /\ f.at = "task"
      /\ f \in [fn : {"usb_cdc_write"}, id : Nat, l : Nat, sent : Nat,
                at : {"loop", "task", "end"}]
      /\ f.sent <= f.l /\ (f.id # 0 => n \in Outputs)
  BY <1>1, <1>2, TopOutput DEF TaskDone
<1>4. PICK next \in {"loop", "task", "end"} : next = IF f.sent < f.l THEN "loop" ELSE "end"
  OBVIOUS
<1>5. PICK t \in Nat : t = f.sent
  BY <1>3
<1>6. [f EXCEPT !.at = next] = GoneOn(f, t, next)
  <2>1. \A r \in [fn : {"usb_cdc_write"}, id : Nat, l : Nat, sent : Nat,
                  at : {"loop", "task", "end"}] :
          [r EXCEPT !.at = next] = [r EXCEPT !.sent = r.sent, !.at = next]
    OBVIOUS
  <2>. QED  BY <1>3, <1>5, <2>1, Zenon DEF GoneOn
<1>7. /\ stack' = SetTop(GoneOn(Top, t, next)) /\ t <= Top.l
      /\ UNCHANGED <<line_buff, head, full, fifo, opened, suspended, last_dtr, calls, replayed,
                     disturbed>>
  BY <1>2, <1>3, <1>4, <1>5, <1>6 DEF TaskDone, log_buff, port
<1>8. /\ stack' \in Seq(Frame) /\ DOMAIN stack' = DOMAIN stack
      /\ stack'[n].fn = "usb_cdc_write" /\ stack'[n].id = f.id /\ stack'[n].l = f.l
      /\ stack'[n].sent = f.sent /\ stack'[n].at = next
      /\ \A k \in DOMAIN stack : k # n => stack'[k] = stack[k]
      /\ Bounded(stack', Len(calls)) /\ Outputs' = Outputs
  <2>1. At("usb_cdc_write", "task")
    BY DEF TaskDone
  <2>2. /\ stack' \in Seq(Frame) /\ DOMAIN stack' = DOMAIN stack
        /\ stack'[n].fn = "usb_cdc_write" /\ stack'[n].id = Top.id /\ stack'[n].l = Top.l
        /\ stack'[n].sent = t /\ stack'[n].at = next
        /\ \A k \in DOMAIN stack : k # n => stack'[k] = stack[k]
        /\ Bounded(stack', Len(calls)) /\ Outputs' = Outputs
    BY <1>1, <1>7, <2>1, OutputGoesOn
  <2>. QED  BY <1>2, <1>5, <2>2
<1>9. TypeOK'
  BY <1>7, <1>8 DEF TextInv, TypeOK, Bounded
<1>10. \A k \in Outputs : stack'[k].id = stack[k].id
  BY <1>3, <1>8 DEF Outputs, Writes
<1>11. \A c : c \in Ids' <=> c \in Ids
  <2>1. \A c : c \in Ids' <=> \E k \in Outputs' : stack'[k].id = c
    BY DEF Ids, Outputs, Writes
  <2>. QED  BY <1>8, <1>10, <2>1, IdsOfOutputs
<1>12. OneOutput'
  BY <1>8, <1>10 DEF TextInv, OneOutput
<1>a. Nesting /\ Lasting /\ Nesting'
  BY <1>7 DEF TextInv, Nesting, Lasting
<1>13. ASSUME NEW k \in Outputs
       PROVE  InStep(k)' /\ Unmixed(k)'
  <2>1. InStep(k) /\ Unmixed(k) /\ k \in DOMAIN stack /\ stack[k].id \in DOMAIN calls
    BY OutputFrame DEF TextInv, Outputs, Writes
  <2>2. CASE k # n
    BY <1>7, <1>8, <1>a, <2>1, <2>2, OutputAlone
  <2>3. CASE k = n
    <3>1. PICK c : c = f.id
      OBVIOUS
    <3>2. calls[c].connected /\ f.l = calls[c].l /\ f.l < BuffSize
          /\ calls[c].entry = <<>> /\ Len(calls[c].out) = f.sent
      BY <1>3, <2>1, <2>3, <3>1 DEF InStep
    <3>3. next = "end" => f.sent = f.l
      BY <1>3, <1>4
    <3>4. InStep(n)'
      BY <1>7, <1>8, <3>1, <3>2, <3>3 DEF InStep
    <3>5. Unmixed(n)'
      <4>1. /\ \A i \in 1 .. f.sent : Sent(calls[c].out[i], c, i)
            /\ \A i \in 1 .. f.l : Newest(line_buff[i], c, i)
        BY <1>3, <2>1, <2>3, <3>1 DEF Unmixed
      <4>2. \A i : Writers(c, i)' = Writers(c, i)
        BY <1>7 DEF Writers
      <4>3. \A w, i : LeftAt(w, i)' = LeftAt(w, i)
        BY <1>7 DEF LeftAt
      <4>4. /\ \A i \in 1 .. f.sent : Sent(calls[c].out[i], c, i)'
            /\ \A i \in 1 .. f.l : Newest(line_buff[i], c, i)'
        BY <1>7, <4>1, <4>2, <4>3 DEF Sent, Newest
      <4>. QED  BY <1>8, <3>1, <4>4 DEF Unmixed
    <3>. QED  BY <2>3, <3>4, <3>5
  <2>. QED  BY <2>2, <2>3
<1>14. ASSUME NEW c \in DOMAIN calls, Ended(c)'
       PROVE  Left(c)'
  <2>1. Ended(c)
    BY <1>11, <1>14 DEF Ended
  <2>. QED  BY <1>7, <1>14, <1>a, <2>1, LeftAlone DEF TextInv
<1>15. DOMAIN calls' = DOMAIN calls
  BY <1>7
<1>. QED  BY <1>a, <1>8, <1>9, <1>12, <1>13, <1>14, <1>15 DEF TextInv

(* An output ends: what its call leaves. *)
LEMMA CallLeaves ==
  ASSUME TextInv, WriteEnds, Top.id # 0, NEW c, c = Top.id, NEW n, n = Len(stack),
         calls' \in Seq(Call), Nesting, Lasting,
         calls'[c].l = calls[c].l, calls'[c].connected = calls[c].connected,
         calls'[c].nested = calls[c].nested, calls'[c].log = calls[c].log,
         calls'[c].out = calls[c].out,
         calls'[c].entry = IF calls[c].log THEN SubSeq(line_buff, 1, Top.l) ELSE <<>>
  PROVE  Left(c)'
<1>1. PICK f : f = Top
  OBVIOUS
<1>2. /\ f = stack[n] /\ f.at = "end" /\ n \in Outputs
      /\ f \in [fn : {"usb_cdc_write"}, id : Nat, l : Nat, sent : Nat,
                at : {"loop", "task", "end"}]
      /\ c \in DOMAIN calls /\ calls[c] \in Call /\ f.l < BuffSize
  BY <1>1, TopOutput, OutputFrame DEF WriteEnds
<1>3. PICK l \in Nat : l = f.l
  BY <1>2
<1>4. /\ l = calls[c].l /\ l < BuffSize
      /\ IF calls[c].connected THEN f.sent = l ELSE f.sent = 0
      /\ Len(calls[c].out) = f.sent /\ f.sent \in Nat
  BY <1>1, <1>2, <1>3 DEF TextInv, InStep
<1>5. /\ \A i \in 1 .. f.sent : Sent(calls[c].out[i], c, i)
      /\ \A i \in 1 .. l : Newest(line_buff[i], c, i)
  BY <1>1, <1>2, <1>3 DEF TextInv, Unmixed
<1>. DEFINE text == SubSeq(line_buff, 1, l)
<1>6. text \in Seq(Character) /\ Len(text) = l /\ \A i \in 1 .. l : text[i] = line_buff[i]
  <2>1. 0 + 1 = 1 /\ 0 + l = l /\ 0 + l <= BuffSize /\ \A i \in 1 .. l : 0 + i = i
    BY <1>4, Sizes
  <2>2. /\ SubSeq(line_buff, 0 + 1, 0 + l) \in Seq(Character)
        /\ Len(SubSeq(line_buff, 0 + 1, 0 + l)) = l
        /\ \A i \in 1 .. l : SubSeq(line_buff, 0 + 1, 0 + l)[i] = line_buff[0 + i]
    BY <2>1, PartOfBuffer DEF TextInv
  <2>. QED  BY <2>1, <2>2
<1>7. calls'[c].entry = IF calls[c].log THEN text ELSE <<>>
  BY <1>1, <1>3
<1>. HIDE DEF text
<1>8. /\ calls[c].out \in Seq(Character) /\ DOMAIN calls[c].out = 1 .. f.sent
      /\ DOMAIN text = 1 .. l /\ DOMAIN <<>> = {}
  BY <1>2, <1>4, <1>6, LenProperties, EmptySeq DEF Call
<1>9. \A ch, k : (Newest(ch, c, k) => Newest(ch, c, k)') /\ (Sent(ch, c, k) => Sent(ch, c, k)')
  BY <1>2, TextLasts
<1>10. ASSUME NEW k \in DOMAIN calls'[c].entry
       PROVE  Newest(calls[c].entry[k], c, k)'
  <2>1. calls[c].log /\ calls'[c].entry = text /\ k \in 1 .. l
    BY <1>7, <1>8, <1>10
  <2>2. PICK ch : ch = line_buff[k]
    OBVIOUS
  <2>3. Newest(ch, c, k)'
    BY <1>5, <1>9, <2>1, <2>2
  <2>4. calls'[c].entry[k] = ch
    BY <1>6, <2>1, <2>2
  <2>. QED  BY <2>3, <2>4 DEF Newest
<1>11. ASSUME NEW k \in DOMAIN calls'[c].out
       PROVE  Sent(calls[c].out[k], c, k)'
  <2>1. k \in 1 .. f.sent
    BY <1>8, <1>11
  <2>2. PICK ch : ch = calls[c].out[k]
    OBVIOUS
  <2>3. Sent(ch, c, k)'
    BY <1>5, <1>9, <2>1, <2>2
  <2>4. calls'[c].out[k] = ch
    BY <2>2
  <2>. QED  BY <2>3, <2>4 DEF Sent
<1>12. /\ Len(calls'[c].entry) = IF calls'[c].log THEN calls'[c].l ELSE 0
       /\ Len(calls'[c].out) = IF calls'[c].connected THEN calls'[c].l ELSE 0
  BY <1>4, <1>6, <1>7, EmptySeq
<1>. QED  BY <1>10, <1>11, <1>12 DEF Left

(* A call with its log entry. *)
LEMMA EntryType ==
  ASSUME NEW r \in Call, NEW s \in Seq(Character)
  PROVE  /\ [r EXCEPT !.entry = s] \in Call
         /\ [r EXCEPT !.entry = s].l = r.l /\ [r EXCEPT !.entry = s].log = r.log
         /\ [r EXCEPT !.entry = s].connected = r.connected
         /\ [r EXCEPT !.entry = s].nested = r.nested /\ [r EXCEPT !.entry = s].wrote = r.wrote
         /\ [r EXCEPT !.entry = s].out = r.out /\ [r EXCEPT !.entry = s].entry = s
BY DEF Call

(* The log takes so many characters. *)
LEMMA HeadMoves ==
  ASSUME NEW h \in 0 .. LogSize - 1, NEW l \in Nat
  PROVE  (h + l) % LogSize \in 0 .. LogSize - 1 /\ (h + l >= LogSize) \in BOOLEAN
<1>1. LogSize \in Nat \ {0} /\ h + l \in Nat
  BY Sizes
<1>. QED  BY <1>1

(* An output ends: its message is on the terminal and in the log. *)
LEMMA WriteEndsKeeps ==
  ASSUME TextInv, WriteEnds
  PROVE  TextInv'
<1>1. PICK n : n = Len(stack)
  OBVIOUS
<1>2. PICK f : f = Top
  OBVIOUS
<1>3. At("usb_cdc_write", "end")
  BY DEF WriteEnds
<1>4. /\ stack \in Seq(Frame) /\ stack # <<>>
      /\ f = stack[n] /\ n \in DOMAIN stack /\ f.fn = "usb_cdc_write" /\ f.at = "end"
      /\ f.id \in 0 .. Len(calls)
      /\ f \in [fn : {"usb_cdc_write"}, id : Nat, l : Nat, sent : Nat,
                at : {"loop", "task", "end"}]
      /\ f.sent <= f.l /\ (f.id # 0 => n \in Outputs)
  BY <1>1, <1>2, <1>3, TopOutput
<1>5. /\ stack' \in Seq(Frame) /\ n \in Nat \ {0}
      /\ DOMAIN stack = 1 .. n /\ DOMAIN stack' = 1 .. n - 1
      /\ \A k \in DOMAIN stack' : k \in DOMAIN stack /\ stack'[k] = stack[k]
  <2>1. stack' = Front(stack)
    BY DEF WriteEnds
  <2>. QED  BY <1>1, <1>4, <2>1, Popped
<1>6. \A k \in DOMAIN stack : k # n => k \in DOMAIN stack'
  BY <1>5
<1>7. UNCHANGED <<line_buff, fifo, opened, suspended, last_dtr, replayed, disturbed>>
  BY DEF WriteEnds, port
<1>a. head' \in 0 .. LogSize - 1 /\ full' \in BOOLEAN
  <2>1. head \in 0 .. LogSize - 1 /\ full \in BOOLEAN /\ f.l \in Nat
    BY <1>4 DEF TextInv, TypeOK
  <2>2. \/ head' = (head + f.l) % LogSize /\ full' = (full \/ head + f.l >= LogSize)
        \/ head' = head /\ full' = full
    BY <1>2 DEF WriteEnds, log_buff
  <2>. QED  BY <2>1, <2>2, HeadMoves
<1>8. Bounded(stack', Len(calls))
  BY <1>5 DEF Bounded, TextInv, TypeOK
<1>9. CASE f.id = 0
  <2>1. calls' = calls
    BY <1>2, <1>9 DEF WriteEnds
  <2>2. TypeOK'
    BY <1>5, <1>7, <1>8, <1>a, <2>1 DEF TextInv, TypeOK, Bounded
  <2>3. \A k \in Outputs : k # n /\ k \in DOMAIN stack
    BY <1>4, <1>9 DEF Outputs, Writes
  <2>4. \A k \in Outputs : k \in DOMAIN stack' /\ stack'[k] = stack[k]
    BY <1>5, <1>6, <2>3
  <2>. QED  BY <1>5, <1>7, <2>1, <2>2, <2>4, TextAlone
<1>10. CASE f.id # 0
  <2>1. PICK c : c = f.id
    OBVIOUS
  <2>2. n \in Outputs /\ c \in DOMAIN calls /\ calls[c] \in Call /\ f.l < BuffSize
    BY <1>4, <1>10, <2>1, OutputFrame
  <2>3. calls[c].entry = <<>>
    BY <1>4, <2>1, <2>2 DEF TextInv, InStep
  <2>. DEFINE text == SubSeq(line_buff, 1, f.l)
              r == [calls[c] EXCEPT !.entry = text]
  <2>4. text \in Seq(Character)
    <3>1. f.l \in Nat /\ 0 + 1 = 1 /\ 0 + f.l = f.l /\ 0 + f.l <= BuffSize
      BY <1>4, <2>2, Sizes
    <3>2. PICK l \in Nat : l = f.l
      BY <3>1
    <3>3. SubSeq(line_buff, 0 + 1, 0 + l) \in Seq(Character)
      BY <3>1, <3>2, PartOfBuffer DEF TextInv
    <3>. QED  BY <3>1, <3>2, <3>3
  <2>6. calls' = IF calls[c].log THEN [calls EXCEPT ![c] = r] ELSE calls
    BY <1>2, <1>10, <2>1 DEF WriteEnds
  <2>. HIDE DEF text
  <2>7. /\ r \in Call /\ r.l = calls[c].l /\ r.connected = calls[c].connected
        /\ r.nested = calls[c].nested /\ r.wrote = calls[c].wrote /\ r.log = calls[c].log
        /\ r.out = calls[c].out /\ r.entry = text
    BY <2>2, <2>4, EntryType
  <2>. HIDE DEF r
  <2>8. /\ calls' \in Seq(Call) /\ Len(calls') = Len(calls) /\ DOMAIN calls' = DOMAIN calls
        /\ calls'[c] = IF calls[c].log THEN r ELSE calls[c]
        /\ \A d \in DOMAIN calls : d # c => calls'[d] = calls[d]
    <3>1. calls \in Seq(Call)
      BY DEF TextInv, TypeOK
    <3>2. CASE calls[c].log
      <4>1. calls' = [calls EXCEPT ![c] = r]
        BY <2>6, <3>2
      <4>. QED  BY <2>2, <2>7, <3>1, <3>2, <4>1, ExceptSeq, LenProperties
    <3>3. CASE ~calls[c].log
      BY <2>6, <3>1, <3>3
    <3>. QED  BY <3>2, <3>3
  <2>a. Nesting /\ Lasting /\ Nesting'
    <3>1. \A d \in DOMAIN calls : /\ calls'[d].l = calls[d].l /\ calls'[d].wrote = calls[d].wrote
                                  /\ calls'[d].nested = calls[d].nested
      BY <2>7, <2>8
    <3>. QED  BY <2>8, <3>1 DEF TextInv, Nesting, Lasting
  <2>9. Left(c)'
    <3>1. /\ calls'[c].l = calls[c].l /\ calls'[c].connected = calls[c].connected
          /\ calls'[c].nested = calls[c].nested /\ calls'[c].log = calls[c].log
          /\ calls'[c].out = calls[c].out
      BY <2>7, <2>8
    <3>2. calls'[c].entry = IF calls[c].log THEN SubSeq(line_buff, 1, Top.l) ELSE <<>>
      BY <1>2, <2>3, <2>7, <2>8 DEF text
    <3>3. Top.id # 0 /\ c = Top.id
      BY <1>2, <1>10, <2>1
    <3>. QED  BY <1>1, <2>8, <2>a, <3>1, <3>2, <3>3, CallLeaves
  <2>10. TypeOK'
    BY <1>5, <1>7, <1>8, <1>a, <2>8 DEF TextInv, TypeOK, Bounded
  <2>11. \A k : k \in Outputs' <=> k \in Outputs /\ k # n
    BY <1>4, <1>5, <1>6 DEF Outputs, Writes
  <2>12. \A k \in Outputs' : k \in Outputs /\ k # n /\ stack'[k] = stack[k]
    BY <1>5, <2>11 DEF Outputs, Writes
  <2>13. OneOutput'
    BY <2>12 DEF TextInv, OneOutput
  <2>14. ASSUME NEW k \in Outputs'
         PROVE  InStep(k)' /\ Unmixed(k)'
    <3>1. PICK d : d = stack[k].id
      OBVIOUS
    <3>2. d # c /\ d \in DOMAIN calls
      BY <1>4, <2>1, <2>2, <2>12, <3>1, OutputFrame DEF TextInv, OneOutput
    <3>3. calls'[d] = calls[d] /\ stack'[k] = stack[k]
      BY <2>8, <2>12, <3>2
    <3>4. InStep(k) /\ Unmixed(k)
      BY <2>12 DEF TextInv
    <3>. QED  BY <1>7, <2>a, <3>1, <3>2, <3>3, <3>4, OutputAlone
  <2>15. ASSUME NEW d \in DOMAIN calls, Ended(d)', d # c
         PROVE  Left(d)'
    <3>1. \A e : e \in Ids' <=> \E k \in Outputs' : stack'[k].id = e
      BY DEF Ids, Outputs, Writes
    <3>2. d \notin Ids
      <4>1. \A k \in Outputs : stack[k].id = d => k # n
        BY <1>4, <2>1, <2>15
      <4>2. \A k \in Outputs : k # n => k \in Outputs' /\ stack'[k].id = stack[k].id
        BY <2>11, <2>12
      <4>3. d \notin Ids'
        BY <2>15 DEF Ended
      <4>. QED  BY <3>1, <4>1, <4>2, <4>3, IdsOfOutputs
    <3>3. Ended(d)
      BY <2>15, <3>2 DEF Ended
    <3>4. calls'[d] = calls[d]
      BY <2>8, <2>15
    <3>. QED  BY <2>a, <2>15, <3>3, <3>4, LeftAlone DEF TextInv
  <2>. QED  BY <2>a, <2>8, <2>9, <2>10, <2>13, <2>14, <2>15 DEF TextInv
<1>. QED  BY <1>9, <1>10
-----------------------------------------------------------------------------
(* Whatever an output does, the frames below it stay. *)
LEMMA BelowStays ==
  ASSUME NEW s \in Seq(Frame), s # <<>>, NEW f
  PROVE  \A k \in 1 .. Len(s) - 1 :
           k \in DOMAIN Append(Front(s), f) /\ Append(Front(s), f)[k] = s[k]
<1>. DEFINE b == Front(s)
<1>1. /\ b \in Seq(Frame) /\ DOMAIN b = 1 .. Len(s) - 1 /\ Len(b) = Len(s) - 1
      /\ \A k \in DOMAIN b : b[k] = s[k]
      /\ Len(s) \in Nat \ {0}
  BY Popped
<1>. HIDE DEF b
<1>2. b \in Seq(Frame \cup {f}) /\ f \in Frame \cup {f}
  BY <1>1
<1>3. /\ Append(b, f) \in Seq(Frame \cup {f}) /\ Len(Append(b, f)) = Len(b) + 1
      /\ \A k \in 1 .. Len(b) : Append(b, f)[k] = b[k]
  BY <1>2, AppendProperties
<1>4. DOMAIN Append(b, f) = 1 .. Len(b) + 1
  BY <1>3, LenProperties
<1>. QED  BY <1>1, <1>3, <1>4 DEF b

(* The callbacks under way do not move while an output does. *)
LEMMA OutputKeepsCallbacks ==
  ASSUME TerminalInv, WriteChunk \/ TaskDone \/ WriteEnds
  PROVE  Followed' /\ GivenTheLog'
<1>1. PICK n : n = Len(stack)
  OBVIOUS
<1>2. /\ stack \in Seq(Frame) /\ stack # <<>> /\ n \in DOMAIN stack
      /\ stack[n].fn = "usb_cdc_write" /\ Top.fn = "usb_cdc_write"
  BY <1>1, TopFrame DEF TerminalInv, WriteChunk, TaskDone, WriteEnds
<1>3. ASSUME NEW k \in DOMAIN stack, stack[k].fn = "line_state"
      PROVE  k \in DOMAIN stack' /\ stack'[k] = stack[k]
  <2>1. k # n /\ DOMAIN stack = 1 .. n /\ n \in Nat \ {0}
    BY <1>1, <1>2, <1>3, Popped
  <2>2. k \in 1 .. n - 1
    BY <2>1
  <2>3. CASE WriteEnds
    <3>1. stack' = Front(stack)
      BY <2>3 DEF WriteEnds
    <3>. QED  BY <1>1, <1>2, <2>2, <3>1, Popped
  <2>4. CASE WriteChunk \/ TaskDone
    <3>1. PICK f : stack' = Append(Front(stack), f)
      BY <2>4 DEF WriteChunk, TaskDone, SetTop
    <3>. QED  BY <1>1, <1>2, <2>2, <3>1, BelowStays
  <2>. QED  BY <2>3, <2>4
<1>4. UNCHANGED <<opened, last_dtr, replayed, disturbed>> /\ (full => full')
  BY DEF WriteChunk, TaskDone, WriteEnds, port, log_buff
<1>5. ~At("line_state", "start")
  BY <1>2 DEF At
<1>. QED  BY <1>3, <1>4, <1>5, CallbacksAlone

(* The stack may call back only where no callback is on top. *)
LEMMA NoCallbackOnTop ==
  ASSUME InTask
  PROVE  ~At("line_state", "start")
BY DEF InTask, At, Idle

(* The host reads, or the bus sleeps or wakes: no text changes. *)
LEMMA PortKeeps ==
  ASSUME TextInv, TerminalInv, HostReads \/ Suspend \/ Resume
  PROVE  TextInv' /\ Followed' /\ GivenTheLog'
<1>1. /\ UNCHANGED <<line_buff, stack, head, full, opened, last_dtr, calls, replayed>>
      /\ (disturbed => disturbed') /\ ~At("line_state", "start")
  <2>1. InTask /\ UNCHANGED <<line_buff, stack, log_buff, opened, last_dtr, calls, replayed>>
    BY DEF HostReads, Suspend, Resume
  <2>2. disturbed \in BOOLEAN /\ (disturbed' = disturbed \/ disturbed' = (disturbed \/ (opened /\ replayed # "yes")))
    BY DEF HostReads, Suspend, Resume, TextInv, TypeOK
  <2>. QED  BY <2>1, <2>2, NoCallbackOnTop DEF log_buff
<1>2. fifo' \in 0 .. FifoSize /\ suspended' \in BOOLEAN /\ disturbed' \in BOOLEAN
  <2>1. fifo \in 0 .. FifoSize /\ 0 \in 0 .. FifoSize
    BY Sizes DEF TextInv, TypeOK
  <2>2. suspended \in BOOLEAN /\ disturbed \in BOOLEAN
    BY DEF TextInv, TypeOK
  <2>. QED  BY <2>1, <2>2 DEF HostReads, Suspend, Resume
<1>3. TypeOK'
  BY <1>1, <1>2 DEF TextInv, TypeOK
<1>4. TextInv'
  BY <1>1, <1>3, TextAlone DEF Outputs, Writes
<1>5. Followed' /\ GivenTheLog'
  <2>1. \A k \in DOMAIN stack : k \in DOMAIN stack' /\ stack'[k] = stack[k]
    BY <1>1
  <2>2. full => full'
    BY <1>1
  <2>. QED  BY <1>1, <2>1, <2>2, CallbacksAlone
<1>. QED  BY <1>4, <1>5

(* The bus is reset: the port is closed, and last_dtr does not follow. *)
LEMMA BusResetKeeps ==
  ASSUME TextInv, TerminalInv, BusReset
  PROVE  TextInv' /\ Followed' /\ GivenTheLog'
<1>1. /\ UNCHANGED <<line_buff, stack, head, full, last_dtr, calls>>
      /\ opened' = FALSE /\ suspended' = FALSE /\ fifo' = 0 /\ replayed' = "no"
      /\ disturbed' = (disturbed \/ opened)
  BY DEF BusReset, log_buff
<1>2. opened \in BOOLEAN /\ disturbed \in BOOLEAN
  BY DEF TextInv, TypeOK
<1>3. TypeOK'
  <2>1. fifo' \in 0 .. FifoSize /\ replayed' \in {"no", "begun", "yes"}
    BY <1>1, Sizes
  <2>2. opened' \in BOOLEAN /\ suspended' \in BOOLEAN /\ disturbed' \in BOOLEAN
    BY <1>1, <1>2
  <2>. QED  BY <1>1, <2>1, <2>2 DEF TextInv, TypeOK
<1>4. TextInv'
  BY <1>1, <1>3, TextAlone DEF Outputs, Writes
<1>5. Followed'
  BY <1>1, <1>2 DEF TerminalInv, Followed, Telling
<1>. QED  BY <1>1, <1>4, <1>5 DEF GivenTheLog

(* A message of the program. *)
LEMMA DebugLogKeeps ==
  ASSUME TextInv, TerminalInv, NEW log \in BOOLEAN, NEW len \in Lengths, DebugLog(log, len)
  PROVE  TextInv' /\ Followed' /\ GivenTheLog'
<1>1. /\ Begin(log, len, stack) /\ UNCHANGED <<log_buff, port, replayed, disturbed>>
      /\ ~At("line_state", "start")
  BY NoCallbackOnTop DEF DebugLog, Calls
<1>2. stack \in Seq(Frame) /\ replayed \in {"no", "begun", "yes"}
  BY DEF TextInv, TypeOK
<1>3. TextInv'
  BY <1>1, <1>2, BeginKeeps
<1>4. \A k \in DOMAIN stack : k \in DOMAIN stack' /\ stack'[k] = stack[k]
  <2>1. PICK id \in Nat, l \in Nat : stack' = Append(stack, Output(id, l))
    <3>1. Len(calls) + 1 \in Nat /\ Formatted(len) \in Nat /\ Formatted(len) <= BuffSize
      BY FormattedFits, Sizes, LenProperties DEF TextInv, TypeOK
    <3>. QED  BY <1>1, <3>1 DEF Begin
  <2>2. Output(id, l) \in Frame
    BY OutputType DEF TextInv
  <2>. QED  BY <1>2, <2>1, <2>2, Pushed
<1>5. Followed' /\ GivenTheLog'
  BY <1>1, <1>4, CallbacksAlone DEF port, log_buff
<1>. QED  BY <1>3, <1>5

(* The callback is called: no text changes. *)
LEMMA SetLineStateText ==
  ASSUME TextInv, NEW dtr \in BOOLEAN, SetLineState(dtr)
  PROVE  TextInv'
<1>. DEFINE f == LineState(dtr)
<1>1. stack \in Seq(Frame)
  BY DEF TextInv, TypeOK
<1>2. f \in Frame /\ f.fn = "line_state"
  BY DEF LineState, Frame
<1>3. /\ stack' = Append(stack, f) /\ opened' = dtr /\ replayed' \in {"no", replayed}
      /\ UNCHANGED <<line_buff, head, full, fifo, suspended, last_dtr, calls, disturbed>>
  BY DEF SetLineState, log_buff
<1>. HIDE DEF f
<1>4. /\ stack' \in Seq(Frame) /\ Len(stack) \in Nat
      /\ DOMAIN stack = 1 .. Len(stack) /\ DOMAIN stack' = 1 .. Len(stack) + 1
      /\ \A k \in DOMAIN stack : k \in DOMAIN stack' /\ stack'[k] = stack[k]
      /\ stack'[Len(stack) + 1] = f
  BY <1>1, <1>2, <1>3, Pushed
<1>5. \A k \in DOMAIN stack' : stack'[k].fn = "usb_cdc_write" =>
        k \in DOMAIN stack /\ stack'[k] = stack[k]
  BY <1>2, <1>4
<1>6. TypeOK'
  BY <1>1, <1>3, <1>4, <1>5 DEF TextInv, TypeOK
<1>7. \A k \in Outputs : k \in DOMAIN stack
  BY DEF Outputs, Writes
<1>. QED  BY <1>3, <1>4, <1>5, <1>6, <1>7, TextAlone

(* The callback replays the log, or not: no text changes. *)
LEMMA ReplayText ==
  ASSUME TextInv, LogDumpToUsb \/ LogDumpPiece
  PROVE  TextInv'
<1>1. PICK n : n = Len(stack)
  OBVIOUS
<1>2. /\ UNCHANGED <<line_buff, head, full, fifo, opened, suspended, last_dtr, calls, disturbed>>
      /\ replayed' \in {"begun", replayed} /\ TypeOK
  BY DEF LogDumpToUsb, LogDumpPiece, log_buff, port, TextInv
<1>3. PICK at \in {"start", "log", "rest", "live"}, l \in Nat,
           next \in {"start", "log", "rest", "live", "message", "end"} :
        /\ At("line_state", at)
        /\ \/ stack' = SetTop(Further(Top, next))
           \/ stack' = Append(SetTop(Further(Top, next)), Output(0, l))
  <2>1. CASE LogDumpToUsb
    <3>1. TitleLen \in Nat /\ At("line_state", "start")
      BY <2>1, Sizes DEF LogDumpToUsb
    <3>2. CASE Opening /\ ~full /\ head > 0
      BY <2>1, <3>1, <3>2 DEF LogDumpToUsb, Further
    <3>3. CASE ~(Opening /\ ~full /\ head > 0) /\ (Opening \/ Closing)
      BY <2>1, <3>1, <3>3 DEF LogDumpToUsb, Further
    <3>4. CASE ~(Opening \/ Closing)
      BY <2>1, <3>1, <3>4 DEF LogDumpToUsb, Further
    <3>. QED  BY <3>2, <3>3, <3>4
  <2>2. CASE LogDumpPiece
    BY <1>2, <2>2, Pieces DEF LogDumpPiece, Further
  <2>. QED  BY <2>1, <2>2
<1>4. PICK o \in Frame : o = Output(0, l) /\ o.id = 0 /\ o.l = l /\ o.sent = 0
  BY <1>2, OutputType
<1>5. /\ n \in DOMAIN stack /\ stack[n].fn = "line_state"
      /\ n \in DOMAIN stack' /\ stack'[n].fn = "line_state"
      /\ \A k \in DOMAIN stack : k # n => k \in DOMAIN stack' /\ stack'[k] = stack[k]
      /\ stack' \in Seq(Frame)
      /\ \A k \in DOMAIN stack' : k \in DOMAIN stack \/ stack'[k] = o
  BY <1>1, <1>2, <1>3, <1>4, CallbackMoves
<1>6. \A k \in DOMAIN stack' : stack'[k].fn = "usb_cdc_write" =>
        \/ k \in DOMAIN stack /\ stack'[k] = stack[k]
        \/ stack'[k].id = 0 /\ stack'[k].sent \in 0 .. stack'[k].l
  <2>1. 0 \in 0 .. l
    OBVIOUS
  <2>. QED  BY <1>4, <1>5, <2>1
<1>7. \A k \in DOMAIN stack' : stack'[k].fn = "usb_cdc_write" =>
        stack'[k].id \in 0 .. Len(calls) /\ stack'[k].sent \in 0 .. stack'[k].l
  <2>1. 0 \in 0 .. Len(calls)
    BY <1>2, LenProperties DEF TypeOK
  <2>. QED  BY <1>2, <1>6, <2>1 DEF TypeOK
<1>8. TypeOK'
  BY <1>2, <1>5, <1>7 DEF TypeOK
<1>9. \A k \in Outputs : k \in DOMAIN stack' /\ stack'[k] = stack[k]
  BY <1>5 DEF Outputs, Writes
<1>10. \A k \in DOMAIN stack' : stack'[k].fn = "usb_cdc_write" /\ stack'[k].id # 0 =>
         k \in DOMAIN stack /\ stack'[k] = stack[k]
  BY <1>6
<1>. QED  BY <1>2, <1>8, <1>9, <1>10, TextAlone

(* The callback prints its message, behind the replay when it opens. *)
LEMMA LineStateMessageKeeps ==
  ASSUME TextInv, TerminalInv, LineStateMessage
  PROVE  TextInv' /\ Followed' /\ GivenTheLog'
<1>1. PICK n : n = Len(stack)
  OBVIOUS
<1>2. PICK s : s = SetTop(Further(Top, "end"))
  OBVIOUS
<1>3. /\ At("line_state", "message") /\ UNCHANGED <<log_buff, port, disturbed>> /\ TypeOK
      /\ replayed' = IF replayed = "begun" THEN "yes" ELSE replayed
  BY DEF LineStateMessage, TextInv
<1>4. /\ n \in DOMAIN stack /\ stack[n].fn = "line_state"
      /\ s \in Seq(Frame) /\ DOMAIN s = DOMAIN stack
      /\ \A k \in DOMAIN stack : k # n => s[k] = stack[k]
      /\ s[n].fn = "line_state"
  BY <1>1, <1>2, <1>3, CallbackGoesOn
<1>5. PICK len \in Lengths : Begin(TRUE, len, s)
  BY <1>2 DEF LineStateMessage, Further
<1>6. \A k \in DOMAIN stack :
        stack[k].fn = "usb_cdc_write" \/ s[k].fn = "usb_cdc_write" => s[k] = stack[k]
  BY <1>4
<1>7. replayed' \in {"no", "begun", "yes"}
  BY <1>3 DEF TypeOK
<1>8. TextInv'
  BY <1>3, <1>4, <1>5, <1>6, <1>7, BeginKeeps
<1>9. PICK o \in Frame : stack' = Append(SetTop(Further(Top, "end")), o)
  <2>1. PICK id \in Nat, l \in Nat : stack' = Append(s, Output(id, l))
    <3>1. Len(calls) + 1 \in Nat /\ Formatted(len) \in Nat /\ Formatted(len) <= BuffSize
      BY FormattedFits, Sizes, LenProperties DEF TextInv, TypeOK
    <3>. QED  BY <1>5, <3>1 DEF Begin
  <2>. QED  BY <1>2, <1>3, <2>1, OutputType
<1>10. /\ n \in DOMAIN stack /\ stack[n].at = "message" /\ stack[n].dtr = Top.dtr
       /\ n \in DOMAIN stack' /\ stack'[n].fn = "line_state" /\ stack'[n].dtr = Top.dtr
       /\ \A k \in DOMAIN stack : k # n => k \in DOMAIN stack' /\ stack'[k] = stack[k]
  <2>1. stack' = SetTop(Further(Top, "end")) \/ stack' = Append(SetTop(Further(Top, "end")), o)
    BY <1>9
  <2>. QED  BY <1>1, <1>3, <2>1, CallbackMoves
<1>11. UNCHANGED <<opened, last_dtr, disturbed, full>> /\ ~At("line_state", "start")
  BY <1>3 DEF port, log_buff, At
<1>12. ((\E k \in DOMAIN stack : Telling(k, FALSE)) => ClosingNext) /\ Followed'
  BY <1>10, <1>11, WaysLast
<1>13. opened' /\ ~disturbed' /\ ~full' => replayed' = "yes" \/ ClosingNext
  <2>. SUFFICES ASSUME opened', ~disturbed', ~full', ~ClosingNext
                PROVE  replayed' = "yes"
    OBVIOUS
  <2>1. opened /\ ~disturbed /\ ~full
    BY <1>11
  <2>2. replayed = "yes" \/ replayed = "begun"
    BY <1>11, <1>12, <2>1 DEF TerminalInv, GivenTheLog
  <2>. QED  BY <1>3, <2>2
<1>. QED  BY <1>8, <1>12, <1>13 DEF GivenTheLog, ClosingNext

(* The callback returns: only now has last_dtr followed. *)
LEMMA LineStateEndsKeeps ==
  ASSUME TextInv, TerminalInv, LineStateEnds
  PROVE  TextInv' /\ Followed' /\ GivenTheLog'
<1>1. PICK n : n = Len(stack)
  OBVIOUS
<1>2. PICK dtr : dtr = Top.dtr
  OBVIOUS
<1>3. /\ At("line_state", "end")
      /\ last_dtr' = dtr /\ disturbed' = (dtr # opened \/ (disturbed /\ dtr))
      /\ stack' = Front(stack)
      /\ UNCHANGED <<line_buff, head, full, fifo, opened, suspended, calls, replayed>>
  BY <1>2 DEF LineStateEnds, LastDtr, log_buff
<1>4. /\ stack \in Seq(Frame) /\ stack # <<>> /\ n \in DOMAIN stack
      /\ Top = stack[n] /\ Top \in Frame /\ Top.fn = "line_state" /\ Top.at = "end"
  BY <1>1, <1>3, TopFrame DEF TextInv
<1>5. dtr \in BOOLEAN /\ opened \in BOOLEAN /\ disturbed \in BOOLEAN
  <2>1. Top \in [fn : {"line_state"}, dtr : BOOLEAN, at : {"start", "log", "rest", "live", "message", "end"}]
    BY <1>4, FrameKinds
  <2>. QED  BY <1>2, <2>1 DEF TextInv, TypeOK
<1>6. /\ stack' \in Seq(Frame) /\ n \in Nat \ {0} /\ DOMAIN stack = 1 .. n /\ DOMAIN stack' = 1 .. n - 1
      /\ \A k \in DOMAIN stack' : k \in DOMAIN stack /\ stack'[k] = stack[k]
  BY <1>1, <1>3, <1>4, Popped
<1>7. \A k \in DOMAIN stack : k # n => k \in DOMAIN stack' /\ stack'[k] = stack[k]
  BY <1>6
<1>8. TypeOK'
  <2>1. last_dtr' \in BOOLEAN /\ disturbed' \in BOOLEAN
    BY <1>3, <1>5
  <2>. QED  BY <1>3, <1>6, <2>1 DEF TextInv, TypeOK
<1>9. \A k \in Outputs : k \in DOMAIN stack' /\ stack'[k] = stack[k]
  BY <1>4, <1>7 DEF Outputs, Writes
<1>10. TextInv'
  BY <1>3, <1>6, <1>8, <1>9, TextAlone
<1>11. Followed'
  BY <1>3, <1>5 DEF Followed
<1>12. ASSUME opened', ~disturbed', ~full'
       PROVE  \/ replayed' = "yes"
              \/ replayed' = "begun" /\ \E k \in DOMAIN stack' :
                                         Telling(k, TRUE)' /\ stack'[k].at \in Showing
              \/ \E k \in DOMAIN stack' : Telling(k, FALSE)'
  <2>1. opened /\ ~disturbed /\ ~full /\ dtr = TRUE
    BY <1>3, <1>5, <1>12
  <2>2. ~At("line_state", "start") /\ stack[n].at = "end" /\ stack[n].dtr = dtr
    BY <1>2, <1>3, <1>4 DEF At
  <2>3. ASSUME NEW k \in DOMAIN stack, Telling(k, TRUE), stack[k].at \in Showing
        PROVE  \E j \in DOMAIN stack' : Telling(j, TRUE)' /\ stack'[j].at \in Showing
    <3>1. k # n
      BY <2>2, <2>3 DEF Showing
    <3>. QED  BY <1>7, <2>3, <3>1, Zenon DEF Telling
  <2>4. ASSUME NEW k \in DOMAIN stack, Telling(k, FALSE)
        PROVE  \E j \in DOMAIN stack' : Telling(j, FALSE)'
    <3>1. k # n
      BY <2>1, <2>2, <2>4 DEF Telling
    <3>. QED  BY <1>7, <2>4, <3>1, Zenon DEF Telling
  <2>. QED  BY <1>3, <2>1, <2>2, <2>3, <2>4, Zenon DEF TerminalInv, GivenTheLog
<1>13. GivenTheLog'
  BY <1>12, Zenon DEF GivenTheLog, Showing
<1>. QED  BY <1>10, <1>11, <1>13
-----------------------------------------------------------------------------
\* What is inductive: the texts and the terminal.
DebugLogInv == TextInv /\ Followed /\ GivenTheLog

(* When the program has booted, nothing is under way. *)
LEMMA Booted == Init => DebugLogInv
<1>. SUFFICES ASSUME Init
              PROVE  DebugLogInv
  OBVIOUS
<1>1. /\ line_buff = [k \in 1 .. BuffSize |-> NUL] /\ stack = <<>> /\ calls = <<>>
      /\ head = 0 /\ full = FALSE /\ fifo = 0 /\ opened = FALSE /\ suspended = FALSE
      /\ last_dtr = FALSE /\ replayed = "no" /\ disturbed = FALSE
  BY DEF Init
<1>2. stack \in Seq(Frame) /\ calls \in Seq(Call) /\ DOMAIN stack = {} /\ DOMAIN calls = {}
  BY <1>1, EmptySeq
<1>3. TypeOK
  <2>1. line_buff \in [1 .. BuffSize -> Character]
    BY <1>1 DEF NUL, Character
  <2>2. fifo \in 0 .. FifoSize /\ head \in 0 .. LogSize - 1
    BY <1>1, Sizes
  <2>. QED  BY <1>1, <1>2, <2>1, <2>2 DEF TypeOK
<1>4. Outputs = {}
  BY <1>2 DEF Outputs, Writes
<1>5. TextInv
  BY <1>2, <1>3, <1>4 DEF TextInv, OneOutput, Nesting, Ended
<1>. QED  BY <1>1, <1>5 DEF DebugLogInv, Followed, GivenTheLog

(* And when it has been reset. *)
LEMMA BootedAgain == Reset => DebugLogInv'
<1>1. Reset => Init'
  BY DEF Reset, Init
<1>. QED  BY <1>1, Booted, PTL

(* Every step keeps it. *)
LEMMA NextKeeps ==
  ASSUME DebugLogInv, [Next]_vars
  PROVE  DebugLogInv'
<1>1. TextInv /\ TerminalInv
  BY DEF DebugLogInv, TerminalInv, TextInv
<1>2. CASE WriteChunk
  BY <1>1, <1>2, WriteChunkKeeps, OutputKeepsCallbacks DEF DebugLogInv
<1>3. CASE TaskDone
  BY <1>1, <1>3, TaskDoneKeeps, OutputKeepsCallbacks DEF DebugLogInv
<1>4. CASE WriteEnds
  BY <1>1, <1>4, WriteEndsKeeps, OutputKeepsCallbacks DEF DebugLogInv
<1>5. CASE LogDumpToUsb
  BY <1>1, <1>5, ReplayText, LogDumpKeeps DEF DebugLogInv
<1>a. CASE LogDumpPiece
  BY <1>1, <1>a, ReplayText, LogDumpPieceKeeps DEF DebugLogInv
<1>6. CASE LineStateMessage
  BY <1>1, <1>6, LineStateMessageKeeps DEF DebugLogInv
<1>7. CASE LineStateEnds
  BY <1>1, <1>7, LineStateEndsKeeps DEF DebugLogInv
<1>8. ASSUME NEW dtr \in BOOLEAN, SetLineState(dtr)
      PROVE  DebugLogInv'
  BY <1>1, <1>8, SetLineStateText, SetLineStateKeeps DEF DebugLogInv
<1>9. CASE HostReads \/ Suspend \/ Resume
  BY <1>1, <1>9, PortKeeps DEF DebugLogInv
<1>b. CASE BusReset
  BY <1>1, <1>b, BusResetKeeps DEF DebugLogInv
<1>10. CASE Reset
  BY <1>10, BootedAgain
<1>11. ASSUME NEW log \in BOOLEAN, NEW len \in Lengths, DebugLog(log, len)
       PROVE  DebugLogInv'
  BY <1>1, <1>11, DebugLogKeeps DEF DebugLogInv
<1>12. CASE UNCHANGED vars
  <2>1. UNCHANGED <<line_buff, stack, head, full, fifo, opened, suspended, last_dtr, calls,
                    replayed, disturbed>>
    BY <1>12 DEF vars, log_buff, port
  <2>2. TypeOK'
    BY <1>1, <2>1 DEF TextInv, TypeOK
  <2>3. TextInv'
    BY <1>1, <2>1, <2>2, TextAlone DEF Outputs, Writes
  <2>4. Followed' /\ GivenTheLog'
    BY <1>1, <2>1 DEF TerminalInv, Followed, GivenTheLog, Telling, At, Idle, Top, Showing
  <2>. QED  BY <2>3, <2>4 DEF DebugLogInv
<1>. QED
  BY <1>2, <1>3, <1>4, <1>5, <1>6, <1>7, <1>8, <1>9, <1>10, <1>11, <1>12, <1>a, <1>b
  DEF Next, Execute

(* It holds whenever the program runs, whatever calls back in between. *)
THEOREM Invariance == Spec => []DebugLogInv
<1>1. Init => DebugLogInv
  BY Booted
<1>2. DebugLogInv /\ [Next]_vars => DebugLogInv'
  BY NextKeeps
<1>. QED  BY <1>1, <1>2, PTL DEF Spec

(* The outputs under way belong to calls that are known, and none has sent  *)
(* more than its message has (log.c:123-137, usb_cdc.c:44-62).              *)
THEOREM TypeCorrect == Spec => []TypeOK
<1>1. DebugLogInv => TypeOK
  BY DEF DebugLogInv, TextInv
<1>. QED  BY <1>1, Invariance, PTL

(* Every message is shown and stored in full length, with the text that was *)
(* formatted last at every place: its own wherever no message in its output *)
(* reached, and never one that is older (log.c:123-137).                    *)
THEOREM LastTextStays == Spec => []LastTextIsKept
<1>1. DebugLogInv => LastTextIsKept
  BY DEF DebugLogInv, TextInv, LastTextIsKept, Left, Newest, Sent
<1>. QED  BY <1>1, Invariance, PTL

(* When nothing is under way, a terminal that is open has been given the    *)
(* log in full, unless the ring has become full, or its opening was         *)
(* disturbed by a reset of the bus, by a closing that last_dtr did not      *)
(* follow or by a suspended bus (usb_cdc.c:92-111, log.c:52-74).            *)
THEOREM OpenTerminalHasTheLog == Spec => []OpenIsReplayed
<1>1. ASSUME DebugLogInv, Idle, opened, ~disturbed, ~full
      PROVE  replayed = "yes"
  <2>1. DOMAIN stack = {} /\ ~At("line_state", "start")
    BY <1>1 DEF Idle, At
  <2>. QED  BY <1>1, <2>1 DEF DebugLogInv, GivenTheLog
<1>2. DebugLogInv => OpenIsReplayed
  BY <1>1 DEF OpenIsReplayed
<1>. QED  BY <1>2, Invariance, PTL
=============================================================================
