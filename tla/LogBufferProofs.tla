--------------------------- MODULE LogBufferProofs ---------------------------
(* Proofs about LogBuffer for every size of the ring and every set of      *)
(* characters and messages.                                                *)
EXTENDS LogBuffer, TLAPS, SequenceTheorems

USE LogAssumption

-----------------------------------------------------------------------------
(* usb_cdc_write is only ever handed parts of log_buff that lie inside it. *)
ReplayInBounds == replay.at + replay.left <= LogSize

IInv == TypeOK /\ TwoShapes /\ ReplayInBounds

(* Stepping an index keeps it inside the buffer. *)
LEMMA AfterInSlots == ASSUME NEW i \in Slots PROVE After(i) \in Slots
BY DEF After, Slots

(* The number of characters retained never exceeds the size of the ring.   *)
LEMMA CountBound ==
  ASSUME TypeOK PROVE Count \in 0 .. LogSize
BY DEF TypeOK, Count, Slots

(* Every slot a reader computes lies in the ring. *)
LEMMA SlotInSlots ==
  ASSUME TypeOK, NEW i \in 1 .. Count PROVE Slot(tail + i - 1) \in Slots
BY CountBound DEF TypeOK, Slot, Slots

(* The retained characters are a sequence of Count characters. *)
LEMMA RetainedType ==
  ASSUME TypeOK
  PROVE  /\ Retained \in Seq(Char \cup {Nul})
         /\ Len(Retained) = Count
         /\ \A i \in 1 .. Count : Retained[i] = log_buff[Slot(tail + i - 1)]
<1>1. Count \in Nat
  BY CountBound
<1>2. \A i \in 1 .. Count : log_buff[Slot(tail + i - 1)] \in Char \cup {Nul}
  BY SlotInSlots DEF TypeOK
<1>. QED  BY <1>1, <1>2 DEF Retained

(* As many as are counted, after a step too. *)
LEMMA RetainedCount == TypeOK' => (Len(Retained) = Count)'
<1>1. TypeOK => Len(Retained) = Count
  BY RetainedType
<1>. QED  BY <1>1, PTL

(* A part of the buffer is a sequence of log characters. *)
LEMMA PieceType ==
  ASSUME TypeOK, NEW from \in Nat, NEW to \in Nat, from <= to, to <= LogSize
  PROVE  Piece(from, to) \in Seq(Char \cup {Nul})
<1>1. to - from \in Nat
  OBVIOUS
<1>2. \A i \in 1 .. to - from : log_buff[from + i - 1] \in Char \cup {Nul}
  BY DEF TypeOK, Slots
<1>. QED  BY <1>1, <1>2 DEF Piece

(* What is given to f_write is a sequence of log characters. *)
LEMMA LinearType == ASSUME TypeOK PROVE Linear \in Seq(Char \cup {Nul})
<1>1. /\ head \in Nat /\ tail \in Nat /\ LogSize \in Nat /\ 0 \in Nat
      /\ head <= LogSize /\ tail <= LogSize /\ 0 <= head /\ LogSize <= LogSize
  BY DEF TypeOK, Slots
<1>2. CASE head > tail
  <2>1. tail <= head
    BY <1>1, <1>2
  <2>2. Piece(tail, head) \in Seq(Char \cup {Nul})
    BY <1>1, <2>1, PieceType, Zenon
  <2>. QED  BY <2>2, <1>2, Zenon DEF Linear
<1>3. CASE head < tail
  <2>1. ~(head > tail)
    BY <1>1, <1>3
  <2>2. Piece(tail, LogSize) \in Seq(Char \cup {Nul})
    BY <1>1, PieceType, Zenon
  <2>3. Piece(0, head) \in Seq(Char \cup {Nul})
    BY <1>1, PieceType, Zenon
  <2>4. Linear = Piece(tail, LogSize) \o Piece(0, head)
    BY <1>3, <2>1, Zenon DEF Linear
  <2>. QED  BY <2>2, <2>3, <2>4, ConcatProperties, Zenon
<1>4. CASE head = tail
  <2>1. Linear = <<>>
    BY <1>1, <1>4 DEF Linear
  <2>. QED  BY <2>1
<1>. QED  BY <1>1, <1>2, <1>3, <1>4
-----------------------------------------------------------------------------
(* The statics start in an empty, consistent ring (log.c:31-33). *)
LEMMA InitIInv == Init => IInv
BY DEF Init, IInv, TypeOK, TwoShapes, ReplayInBounds, Slots, Idle, Stages

(* Storing a character keeps the ring in one of its two shapes. *)
LEMMA AddCharIInv == IInv /\ AddChar => IInv'
<1>. SUFFICES ASSUME IInv, AddChar PROVE IInv'
  OBVIOUS
<1>. USE DEF IInv, AddChar
<1>1. TypeOK'
  <2>1. head' \in Slots /\ tail' \in Slots /\ full' \in BOOLEAN
    BY AfterInSlots DEF TypeOK, TailAfter, FullAfter
  <2>2. log_buff' \in [Slots -> Char \cup {Nul}] /\ todo' \in Seq(Char)
    BY HeadTailProperties DEF TypeOK
  <2>3. added' \in 0 .. LogSize + 1
    BY DEF TypeOK
  <2>. QED  BY <2>1, <2>2, <2>3 DEF TypeOK
<1>2. TwoShapes'
  BY DEF TypeOK, TwoShapes, TailAfter, FullAfter, After, Slots
<1>3. ReplayInBounds'
  BY DEF ReplayInBounds
<1>. QED  BY <1>1, <1>2, <1>3

(* A replay leaves the ring alone and stays inside the buffer. *)
LEMMA ReplayIInv ==
  IInv /\ (LogDumpToUsb \/ ReplayStart \/ ReplayChar) => IInv'
<1>1. ASSUME IInv, LogDumpToUsb PROVE IInv'
  BY <1>1 DEF IInv, LogDumpToUsb, ring, TypeOK, TwoShapes, ReplayInBounds,
              Idle, Stages, Slots
<1>2. ASSUME IInv, ReplayStart PROVE IInv'
  <2>1. snap' \in Seq(Char \cup {Nul})
    BY <1>2, RetainedType DEF IInv, ReplayStart
  <2>2. /\ replay' \in [stage : Stages, at : Slots, left : 0 .. LogSize]
        /\ replay'.at + replay'.left <= LogSize
    BY <1>2 DEF IInv, ReplayStart, TypeOK, FirstLen, Stages, Slots
  <2>. QED  BY <1>2, <2>1, <2>2
            DEF IInv, ReplayStart, ring, TypeOK, TwoShapes, ReplayInBounds
<1>3. ASSUME IInv, ReplayChar PROVE IInv'
  <2>1. log_buff[replay.at] \in Char \cup {Nul}
    BY <1>3 DEF IInv, TypeOK
  <2>2. shown' \in Seq(Char \cup {Nul})
    BY <1>3, <2>1, AppendProperties DEF IInv, TypeOK, ReplayChar
  <2>3. /\ replay' \in [stage : Stages, at : Slots, left : 0 .. LogSize]
        /\ replay'.at + replay'.left <= LogSize
    <3>1. CASE replay.left > 1
      <4>1. replay' = [stage |-> replay.stage, at |-> replay.at + 1,
                       left |-> replay.left - 1]
        BY <1>3, <3>1 DEF IInv, TypeOK, ReplayChar
      <4>. QED  BY <1>3, <3>1, <4>1 DEF IInv, TypeOK, ReplayInBounds, Slots
    <3>2. CASE ~(replay.left > 1)
      BY <1>3, <3>2
         DEF IInv, ReplayChar, TypeOK, Idle, Stages, Slots
    <3>. QED  BY <3>1, <3>2
  <2>. QED  BY <1>3, <2>2, <2>3
            DEF IInv, ReplayChar, ring, TypeOK, TwoShapes, ReplayInBounds
<1>. QED  BY <1>1, <1>2, <1>3

(* Saving the log to disk leaves the ring alone. *)
LEMMA SaveIInv ==
  ASSUME NEW opened \in BOOLEAN, NEW written \in BOOLEAN, NEW closed \in BOOLEAN
  PROVE  IInv /\ LogDumpToDisk(opened, written, closed) => IInv'
<1>. SUFFICES ASSUME IInv, LogDumpToDisk(opened, written, closed) PROVE IInv'
  OBVIOUS
<1>1. todo' \in Seq(Char)
  <2>1. <<>> \in Seq(Char)
    OBVIOUS
  <2>. QED  BY <2>1, ConcatProperties DEF LogDumpToDisk
<1>2. file' \in Seq(Char \cup {Nul})
  <2>1. CASE opened
    <3>1. PICK n \in 0 .. Len(Linear) : file' = SubSeq(Linear, 1, n)
      BY <2>1 DEF LogDumpToDisk
    <3>2. Linear \in Seq(Char \cup {Nul})
      BY LinearType DEF IInv
    <3>. QED  BY <3>1, <3>2, SubSeqProperties, LenProperties
  <2>2. CASE ~opened
    BY <2>2 DEF LogDumpToDisk, IInv, TypeOK
  <2>. QED  BY <2>1, <2>2
<1>. QED  BY <1>1, <1>2
          DEF IInv, LogDumpToDisk, ring, TypeOK, TwoShapes, ReplayInBounds

(* Every step of the log keeps the invariant. *)
LEMMA NextIInv == IInv /\ [Next]_vars => IInv'
<1>1. ASSUME IInv, AddToLog PROVE IInv'
  BY <1>1 DEF IInv, AddToLog, ring, TypeOK, TwoShapes, ReplayInBounds
<1>2. ASSUME IInv, UNCHANGED vars PROVE IInv'
  BY <1>2 DEF IInv, vars, ring, TypeOK, TwoShapes, ReplayInBounds
<1>. QED  BY <1>1, <1>2, AddCharIInv, ReplayIInv, SaveIInv DEF Next

(* The inductive invariant holds in every state of the log. *)
THEOREM Invariance == Spec => []IInv
<1>. QED  BY InitIInv, NextIInv, PTL DEF Spec

(* Every variable of log.c keeps its type; so no index leaves the buffer.  *)
THEOREM TypeCorrect == Spec => []TypeOK
<1>1. IInv => TypeOK
  BY DEF IInv
<1>. QED  BY <1>1, Invariance, PTL

(* The ring is never split: the two-piece branch of log_dump_to_disk is    *)
(* dead, whatever the size of the buffer (log.c:91-100).                   *)
THEOREM TwoShapesHold == Spec => []TwoShapes
<1>1. IInv => TwoShapes
  BY DEF IInv
<1>. QED  BY <1>1, Invariance, PTL
-----------------------------------------------------------------------------
(* An empty ring maps to an empty log. *)
LEMMA RefinesInit == Init => History!Init
<1>. SUFFICES ASSUME Init PROVE History!Init
  OBVIOUS
<1>1. Count = 0
  BY DEF Init, Count
<1>2. Retained = <<>>
  BY <1>1 DEF Retained
<1>. QED  BY <1>2 DEF Init, History!Init

(* A character stored in a ring that is not full is appended to the log. *)
LEMMA FillingAppends ==
  ASSUME IInv, AddChar, ~full
  PROVE  /\ Retained' = Append(Retained, Head(todo))
         /\ Len(Append(Retained, Head(todo))) <= LogSize
<1>. DEFINE c == Head(todo)
<1>1. /\ tail = 0 /\ tail' = 0 /\ head \in Slots /\ LogSize \in Nat \ {0}
      /\ log_buff' = [log_buff EXCEPT ![head] = c]
      /\ c \in Char /\ log_buff \in [Slots -> Char \cup {Nul}]
  BY HeadTailProperties DEF IInv, TypeOK, TwoShapes, AddChar, TailAfter
<1>2. Count = head /\ Count' = head + 1
  <2>1. Count = head
    BY <1>1 DEF Count, Slots
  <2>2. head' = After(head) /\ full' = (head' = tail')
    BY DEF AddChar, FullAfter
  <2>3. CASE head + 1 = LogSize
    <3>1. head' = 0 /\ full' = TRUE
      BY <1>1, <2>2, <2>3 DEF After
    <3>. QED  BY <2>1, <2>3, <3>1 DEF Count
  <2>4. CASE head + 1 # LogSize
    <3>1. head' = head + 1 /\ head' # tail'
      BY <1>1, <2>2, <2>4 DEF After, Slots
    <3>2. ~full'
      BY <2>2, <3>1
    <3>. QED  BY <1>1, <2>1, <3>1, <3>2 DEF Count, Slots
  <2>. QED  BY <2>3, <2>4
<1>3. Retained' = [i \in 1 .. head + 1 |-> log_buff'[Slot(i - 1)]]
  BY <1>1, <1>2 DEF Retained
<1>4. /\ Retained \in Seq(Char \cup {Nul}) /\ Len(Retained) = head
      /\ \A i \in 1 .. head : Retained[i] = log_buff[Slot(i - 1)]
  BY <1>1, <1>2, RetainedType DEF IInv
<1>5. /\ Append(Retained, c) \in Seq(Char \cup {Nul})
      /\ Len(Append(Retained, c)) = head + 1
      /\ \A i \in 1 .. head : Append(Retained, c)[i] = Retained[i]
      /\ Append(Retained, c)[head + 1] = c
  BY <1>1, <1>4, AppendProperties
<1>6. /\ Retained' \in Seq(Char \cup {Nul})
      /\ Len(Retained') = head + 1
      /\ \A i \in 1 .. head + 1 : Retained'[i] = log_buff'[Slot(i - 1)]
  <2>1. \A i \in 1 .. head + 1 : Slot(i - 1) = i - 1 /\ i - 1 \in Slots
    BY <1>1 DEF Slot, Slots
  <2>2. \A j \in Slots : log_buff'[j] \in Char \cup {Nul}
    BY <1>1
  <2>3. head + 1 \in Nat
    BY <1>1 DEF Slots
  <2>. QED  BY <1>3, <2>1, <2>2, <2>3
<1>7. \A i \in 1 .. head + 1 : Retained'[i] = Append(Retained, c)[i]
  <2>. SUFFICES ASSUME NEW i \in 1 .. head + 1
                PROVE  Retained'[i] = Append(Retained, c)[i]
    OBVIOUS
  <2>1. CASE i = head + 1
    BY <1>1, <1>5, <1>6, <2>1 DEF Slot, Slots
  <2>2. CASE i # head + 1
    BY <1>1, <1>4, <1>5, <1>6, <2>2 DEF Slot, Slots
  <2>. QED  BY <2>1, <2>2
<1>8. Retained' = Append(Retained, c)
  BY <1>5, <1>6, <1>7, SeqEqual
<1>. QED  BY <1>1, <1>5, <1>8 DEF Slots

(* In a full ring the new character replaces the oldest one. *)
LEMMA FullShifts ==
  ASSUME IInv, AddChar, full
  PROVE  /\ Retained' = Tail(Append(Retained, Head(todo)))
         /\ Len(Append(Retained, Head(todo))) = LogSize + 1
<1>. DEFINE c == Head(todo)
            s == Append(Retained, c)
<1>1. /\ tail = head /\ tail' = After(head) /\ full' = TRUE
      /\ head \in Slots /\ LogSize \in Nat \ {0}
      /\ log_buff' = [log_buff EXCEPT ![head] = c]
      /\ c \in Char /\ log_buff \in [Slots -> Char \cup {Nul}]
  BY HeadTailProperties
     DEF IInv, TypeOK, TwoShapes, AddChar, TailAfter, FullAfter
<1>2. Count = LogSize /\ Count' = LogSize
  BY <1>1 DEF Count
<1>3. /\ Retained \in Seq(Char \cup {Nul}) /\ Len(Retained) = LogSize
      /\ \A i \in 1 .. LogSize : Retained[i] = log_buff[Slot(head + i - 1)]
  BY <1>1, <1>2, RetainedType DEF IInv
<1>4. /\ s \in Seq(Char \cup {Nul}) /\ Len(s) = LogSize + 1
      /\ \A i \in 1 .. LogSize : s[i] = Retained[i]
      /\ s[LogSize + 1] = c
  BY <1>1, <1>3, AppendProperties
<1>5. /\ Tail(s) \in Seq(Char \cup {Nul}) /\ Len(Tail(s)) = LogSize
      /\ \A i \in 1 .. LogSize : Tail(s)[i] = s[i + 1]
  <2>1. s # <<>>
    BY <1>1, <1>4
  <2>. QED  BY <1>1, <1>4, <2>1, HeadTailProperties
<1>6. /\ Retained' \in Seq(Char \cup {Nul}) /\ Len(Retained') = LogSize
      /\ \A i \in 1 .. LogSize :
            Retained'[i] = log_buff'[Slot(After(head) + i - 1)]
  <2>1. \A i \in 1 .. LogSize : Slot(After(head) + i - 1) \in Slots
    BY <1>1 DEF Slot, After, Slots
  <2>2. \A j \in Slots : log_buff'[j] \in Char \cup {Nul}
    BY <1>1
  <2>3. Retained' = [i \in 1 .. LogSize |-> log_buff'[Slot(After(head) + i - 1)]]
    BY <1>1, <1>2 DEF Retained
  <2>. QED  BY <1>1, <2>1, <2>2, <2>3
<1>7. \A i \in 1 .. LogSize : Retained'[i] = Tail(s)[i]
  <2>. SUFFICES ASSUME NEW i \in 1 .. LogSize PROVE Retained'[i] = Tail(s)[i]
    OBVIOUS
  <2>1. CASE i = LogSize
    <3>1. Slot(After(head) + i - 1) = head
      BY <1>1, <2>1 DEF Slot, After, Slots
    <3>. QED  BY <1>1, <1>4, <1>5, <1>6, <2>1, <3>1
  <2>2. CASE i < LogSize
    <3>1. /\ Slot(After(head) + i - 1) = Slot(head + (i + 1) - 1)
          /\ Slot(After(head) + i - 1) \in Slots
          /\ Slot(After(head) + i - 1) # head
      BY <1>1, <2>2 DEF Slot, After, Slots
    <3>2. log_buff'[Slot(After(head) + i - 1)] = Retained[i + 1]
      BY <1>1, <1>3, <2>2, <3>1
    <3>3. Tail(s)[i] = Retained[i + 1]
      BY <1>1, <1>4, <1>5, <2>2
    <3>. QED  BY <1>6, <3>2, <3>3
  <2>3. i = LogSize \/ i < LogSize
    BY <1>1
  <2>. QED  BY <2>1, <2>2, <2>3
<1>8. Retained' = Tail(s)
  BY <1>5, <1>6, <1>7, SeqEqual
<1>. QED  BY <1>4, <1>8

(* Every step of the ring is a step of the plain log or leaves it alone. *)
LEMMA RefinesNext == IInv /\ [Next]_vars => [History!Next]_<<Retained, todo>>
<1>1. ASSUME IInv, AddChar PROVE History!Record
  <2>1. CASE full
    BY <1>1, <2>1, FullShifts
       DEF History!Record, History!Newest, AddChar, IInv, TypeOK
  <2>2. CASE ~full
    BY <1>1, <2>2, FillingAppends
       DEF History!Record, History!Newest, AddChar, IInv, TypeOK
  <2>. QED  BY <2>1, <2>2
<1>2. UNCHANGED ring => UNCHANGED Retained
  BY DEF ring, Retained, Count
<1>3. ASSUME IInv, AddToLog PROVE History!Submit
  <2>1. todo' \in Seq(Char)
    BY <1>3 DEF AddToLog
  <2>. QED  BY <1>2, <1>3, <2>1 DEF AddToLog, History!Submit
<1>4. ASSUME IInv, LogDumpToUsb \/ ReplayStart \/ ReplayChar
      PROVE  UNCHANGED <<Retained, todo>>
  BY <1>2, <1>4 DEF LogDumpToUsb, ReplayStart, ReplayChar
<1>5. ASSUME IInv, NEW opened \in BOOLEAN, NEW written \in BOOLEAN,
             NEW closed \in BOOLEAN, LogDumpToDisk(opened, written, closed)
      PROVE  History!Submit
  <2>1. todo' \in Seq(Char)
    BY <1>5, SaveIInv DEF IInv, TypeOK
  <2>. QED  BY <1>2, <1>5, <2>1 DEF LogDumpToDisk, History!Submit
<1>6. UNCHANGED vars => UNCHANGED <<Retained, todo>>
  BY <1>2 DEF vars
<1>. QED  BY <1>1, <1>3, <1>4, <1>5, <1>6 DEF Next, History!Next

(* The ring implements the plain list of the newest LogSize characters:    *)
(* add_to_log loses, duplicates and reorders nothing, for every size.      *)
THEOREM Refinement == Spec => KeepsNewest
<1>. QED  BY RefinesInit, RefinesNext, Invariance, PTL
          DEF Spec, KeepsNewest, History!Spec
-----------------------------------------------------------------------------
\* A replay past its title writes characters of the ring.
Writing == replay.stage \in {"only", "first", "last"}

\* Where a replay is: before its first piece something is in the log, it writes
\* two pieces of a full ring only, and what it has to write it writes at once.
Placed ==
  /\ replay.stage = "title" => full \/ head > 0
  /\ replay.stage = "first" => full /\ replay.at + replay.left = LogSize
  /\ Writing <=> replay.left > 0

\* What it was to write is still in the ring, at the place it reads next, as
\* long as only free slots were filled since.
Kept ==
  added <= LogSize - Len(snap) =>
    /\ Len(shown) + Pending = Len(snap)
    /\ shown = SubSeq(snap, 1, Len(shown))
    /\ Writing => /\ Count = Len(snap) + added
                  /\ \A i \in 1 .. Len(snap) : snap[i] = log_buff[Slot(tail + i - 1)]
                  /\ replay.at = Slot(tail + Len(shown))

ReplayInv == IInv /\ Placed /\ Kept

(* A prefix with its next element is the next prefix. *)
LEMMA PrefixGrows ==
  ASSUME NEW S, NEW s \in Seq(S), NEW n \in 0 .. Len(s) - 1
  PROVE  SubSeq(s, 1, n + 1) = Append(SubSeq(s, 1, n), s[n + 1])
<1>1. n \in Nat /\ n + 1 \in 1 .. Len(s) /\ Len(s) \in Nat
  BY LenProperties
<1>2. /\ SubSeq(s, 1, n) \in Seq(S) /\ Len(SubSeq(s, 1, n)) = n
      /\ \A i \in 1 .. n : SubSeq(s, 1, n)[i] = s[i]
  BY <1>1, SubSeqProperties
<1>3. /\ SubSeq(s, 1, n + 1) \in Seq(S) /\ Len(SubSeq(s, 1, n + 1)) = n + 1
      /\ \A i \in 1 .. n + 1 : SubSeq(s, 1, n + 1)[i] = s[i]
  BY <1>1, SubSeqProperties
<1>4. s[n + 1] \in S
  BY <1>1, ElementOfSeq
<1>5. /\ Append(SubSeq(s, 1, n), s[n + 1]) \in Seq(S)
      /\ Len(Append(SubSeq(s, 1, n), s[n + 1])) = n + 1
      /\ \A i \in 1 .. n : Append(SubSeq(s, 1, n), s[n + 1])[i] = SubSeq(s, 1, n)[i]
      /\ Append(SubSeq(s, 1, n), s[n + 1])[n + 1] = s[n + 1]
  BY <1>2, <1>4, AppendProperties
<1>6. \A i \in 1 .. n + 1 : SubSeq(s, 1, n + 1)[i] = Append(SubSeq(s, 1, n), s[n + 1])[i]
  BY <1>1, <1>2, <1>3, <1>5
<1>. QED  BY <1>3, <1>5, <1>6, SeqEqual

(* A character logged in a replay goes into a free slot, or more were logged *)
(* than there were.                                                         *)
LEMMA AddCharReplay == ASSUME ReplayInv, AddChar PROVE Placed' /\ Kept'
<1>1. /\ head \in Slots /\ tail \in Slots /\ LogSize \in Nat \ {0} /\ added \in 0 .. LogSize + 1
      /\ UNCHANGED <<replay, shown, snap>> /\ snap \in Seq(Char \cup {Nul})
      /\ log_buff' = [log_buff EXCEPT ![head] = Head(todo)]
      /\ log_buff \in [Slots -> Char \cup {Nul}]
  BY DEF ReplayInv, IInv, TypeOK, AddChar
<1>2. full => full'
  BY DEF ReplayInv, IInv, TypeOK, TwoShapes, AddChar, TailAfter, FullAfter, Slots
<1>3. ~full /\ head > 0 => full' \/ head' > 0
  <2>1. ~full => tail' = 0
    BY DEF ReplayInv, IInv, TwoShapes, AddChar, TailAfter
  <2>2. full' = (head' = tail') /\ head' = IF head + 1 = LogSize THEN 0 ELSE head + 1
    BY DEF AddChar, FullAfter, After
  <2>3. ASSUME ~full, head > 0
        PROVE  head' = tail' \/ head' > 0
    BY <1>1, <2>1, <2>2, <2>3 DEF Slots
  <2>. QED  BY <2>2, <2>3, Zenon
<1>4. Placed'
  BY <1>1, <1>2, <1>3 DEF ReplayInv, Placed, Writing
<1>5. Kept'
  <2>. SUFFICES ASSUME added' <= LogSize - Len(snap)
                PROVE  /\ Len(shown) + Pending' = Len(snap)
                       /\ shown = SubSeq(snap, 1, Len(shown))
                       /\ Writing =>
                            /\ Count' = Len(snap) + added'
                            /\ \A i \in 1 .. Len(snap) : snap[i] = log_buff'[Slot(tail' + i - 1)]
                            /\ replay.at = Slot(tail' + Len(shown))
    BY <1>1 DEF Kept, Writing, Slot
  <2>1. Len(snap) \in Nat
    BY <1>1, LenProperties
  <2>2. added' = added + 1 /\ added < LogSize - Len(snap)
    BY <1>1, <2>1 DEF AddChar
  <2>3. Kept /\ added <= LogSize - Len(snap)
    BY <1>1, <2>1, <2>2 DEF ReplayInv
  <2>4. CASE ~Writing
    <3>1. replay.stage # "first"
      BY <2>4 DEF Writing
    <3>. QED  BY <1>1, <2>3, <2>4, <3>1 DEF Kept, Pending
  <2>5. CASE Writing
    <3>1. Count = Len(snap) + added /\ Count < LogSize
      BY <1>1, <2>1, <2>2, <2>3, <2>5 DEF Kept
    <3>2. ~full
      BY <1>1, <3>1 DEF Count
    <3>3. replay.stage # "first" /\ Pending' = Pending
      BY <1>1, <3>2 DEF ReplayInv, Placed, Pending
    <3>4. tail = 0 /\ tail' = 0 /\ head = Count
      BY <1>1, <3>2 DEF ReplayInv, IInv, TwoShapes, AddChar, TailAfter, Count, Slots
    <3>5. Count' = Count + 1
      <4>1. Retained' = Append(Retained, Head(todo))
        BY <3>2, FillingAppends DEF ReplayInv
      <4>2. Retained \in Seq(Char \cup {Nul}) /\ Len(Retained) = Count
        BY RetainedType DEF ReplayInv, IInv
      <4>3. Head(todo) \in Char
        BY HeadTailProperties DEF ReplayInv, IInv, TypeOK, AddChar
      <4>4. Len(Retained') = Count + 1
        BY <4>1, <4>2, <4>3, AppendProperties
      <4>5. TypeOK'
        BY AddCharIInv DEF ReplayInv, IInv
      <4>6. Len(Retained') = Count'
        BY <4>5, RetainedCount
      <4>. QED  BY <4>4, <4>6
    <3>6. ASSUME NEW i \in 1 .. Len(snap)
          PROVE  snap[i] = log_buff'[Slot(tail' + i - 1)]
      <4>1. Slot(tail + i - 1) = i - 1 /\ Slot(tail' + i - 1) = i - 1
            /\ i - 1 \in Slots /\ i - 1 # head
        BY <1>1, <2>1, <3>1, <3>4 DEF Slot, Slots
      <4>2. snap[i] = log_buff[i - 1]
        BY <2>3, <2>5, <4>1 DEF Kept
      <4>. QED  BY <1>1, <4>1, <4>2
    <3>7. replay.at = Slot(tail' + Len(shown))
      BY <2>3, <2>5, <3>4 DEF Kept
    <3>. QED  BY <1>1, <2>1, <2>2, <2>3, <3>1, <3>3, <3>5, <3>6, <3>7 DEF Kept
  <2>. QED  BY <2>4, <2>5
<1>. QED  BY <1>4, <1>5

(* A replay that begins takes what the ring holds, all of it. *)
LEMMA StartReplay == ASSUME ReplayInv, ReplayStart PROVE Placed' /\ Kept'
<1>1. /\ head \in Slots /\ tail \in Slots /\ LogSize \in Nat \ {0}
      /\ UNCHANGED <<head, tail, full, log_buff>> /\ shown' = <<>> /\ snap' = Retained /\ added' = 0
      /\ full \in BOOLEAN
  BY DEF ReplayInv, IInv, TypeOK, ReplayStart, ring
<1>2. full \/ head > 0
  BY DEF ReplayInv, Placed, ReplayStart
<1>3. IF full THEN head = tail ELSE tail = 0
  BY DEF ReplayInv, IInv, TwoShapes
<1>4. /\ Retained \in Seq(Char \cup {Nul}) /\ Len(Retained) = Count /\ Count \in 0 .. LogSize
      /\ \A i \in 1 .. Count : Retained[i] = log_buff[Slot(tail + i - 1)]
  BY RetainedType, CountBound DEF ReplayInv, IInv
<1>5. /\ replay'.stage = (IF head > tail THEN "only" ELSE "first")
      /\ replay'.at = tail /\ replay'.left = FirstLen
  BY DEF ReplayStart
<1>6. Pending' = Count /\ replay'.left > 0 /\ (replay'.stage = "first" => full)
      /\ replay'.stage \in {"only", "first"}
      /\ (replay'.stage = "first" => replay'.at + replay'.left = LogSize)
  <2>1. CASE full
    <3>1. FirstLen = LogSize - tail /\ Count = LogSize /\ replay'.stage = "first"
      BY <1>1, <1>3, <1>5, <2>1 DEF FirstLen, Count, Slots
    <3>. QED  BY <1>1, <1>3, <1>5, <2>1, <3>1 DEF Pending, Slots
  <2>2. CASE ~full
    <3>1. FirstLen = head /\ Count = head /\ replay'.stage = "only"
      BY <1>1, <1>2, <1>3, <1>5, <2>2 DEF FirstLen, Count, Slots
    <3>. QED  BY <1>1, <1>2, <1>5, <3>1 DEF Pending, Slots
  <2>. QED  BY <2>1, <2>2
<1>7. Placed'
  BY <1>1, <1>6 DEF Placed, Writing
<1>8. Len(shown') = 0 /\ SubSeq(snap', 1, 0) = <<>>
  BY <1>1, <1>4
<1>9. Slot(tail) = tail
  BY <1>1 DEF Slot, Slots
<1>10. Count' = Count
  BY <1>1 DEF Count
<1>11. Kept'
  <2>1. Len(shown') + Pending' = Len(snap')
    BY <1>1, <1>4, <1>6, <1>8
  <2>2. Count' = Len(snap') + added'
    BY <1>1, <1>4, <1>10
  <2>3. \A i \in 1 .. Len(snap') : snap'[i] = log_buff'[Slot(tail' + i - 1)]
    BY <1>1, <1>4
  <2>4. tail' + Len(shown') = tail
    BY <1>1, <1>8 DEF Slots
  <2>. QED  BY <1>1, <1>5, <1>8, <1>9, <2>1, <2>2, <2>3, <2>4 DEF Kept, Slot
<1>. QED  BY <1>7, <1>11

(* The next character of the replay is the next of what it was to write. *)
LEMMA ReplayNext == ASSUME ReplayInv, ReplayChar PROVE Placed' /\ Kept'
<1>. DEFINE n == Len(snap)  s == Len(shown)
<1>1. /\ head \in Slots /\ tail \in Slots /\ LogSize \in Nat \ {0} /\ added \in 0 .. LogSize + 1
      /\ UNCHANGED <<head, tail, full, log_buff, snap, added>>
      /\ snap \in Seq(Char \cup {Nul}) /\ shown \in Seq(Char \cup {Nul})
      /\ shown' = Append(shown, log_buff[replay.at])
      /\ log_buff \in [Slots -> Char \cup {Nul}]
      /\ replay \in [stage : Stages, at : Slots, left : 0 .. LogSize]
      /\ replay.left > 0
  BY DEF ReplayInv, IInv, TypeOK, ReplayChar, ring
<1>2. Writing /\ (replay.stage = "first" => full)
  BY <1>1 DEF ReplayInv, Placed
<1>3. n \in Nat /\ s \in Nat /\ Len(shown') = s + 1
  BY <1>1, LenProperties, AppendProperties
<1>4. replay.at \in Nat /\ replay.left \in Nat /\ head \in Nat
  BY <1>1 DEF Slots
<1>5. replay.stage = "first" => replay.at + replay.left = LogSize
  BY DEF ReplayInv, Placed
<1>6. /\ Pending' = Pending - 1 /\ (Writing' <=> replay'.left > 0)
      /\ replay'.stage \notin {"title"}
      /\ replay'.stage = "first" => full /\ replay'.at + replay'.left = LogSize
      /\ Writing' => replay'.at = After(replay.at)
  <2>1. CASE replay.left > 1
    <3>1. /\ replay'.stage = replay.stage /\ replay'.at = replay.at + 1
          /\ replay'.left = replay.left - 1
      BY <1>1, <2>1 DEF ReplayChar
    <3>2. Pending' = Pending - 1
      BY <1>1, <1>4, <3>1 DEF Pending
    <3>3. replay'.left > 0
      BY <1>4, <2>1, <3>1
    <3>4. replay.stage = "first" => replay'.at + replay'.left = LogSize
      BY <1>1, <1>4, <1>5, <3>1
    <3>5. After(replay.at) = replay.at + 1
      <4>1. replay.at + replay.left <= LogSize
        BY DEF ReplayInv, IInv, ReplayInBounds
      <4>. QED  BY <1>1, <1>4, <2>1, <4>1 DEF After
    <3>. QED  BY <1>2, <3>1, <3>2, <3>3, <3>4, <3>5 DEF Writing
  <2>2. CASE replay.left = 1 /\ replay.stage = "first" /\ head > 0
    <3>1. replay'.stage = "last" /\ replay'.at = 0 /\ replay'.left = head
      BY <2>2 DEF ReplayChar
    <3>2. Pending' = Pending - 1
      BY <1>1, <1>4, <2>2, <3>1 DEF Pending
    <3>3. After(replay.at) = 0
      BY <1>1, <1>4, <1>5, <2>2 DEF After
    <3>. QED  BY <2>2, <3>1, <3>2, <3>3 DEF Writing
  <2>3. CASE replay.left = 1 /\ ~(replay.stage = "first" /\ head > 0)
    <3>1. replay'.stage = "idle" /\ replay'.left = 0
      BY <2>3 DEF ReplayChar, Idle
    <3>2. Pending' = Pending - 1
      BY <1>1, <1>4, <2>3, <3>1 DEF Pending
    <3>. QED  BY <3>1, <3>2 DEF Writing
  <2>. QED  BY <1>1, <1>4, <2>1, <2>2, <2>3
<1>7. Placed'
  BY <1>1, <1>6 DEF Placed
<1>8. ASSUME added <= LogSize - n
      PROVE  /\ Len(shown') + Pending' = n
             /\ shown' = SubSeq(snap, 1, Len(shown'))
             /\ Writing' => /\ Count' = n + added
                            /\ \A i \in 1 .. n : snap[i] = log_buff[Slot(tail + i - 1)]
                            /\ replay'.at = Slot(tail + Len(shown'))
  <2>1. /\ s + Pending = n /\ shown = SubSeq(snap, 1, s)
        /\ Count = n + added
        /\ \A i \in 1 .. n : snap[i] = log_buff[Slot(tail + i - 1)]
        /\ replay.at = Slot(tail + s)
    BY <1>2, <1>8 DEF ReplayInv, Kept
  <2>2. Pending \in Nat /\ Pending > 0
    BY <1>1, <1>4 DEF Pending
  <2>3. s \in 0 .. n - 1 /\ s + 1 \in 1 .. n /\ n <= LogSize
    BY <1>1, <1>3, <1>8, <2>1, <2>2
  <2>4. log_buff[replay.at] = snap[s + 1]
    <3>1. tail + (s + 1) - 1 = tail + s
      BY <1>1, <1>3 DEF Slots
    <3>. QED  BY <2>1, <2>3, <3>1
  <2>5. shown' = SubSeq(snap, 1, s + 1)
    BY <1>1, <2>1, <2>3, <2>4, PrefixGrows
  <2>6. Slot(tail + (s + 1)) = After(Slot(tail + s))
    <3>1. \A k \in Nat : k + 1 < LogSize + LogSize => Slot(k + 1) = After(Slot(k))
      BY <1>1 DEF Slot, After
    <3>2. tail \in Nat /\ tail < LogSize /\ s < LogSize /\ LogSize \in Nat
      BY <1>1, <1>3, <2>3 DEF Slots
    <3>. HIDE DEF s
    <3>3. tail + s \in Nat /\ (tail + s) + 1 < LogSize + LogSize /\ tail + (s + 1) = (tail + s) + 1
      BY <1>3, <3>2
    <3>. QED  BY <3>1, <3>3
  <2>7. Count' = Count
    BY <1>1 DEF Count
  <2>8. Len(shown') + Pending' = n
    <3>. HIDE DEF n, s
    <3>. QED  BY <1>3, <1>6, <2>1, <2>2
  <2>9. Writing' => replay'.at = Slot(tail + Len(shown'))
    BY <1>3, <1>6, <2>1, <2>6
  <2>. QED  BY <1>3, <2>1, <2>5, <2>7, <2>8, <2>9
<1>9. Kept'
  BY <1>1, <1>8 DEF Kept, Slot
<1>. QED  BY <1>7, <1>9

(* Nothing is kept that is not written. *)
LEMMA NothingShown ==
  ASSUME shown' = <<>>, snap' = <<>>, replay'.left = 0, ~Writing', replay'.stage # "first"
  PROVE  Kept'
BY DEF Kept, Pending

(* What touches neither the ring nor the replay leaves it as it is. *)
LEMMA ReplayAlone ==
  ASSUME ReplayInv, UNCHANGED <<ring, replay, shown, snap, added>>
  PROVE  Placed' /\ Kept'
BY DEF ReplayInv, ring, Placed, Kept, Writing, Pending, Count, Slot

(* Every step of the log keeps what its replay was to write. *)
LEMMA NextReplayInv == ReplayInv /\ [Next]_vars => ReplayInv'
<1>. SUFFICES ASSUME ReplayInv, [Next]_vars PROVE ReplayInv'
  OBVIOUS
<1>1. IInv'
  BY NextIInv DEF ReplayInv
<1>2. CASE LogDumpToUsb
  <2>1. /\ shown' = <<>> /\ snap' = <<>> /\ replay'.left = 0
        /\ replay'.stage \in {"idle", "title"} /\ UNCHANGED <<head, tail, full>>
        /\ replay'.stage = "title" => head # tail
    BY <1>2 DEF LogDumpToUsb, Idle, ring
  <2>2. replay'.stage = "title" => full \/ head > 0
    BY <2>1 DEF ReplayInv, IInv, TypeOK, TwoShapes, Slots
  <2>3. Placed'
    BY <2>1, <2>2 DEF Placed, Writing
  <2>4. Kept'
    BY <2>1, NothingShown DEF Writing
  <2>. QED  BY <1>1, <2>3, <2>4 DEF ReplayInv
<1>3. CASE ReplayStart
  BY <1>1, <1>3, StartReplay DEF ReplayInv
<1>4. CASE ReplayChar
  BY <1>1, <1>4, ReplayNext DEF ReplayInv
<1>5. CASE AddChar
  BY <1>1, <1>5, AddCharReplay DEF ReplayInv
<1>6. CASE AddToLog
  BY <1>1, <1>6, ReplayAlone DEF AddToLog, ReplayInv
<1>7. ASSUME NEW opened \in BOOLEAN, NEW written \in BOOLEAN, NEW closed \in BOOLEAN,
             LogDumpToDisk(opened, written, closed)
      PROVE  ReplayInv'
  BY <1>1, <1>7, ReplayAlone DEF LogDumpToDisk, ReplayInv
<1>8. CASE UNCHANGED vars
  BY <1>1, <1>8, ReplayAlone DEF vars, ReplayInv
<1>. QED  BY <1>2, <1>3, <1>4, <1>5, <1>6, <1>7, <1>8 DEF Next

(* The invariant of the replay. *)
THEOREM ReplayInvariance == Spec => []ReplayInv
<1>1. Init => ReplayInv
  <2>. SUFFICES ASSUME Init PROVE ReplayInv
    OBVIOUS
  <2>1. Placed /\ Kept
    BY DEF Init, Placed, Kept, Writing, Pending, Idle
  <2>. QED  BY <2>1, InitIInv DEF ReplayInv
<1>. QED  BY <1>1, NextReplayInv, PTL DEF Spec

(* A replay writes what the log held when it chose its first piece, whole   *)
(* and in order, as long as what callbacks log meanwhile fits.              *)
THEOREM ReplaysAreFaithful == Spec => []ReplayFaithful
<1>1. ReplayInv => ReplayFaithful
  BY DEF ReplayInv, Kept, ReplayFaithful
<1>. QED  BY <1>1, ReplayInvariance, PTL
-----------------------------------------------------------------------------
(* A copy to disk that no file system call failed is the log, unless the    *)
(* log is full: then log_dump_to_disk writes nothing (log.c:86-100).        *)
THEOREM SavesExactly == Spec => SavedLogExact
<1>1. ASSUME IInv, LogDumpToDisk(TRUE, TRUE, TRUE)
      PROVE  full \/ file' = Retained
  <2>. SUFFICES ASSUME ~full PROVE file' = Retained
    OBVIOUS
  <2>1. /\ tail = 0 /\ head \in Slots /\ LogSize \in Nat \ {0}
        /\ log_buff \in [Slots -> Char \cup {Nul}]
    BY <1>1 DEF IInv, TypeOK, TwoShapes
  <2>2. Linear \in Seq(Char \cup {Nul})
    BY <1>1, LinearType DEF IInv
  <2>3. file' = Linear
    <3>1. file' = SubSeq(Linear, 1, Len(Linear))
      BY <1>1 DEF LogDumpToDisk
    <3>. QED  BY <2>2, <3>1
  <2>4. Count = head
    BY <2>1 DEF Count, Slots
  <2>5. Retained = [i \in 1 .. head |-> log_buff[i - 1]]
    <3>1. \A i \in 1 .. head : Slot(tail + i - 1) = i - 1
      BY <2>1 DEF Slot, Slots
    <3>. QED  BY <2>4, <3>1 DEF Retained
  <2>6. CASE head > 0
    <3>1. Linear = Piece(0, head)
      BY <2>1, <2>6 DEF Linear
    <3>2. head - 0 = head /\ \A i \in 1 .. head : 0 + i - 1 = i - 1
      BY <2>1 DEF Slots
    <3>3. Piece(0, head) = [i \in 1 .. head |-> log_buff[i - 1]]
      BY <3>2 DEF Piece
    <3>. QED  BY <2>3, <2>5, <3>1, <3>3
  <2>7. CASE head = 0
    <3>1. Linear = <<>>
      BY <2>1, <2>7 DEF Linear
    <3>2. Retained = <<>>
      BY <2>5, <2>7
    <3>. QED  BY <2>3, <3>1, <3>2
  <2>. QED  BY <2>1, <2>6, <2>7 DEF Slots
<1>2. IInv /\ [Next]_vars => [LogDumpToDisk(TRUE, TRUE, TRUE) => full \/ file' = Retained]_vars
  BY <1>1
<1>. QED  BY <1>2, Invariance, PTL DEF Spec, SavedLogExact
=============================================================================
