------------------------- MODULE ObserveFileProofs -------------------------
(***************************************************************************)
(* Proofs about ObserveFile, for every file, every size of the buffer and  *)
(* every parser: the window of the file that the parser is given is the    *)
(* file's (WindowIsFile), no message is left behind when the file only     *)
(* ever grows by whole messages that fit into what the buffer keeps in     *)
(* reserve, but for those whose read failed (NoMessageSkipped), and what   *)
(* was parsed is in the session or on its way there, once and in order     *)
(* (RowsFollowTheFile). Any read may fail. The lemmas follow the           *)
(* operations of the buffer, then the parser, then the rows.               *)
(***************************************************************************)
EXTENDS ObserveFile, FiniteSetTheorems, SequenceTheorems, TLAPS

\* What the loop knows of the file: the window, and that the file was never
\* read beyond its end.
FileInv ==
    /\ FileTypeOK
    /\ WindowIsFile
    /\ pos <= size

\* A byte is only dropped when there is one.
DropInv == step \in {"more", "drop"} => Readable(buffer) > 0

WindowInv == FileInv /\ DropInv

\* When a message begins where parsing goes on, it is not complete, and its
\* first byte is only dropped when the read of its other bytes failed.
ResyncInv ==
    /\ size \in Boundaries
    /\ NoMessageSkipped
    /\ step = "more" => ItemsIn(consumed, pos) = {}
    /\ step = "drop" => readFailed \/ \A m \in Messages : m.at # consumed

-----------------------------------------------------------------------------
(* The buffer.                                                              *)

\* What the parser sees in a window b of the buffer.
Shows(b) ==
    /\ b \in Buffers
    /\ b.start <= b.end
    /\ Readable(b) = Readable(buffer)
    /\ \A i \in Slots :
        i \in b.start .. b.end - 1 => b.slice[i] = consumed + (i - b.start)

\* Flushing the buffer moves the window without changing what is in it, and
\* leaves all the room there is behind it.
LEMMA FlushedLemma ==
    ASSUME FileInv
    PROVE  /\ Shows(buffer) /\ Shows(Flushed(buffer))
           /\ Writable(Flushed(buffer)) = Capacity - Readable(buffer)
<1> DEFINE b == Flushed(buffer)
<1>1. /\ Capacity \in Nat /\ FileEnd \in Nat
      /\ buffer \in Buffers /\ consumed \in 0 .. FileEnd
      /\ buffer.start \in 0 .. Capacity /\ buffer.end \in 0 .. Capacity
      /\ buffer.start <= buffer.end
  BY BufferHasRoom, FileIsFinite DEF FileInv, FileTypeOK, WindowIsFile, Buffers
<1>2. Shows(buffer)
  BY <1>1 DEF Shows, FileInv, WindowIsFile
<1>3. CASE b = buffer /\ buffer.start = 0
  BY <1>1, <1>2, <1>3 DEF Readable, Writable
<1>4. CASE b = [slice |-> [i \in Slots |-> IF i < Readable(buffer)
                                           THEN buffer.slice[buffer.start + i]
                                           ELSE buffer.slice[i]],
                start |-> 0, end |-> Readable(buffer)]
  <2>1. \A i \in Slots : i < Readable(buffer) =>
            /\ buffer.start + i \in Slots
            /\ buffer.start + i \in buffer.start .. buffer.end - 1
    BY <1>1 DEF Slots, Readable
  <2>2. \A i \in Slots : buffer.slice[i] \in 0 .. FileEnd \cup {Unwritten}
    BY <1>1 DEF Buffers
  <2>3. b.slice \in [Slots -> 0 .. FileEnd \cup {Unwritten}]
    BY <1>4, <2>1, <2>2
  <2>4. b.start = 0 /\ b.end = Readable(buffer) /\ b.end \in 0 .. Capacity
    BY <1>1, <1>4 DEF Readable
  <2>5. b \in Buffers
    BY <1>1, <1>4, <2>3, <2>4 DEF Buffers
  <2>6. \A i \in Slots : i \in b.start .. b.end - 1 =>
            b.slice[i] = consumed + (i - b.start)
    <3> SUFFICES ASSUME NEW i \in Slots, i \in b.start .. b.end - 1
                 PROVE  b.slice[i] = consumed + (i - b.start)
      OBVIOUS
    <3>1. i < Readable(buffer) /\ i \in Int
      BY <1>1, <2>4 DEF Slots, Readable
    <3>2. b.slice[i] = buffer.slice[buffer.start + i]
      BY <1>4, <3>1
    <3>3. buffer.slice[buffer.start + i]
              = consumed + ((buffer.start + i) - buffer.start)
      BY <2>1, <3>1 DEF FileInv, WindowIsFile
    <3> QED
      BY <1>1, <2>4, <3>1, <3>2, <3>3
  <2>7. Readable(b) = Readable(buffer)
    BY <1>1, <2>4 DEF Readable
  <2>8. Writable(b) = Capacity - Readable(buffer)
    BY <2>4 DEF Writable
  <2>9. Shows(b)
    <3>1. b.start <= b.end
      BY <1>1, <2>4 DEF Readable
    <3> HIDE DEF b
    <3> QED
      BY <2>5, <2>6, <2>7, <3>1 DEF Shows
  <2> QED
    BY <1>2, <2>8, <2>9
<1> QED
  BY <1>3, <1>4 DEF Flushed

\* Preparing the buffer leaves room behind a window that is below the minimum.
LEMMA PreparedLemma ==
    ASSUME FileInv
    PROVE  /\ Prepared(buffer) \in {buffer, Flushed(buffer)}
           /\ Writable(Prepared(buffer)) \in Nat
           /\ Readable(buffer) < Min => Writable(Prepared(buffer)) > 0
<1>1. /\ Capacity \in Nat /\ Min \in 1 .. Capacity
      /\ Writable(buffer) \in Nat /\ Readable(buffer) \in 0 .. Capacity
  BY BufferHasRoom
     DEF FileInv, FileTypeOK, WindowIsFile, Buffers, Readable, Writable
<1> QED
  BY <1>1, FlushedLemma DEF Prepared

\* A read that does not fail returns no more than there is room and file for, and
\* nothing only when there is no room or nothing left.
LEMMA ReadSizesLemma ==
    ASSUME FileInv, NEW room \in Nat, NEW n \in ReadSizes(room)
    PROVE  /\ n \in Nat /\ n <= room /\ pos + n <= size
           /\ n = 0 => room = 0 \/ pos = size
BY ReadsAreKnown DEF ReadSizes, FileInv, FileTypeOK

\* Bytes that fit behind the window keep it: they are the next ones of the file.
LEMMA FilledLemma ==
    ASSUME FileInv, NEW b \in {buffer, Flushed(buffer)},
           NEW n \in Nat, n <= Writable(b), pos + n <= size,
           buffer' = Filled(b, pos, n), pos' = pos + n,
           UNCHANGED <<size, consumed>>, readFailed' \in BOOLEAN
    PROVE  /\ FileInv'
           /\ Readable(buffer)' = Readable(buffer) + n
           /\ buffer'.end = b.end + n
<1>1. /\ b \in Buffers /\ b.start <= b.end
      /\ Readable(b) = Readable(buffer)
      /\ \A i \in Slots : i \in b.start .. b.end - 1 =>
             b.slice[i] = consumed + (i - b.start)
  BY FlushedLemma DEF Shows
<1>2. /\ Capacity \in Nat /\ FileEnd \in Nat
      /\ consumed \in 0 .. FileEnd /\ size \in 0 .. FileEnd
      /\ pos \in 0 .. FileEnd /\ pos = consumed + Readable(buffer)
      /\ b.start \in 0 .. Capacity /\ b.end \in 0 .. Capacity
      /\ b.slice \in [Slots -> 0 .. FileEnd \cup {Unwritten}]
  BY <1>1, BufferHasRoom, FileIsFinite
     DEF FileInv, FileTypeOK, WindowIsFile, Buffers
<1>3. n \in Nat /\ n <= Writable(b) /\ pos + n <= size
  OBVIOUS
<1>4. /\ buffer' = Filled(b, pos, n) /\ pos' = pos + n
      /\ size' = size /\ consumed' = consumed
  OBVIOUS
<1> DEFINE slice == [i \in Slots |-> IF i \in b.end .. b.end + n - 1
                                     THEN pos + (i - b.end) ELSE b.slice[i]]
<1>5. /\ buffer'.slice = slice
      /\ buffer'.start = b.start /\ buffer'.end = b.end + n
      /\ buffer' = [slice |-> slice, start |-> b.start, end |-> b.end + n]
  BY <1>1, <1>4 DEF Filled, Buffers
<1>6. buffer' \in Buffers
  <2>1. ASSUME NEW i \in Slots PROVE slice[i] \in 0 .. FileEnd \cup {Unwritten}
    <3>1. CASE i \in b.end .. b.end + n - 1
      <4>1. slice[i] = pos + (i - b.end)
        BY <3>1
      <4> HIDE DEF slice
      <4>2. pos + (i - b.end) \in 0 .. FileEnd
        <5>1. /\ i \in Int /\ b.end \in Int /\ pos \in Nat /\ size \in Nat
              /\ b.end <= i /\ i <= b.end + n - 1
          BY <1>2, <1>3, <3>1 DEF Slots
        <5>2. size <= FileEnd /\ FileEnd \in Nat
          BY <1>2
        <5> QED
          BY <1>3, <5>1, <5>2
      <4> QED
        BY <4>1, <4>2
    <3>2. CASE i \notin b.end .. b.end + n - 1
      <4>1. slice[i] = b.slice[i]
        BY <3>2
      <4> HIDE DEF slice
      <4> QED
        BY <1>2, <4>1
    <3> QED
      BY <3>1, <3>2
  <2>2. b.end + n \in 0 .. Capacity
    BY <1>2, <1>3 DEF Writable
  <2> HIDE DEF slice
  <2>3. slice \in [Slots -> 0 .. FileEnd \cup {Unwritten}]
    BY <2>1 DEF slice
  <2> QED
    BY <1>2, <1>5, <2>2, <2>3 DEF Buffers
<1>7. \A i \in Slots : i \in b.start .. b.end + n - 1 =>
          slice[i] = consumed + (i - b.start)
  <2> SUFFICES ASSUME NEW i \in Slots, i \in b.start .. b.end + n - 1
               PROVE  slice[i] = consumed + (i - b.start)
    OBVIOUS
  <2>1. CASE i \in b.end .. b.end + n - 1
    <3>1. slice[i] = pos + (i - b.end)
      BY <2>1
    <3>2. pos = consumed + (b.end - b.start)
      BY <1>1, <1>2 DEF Readable
    <3>3. i \in Int /\ b.end \in Int /\ b.start \in Int /\ consumed \in Int
      BY <1>2 DEF Slots
    <3> HIDE DEF slice
    <3>4. pos + (i - b.end) = consumed + (i - b.start)
      BY <3>2, <3>3
    <3> QED
      BY <3>1, <3>4
  <2>2. CASE i \notin b.end .. b.end + n - 1
    <3>1. slice[i] = b.slice[i]
      BY <2>2
    <3> HIDE DEF slice
    <3>2. i \in b.start .. b.end - 1
      BY <1>2, <1>3, <2>2 DEF Slots
    <3>3. \A j \in Slots : j \in b.start .. b.end - 1 =>
              b.slice[j] = consumed + (j - b.start)
      BY <1>1
    <3> QED
      BY <3>1, <3>2, <3>3
  <2> QED
    BY <2>1, <2>2
<1>8. Readable(buffer)' = Readable(buffer) + n
  <2>1. buffer'.end - buffer'.start = (b.end - b.start) + n
    BY <1>2, <1>3, <1>5
  <2> QED
    BY <1>1, <2>1 DEF Readable
<1>9. buffer'.start <= buffer'.end
  BY <1>1, <1>2, <1>3, <1>5
<1>10. pos' = consumed' + Readable(buffer)' /\ pos' \in 0 .. FileEnd
  <2>1. Readable(buffer) \in Int
    BY <1>1, <1>2 DEF Readable
  <2> QED
    BY <1>2, <1>3, <1>4, <1>8, <2>1
<1>11. \A i \in Slots : i \in buffer'.start .. buffer'.end - 1 =>
           buffer'.slice[i] = consumed' + (i - buffer'.start)
  <2>1. buffer'.slice = slice /\ buffer'.start = b.start
    BY <1>5
  <2>2. buffer'.end - 1 = b.end + n - 1
    <3>1. b.end \in Int /\ n \in Int /\ buffer'.end = b.end + n
      BY <1>2, <1>3, <1>5
    <3> HIDE DEF slice
    <3> QED
      BY <3>1
  <2> HIDE DEF slice
  <2> QED
    BY <1>4, <1>7, <2>1, <2>2
<1>12. pos' <= size' /\ size' \in 0 .. FileEnd /\ consumed' \in 0 .. FileEnd
  BY <1>2, <1>3, <1>4
<1> HIDE DEF slice
<1> QED
  BY <1>5, <1>6, <1>8, <1>9, <1>10, <1>11, <1>12
     DEF FileInv, FileTypeOK, WindowIsFile

\* Loading keeps the window, also when the read failed; when it did not, it
\* brings nothing only at the end of the file.
LEMMA LoadLemma ==
    ASSUME FileInv, NEW n, Load(n)
    PROVE  /\ FileInv'
           /\ n \in Nat
           /\ Readable(buffer)' = Readable(buffer) + n
           /\ n = 0 /\ Readable(buffer) < Min => pos = size \/ readFailed'
<1> DEFINE b == Prepared(buffer)
<1>1. /\ b \in {buffer, Flushed(buffer)} /\ Writable(b) \in Nat
      /\ Readable(buffer) < Min => Writable(b) > 0
  BY PreparedLemma
<1>2. /\ n \in Nat /\ n <= Writable(b) /\ pos + n <= size
      /\ n = 0 => Writable(b) = 0 \/ pos = size \/ readFailed'
  <2>1. CASE n \in ReadSizes(Writable(b))
    BY <1>1, <2>1, ReadSizesLemma
  <2>2. CASE n = 0 /\ readFailed'
    <3>1. pos \in Nat /\ pos <= size
      BY DEF FileInv, FileTypeOK
    <3> QED
      BY <1>1, <2>2, <3>1
  <2> QED
    BY <2>1, <2>2 DEF Load
<1>3. /\ buffer' = Filled(b, pos, n) /\ pos' = pos + n
      /\ UNCHANGED <<size, consumed>> /\ readFailed' \in BOOLEAN
  BY DEF Load
<1>4. n = 0 /\ Readable(buffer) < Min => pos = size \/ readFailed'
  BY <1>1, <1>2
<1> HIDE DEF b
<1>5. FileInv' /\ Readable(buffer)' = Readable(buffer) + n
  BY <1>1, <1>2, <1>3, FilledLemma
<1> QED
  BY <1>2, <1>4, <1>5

\* Consuming what is in the window moves its front, also when the buffer starts
\* over because nothing is left.
LEMMA ConsumeLemma ==
    ASSUME FileInv, NEW n \in Nat, n <= Readable(buffer), Consume(n)
    PROVE  /\ FileInv'
           /\ Readable(buffer)' = Readable(buffer) - n
<1>1. /\ Capacity \in Nat /\ FileEnd \in Nat
      /\ consumed \in 0 .. FileEnd /\ size \in 0 .. FileEnd
      /\ pos \in 0 .. FileEnd /\ pos = consumed + Readable(buffer)
      /\ buffer.start \in 0 .. Capacity /\ buffer.end \in 0 .. Capacity
      /\ buffer.start <= buffer.end /\ pos <= size
      /\ buffer \in Buffers
      /\ Readable(buffer) = buffer.end - buffer.start
  BY BufferHasRoom, FileIsFinite
     DEF FileInv, FileTypeOK, WindowIsFile, Buffers, Readable
<1>2. /\ buffer' = Read(buffer, n) /\ consumed' = consumed + n
      /\ size' = size /\ pos' = pos /\ readFailed' \in BOOLEAN
  BY DEF Consume, FileInv, FileTypeOK
<1>3. consumed' \in 0 .. FileEnd
  BY <1>1, <1>2
<1>4. CASE buffer.start + n < buffer.end
  <2>1. /\ buffer' = [buffer EXCEPT !.start = buffer.start + n]
    BY <1>1, <1>2, <1>4 DEF Read
  <2>2. /\ buffer'.start = buffer.start + n /\ buffer'.end = buffer.end
        /\ buffer'.slice = buffer.slice
        /\ buffer' \in Buffers
    BY <1>1, <1>4, <2>1 DEF Buffers
  <2>3. \A i \in Slots : i \in buffer'.start .. buffer'.end - 1 =>
            buffer'.slice[i] = consumed' + (i - buffer'.start)
    <3> SUFFICES ASSUME NEW i \in Slots,
                        i \in buffer.start + n .. buffer.end - 1
                 PROVE  buffer.slice[i] = (consumed + n) + (i - (buffer.start + n))
      BY <1>2, <2>2
    <3>1. i \in buffer.start .. buffer.end - 1 /\ i \in Int
      BY <1>1 DEF Slots
    <3>2. buffer.slice[i] = consumed + (i - buffer.start)
      BY <3>1 DEF FileInv, WindowIsFile
    <3> QED
      BY <1>1, <3>1, <3>2
  <2>4. Readable(buffer)' = Readable(buffer) - n
    BY <1>1, <2>2 DEF Readable
  <2> QED
    BY <1>1, <1>2, <1>3, <1>4, <2>2, <2>3, <2>4
       DEF FileInv, FileTypeOK, WindowIsFile
<1>5. CASE ~(buffer.start + n < buffer.end)
  <2>1. n = Readable(buffer) /\ pos = consumed'
    BY <1>1, <1>2, <1>5
  <2>2. buffer' = [buffer EXCEPT !.start = 0, !.end = 0]
    BY <1>1, <1>2, <1>5 DEF Read
  <2>3. buffer'.start = 0 /\ buffer'.end = 0 /\ buffer' \in Buffers
    <3>1. 0 \in 0 .. Capacity
      BY <1>1
    <3>2. buffer.slice \in [Slots -> 0 .. FileEnd \cup {Unwritten}]
      BY <1>1 DEF Buffers
    <3>3. buffer' = [slice |-> buffer.slice, start |-> 0, end |-> 0]
      BY <1>1, <2>2 DEF Buffers
    <3> QED
      BY <3>1, <3>2, <3>3 DEF Buffers
  <2>4. Readable(buffer)' = 0
    BY <2>3 DEF Readable
  <2>5. 0 .. 0 - 1 = {}
    OBVIOUS
  <2> QED
    BY <1>1, <1>2, <1>3, <2>1, <2>3, <2>4, <2>5
       DEF FileInv, FileTypeOK, WindowIsFile
<1> QED
  BY <1>4, <1>5

-----------------------------------------------------------------------------
(* The window.                                                              *)

\* A step that leaves the file and the buffer alone keeps what is known of them.
LEMMA StillLemma ==
    ASSUME WindowInv, UNCHANGED fileVars,
           step' \in {"more", "drop"} => step' = step \/ Readable(buffer) > 0
    PROVE  WindowInv'
<1>1. FileInv'
  BY DEF WindowInv, FileInv, FileTypeOK, WindowIsFile, Readable, fileVars
<1>2. DropInv'
  BY DEF WindowInv, DropInv, Readable, fileVars
<1> QED
  BY <1>1, <1>2 DEF WindowInv

\* A new buffer shows nothing.
LEMMA WindowInit == Init => WindowInv
<1> SUFFICES ASSUME Init PROVE WindowInv
  OBVIOUS
<1>1. /\ Capacity \in Nat /\ FileEnd \in Nat /\ size \in 0 .. FileEnd
      /\ pos = 0 /\ consumed = 0 /\ step = "start"
      /\ buffer = NewBuffer /\ readFailed \in BOOLEAN
  BY BufferHasRoom, FileIsFinite DEF Init, FileInit
<1>2. /\ NewBuffer \in Buffers /\ NewBuffer.start = 0 /\ NewBuffer.end = 0
  BY <1>1 DEF NewBuffer, Buffers
<1>3. 0 .. 0 - 1 = {}
  OBVIOUS
<1>4. FileInv
  BY <1>1, <1>2, <1>3 DEF FileInv, FileTypeOK, WindowIsFile, Readable
<1>5. DropInv
  BY <1>1 DEF DropInv
<1> QED
  BY <1>4, <1>5 DEF WindowInv

\* Every step keeps the window.
LEMMA WindowStep == WindowInv /\ [Next]_vars => WindowInv'
<1> SUFFICES ASSUME WindowInv, [Next]_vars PROVE WindowInv'
  OBVIOUS
<1> USE DEF WindowInv
<1>1. CASE LoadsFirst
  <2>1. PICK n : Load(n)
    BY <1>1 DEF LoadsFirst
  <2> QED
    BY <1>1, <2>1, LoadLemma DEF LoadsFirst, DropInv
<1>2. CASE HasNoBytes
  BY <1>2, StillLemma DEF HasNoBytes
<1>3. CASE ParsesItems
  <2>1. PICK n \in 1 .. Readable(buffer) : Consume(n)
    BY <1>3 DEF ParsesItems
  <2>2. n \in Nat /\ n <= Readable(buffer)
    <3>1. Readable(buffer) \in Int
      BY DEF FileInv, FileTypeOK, Buffers, Readable
    <3> QED
      BY <3>1
  <2> QED
    BY <1>3, <2>1, <2>2, ConsumeLemma DEF ParsesItems, DropInv
<1>4. CASE SaysIncomplete
  BY <1>4, StillLemma DEF SaysIncomplete, Says
<1>5. CASE SaysParseError
  BY <1>5, StillLemma DEF SaysParseError, Says
<1>6. CASE SaysEof \/ SaysUnrecoverable
  BY <1>6, StillLemma DEF SaysEof, SaysUnrecoverable, Says
<1>7. CASE LoadsMore
  <2>1. PICK n : Load(n)
    BY <1>7 DEF LoadsMore
  <2>2. FileInv' /\ n \in Nat /\ Readable(buffer)' = Readable(buffer) + n
    BY <2>1, LoadLemma
  <2>3. Readable(buffer) > 0 /\ Readable(buffer) \in Int
    BY <1>7 DEF LoadsMore, DropInv, FileInv, FileTypeOK, Buffers, Readable
  <2> QED
    BY <2>2, <2>3 DEF DropInv
<1>8. CASE DropsByte
  <2>1. Readable(buffer) > 0 /\ Readable(buffer) \in Int
    BY <1>8 DEF DropsByte, DropInv, FileInv, FileTypeOK, Buffers, Readable
  <2> QED
    BY <1>8, <2>1, ConsumeLemma DEF DropsByte, DropInv
<1>9. CASE Reloads
  <2>1. PICK n : Load(n) /\ step' = (IF n > 0 THEN "parse" ELSE "waiting")
    BY <1>9 DEF Reloads
  <2> QED
    BY <2>1, LoadLemma DEF DropInv
<1>10. CASE FileGrows
  <2>1. PICK n \in 1 .. FileEnd : Grow(n)
    BY <1>10 DEF FileGrows
  <2>2. step' = step /\ UNCHANGED <<pos, buffer, consumed, readFailed>>
    BY <1>10, <2>1 DEF FileGrows, Grow
  <2>3. size' \in 0 .. FileEnd /\ pos' <= size'
    BY <2>1, <2>2, FileIsFinite DEF Grow, FileInv, FileTypeOK
  <2> QED
    BY <2>2, <2>3 DEF FileInv, FileTypeOK, WindowIsFile, DropInv, Readable
<1>11. CASE Begins \/ Selects \/ BreaksOnFatal \/ WritesText
              \/ SendsAttachments \/ Flushes \/ TellsFileRead
              \/ WakesFromTail \/ RequestFails
  <2>1. UNCHANGED fileVars
    BY <1>11 DEF Begins, Selects, BreaksOnFatal, WritesText, SendsAttachments,
                 Flushes, TellsFileRead, WakesFromTail, RequestFails
  <2>2. step' \notin {"more", "drop"}
    BY <1>11 DEF Begins, Selects, BreaksOnFatal, WritesText, SendsAttachments,
                 AfterWrite, Flushes, TellsFileRead, WakesFromTail,
                 RequestFails
  <2> QED
    BY <2>1, <2>2, StillLemma
<1>12. CASE Tracks \/ TrackFails \/ Aborts \/ Closes \/ StateEnds
  BY <1>12, StillLemma DEF Tracks, TrackFails, Aborts, Closes, StateEnds
<1>13. CASE UNCHANGED vars
  BY <1>13, StillLemma DEF vars
<1> QED
  BY <1>1, <1>2, <1>3, <1>4, <1>5, <1>6, <1>7, <1>8, <1>9, <1>10, <1>11,
     <1>12, <1>13
     DEF Next, Loop, Produces, ProduceNext, Environment

\* The parser is only ever given the part of the file behind what it consumed,
\* for any capacity, any minimum, short reads, and however the file grows.
THEOREM WindowCorrect == Spec => [](FileTypeOK /\ WindowIsFile)
<1>1. Init => WindowInv
  BY WindowInit
<1>2. WindowInv /\ [Next]_vars => WindowInv'
  BY WindowStep
<1>3. WindowInv => FileTypeOK /\ WindowIsFile
  BY DEF WindowInv, FileInv
<1> QED
  BY <1>1, <1>2, <1>3, PTL DEF Spec

-----------------------------------------------------------------------------
(* Resynchronising.                                                         *)

\* The file is only extended by whole messages, and none is longer than what
\* the buffer makes room for.
WellBehaved == WholeWrites /\ \A m \in Messages : m.len <= Min

\* A message that begins at offset o and ends before e is an item there.
LEMMA ItemLemma ==
    ASSUME NEW m \in Messages, NEW e \in Nat, m.at + m.len <= e
    PROVE  m \in ItemsIn(m.at, e)
<1>1. m.at \in Nat /\ m.at >= m.at /\ m.at .. m.at - 1 = {}
  BY MessagesAreInFile
<1> QED
  BY <1>1 DEF ItemsIn

\* When nothing can be loaded for a message that is not complete, the file would
\* have to end within it, or the read failed.
LEMMA NothingMoreLemma ==
    ASSUME WellBehaved, FileInv, size \in Boundaries, Readable(buffer) > 0,
           ItemsIn(consumed, pos) = {}, Load(0), NEW m \in Messages
    PROVE  m.at # consumed \/ readFailed'
<1> SUFFICES ASSUME m.at = consumed, ~readFailed' PROVE FALSE
  OBVIOUS
<1>1. /\ consumed \in Nat /\ pos \in Nat /\ size \in Nat
      /\ pos = consumed + Readable(buffer) /\ Readable(buffer) \in Int
      /\ Min \in Nat
  BY BufferHasRoom
     DEF FileInv, FileTypeOK, WindowIsFile, Buffers, Readable
<1>2. m.at \in Nat /\ m.len \in Nat /\ m.len <= Min
  BY MessagesAreInFile DEF WellBehaved
<1>3. ~(m.at + m.len <= pos)
  BY <1>1, ItemLemma
<1>4. Readable(buffer) < Min
  BY <1>1, <1>2, <1>3
<1>5. pos = size
  BY <1>4, LoadLemma
<1>6. m.at < size /\ size < m.at + m.len
  BY <1>1, <1>2, <1>3, <1>5
<1> QED
  BY <1>6 DEF Boundaries

\* The messages that begin in the bytes of some items are those items.
LEMMA TakenLemma ==
    ASSUME NEW items \in SUBSET Messages, NEW m \in Messages,
           m.at \in Taken(items)
    PROVE  m \in items
<1>1. PICK k \in items : m.at \in Bytes(k)
  BY DEF Taken
<1>2. m.at \in Bytes(m)
  BY MessagesAreInFile DEF Bytes
<1> QED
  BY <1>1, <1>2, MessagesAreApart

\* Steps that neither consume, parse nor grow the file keep what is known of the
\* messages.
LEMMA StillParsed ==
    ASSUME ResyncInv, UNCHANGED <<fileVars, parsed, starved>>,
           step' = "more" => step = "more" \/ ItemsIn(consumed, pos) = {},
           step' = "drop" =>
               step = "drop" \/ \A m \in Messages : m.at # consumed
    PROVE  ResyncInv'
BY DEF ResyncInv, NoMessageSkipped, ItemsIn, fileVars

\* Initially nothing was consumed.
LEMMA ResyncInit == WellBehaved /\ Init => ResyncInv
<1> SUFFICES ASSUME WellBehaved, Init PROVE ResyncInv
  OBVIOUS
<1>1. size \in Boundaries /\ consumed = 0 /\ step = "start"
  BY DEF WellBehaved, Init, FileInit
<1>2. \A m \in Messages : ~(m.at < 0)
  BY MessagesAreInFile
<1> QED
  BY <1>1, <1>2 DEF ResyncInv, NoMessageSkipped

\* Every step keeps what is known of the messages.
LEMMA ResyncStep ==
    WellBehaved /\ WindowInv /\ ResyncInv /\ [Next]_vars => ResyncInv'
<1> SUFFICES ASSUME WellBehaved, WindowInv, ResyncInv, [Next]_vars
             PROVE  ResyncInv'
  OBVIOUS
<1>0. \A m \in Messages : m.at \in Nat
  BY MessagesAreInFile
<1>1. CASE LoadsFirst \/ Reloads
  <2>1. PICK n : Load(n)
    BY <1>1 DEF LoadsFirst, Reloads
  <2>2. size' = size /\ consumed' = consumed /\ parsed' = parsed
        /\ step' \notin {"more", "drop"}
    BY <1>1, <2>1 DEF LoadsFirst, Reloads, Load
  <2>3. starved' = starved
    BY <1>1 DEF LoadsFirst, Reloads, callVars
  <2> QED
    BY <2>2, <2>3 DEF ResyncInv, NoMessageSkipped
<1>2. CASE HasNoBytes
  BY <1>2, StillParsed DEF HasNoBytes, callVars
<1>3. CASE ParsesItems
  <2> DEFINE items == ItemsIn(consumed, pos)
  <2>1. PICK n \in 1 .. Readable(buffer) :
            Taken(items) = consumed .. consumed + n - 1 /\ Consume(n)
    BY <1>3 DEF ParsesItems
  <2>2. /\ size' = size /\ consumed' = consumed + n
        /\ parsed' = parsed \cup items /\ step' = "items" /\ starved' = starved
    BY <1>3, <2>1 DEF ParsesItems, Consume, callVars
  <2>3. consumed \in Nat /\ n \in Int
    BY <2>1 DEF WindowInv, FileInv, FileTypeOK, Buffers, Readable
  <2>4. items \in SUBSET Messages
    BY DEF ItemsIn
  <2>5. ASSUME NEW m \in Messages, m.at < consumed + n
        PROVE  m \in parsed \cup items \cup starved
    <3>1. CASE m.at < consumed
      BY <3>1 DEF ResyncInv, NoMessageSkipped
    <3>2. CASE ~(m.at < consumed)
      <4>1. m.at \in consumed .. consumed + n - 1
        BY <1>0, <2>3, <2>5, <3>2
      <4> QED
        BY <2>1, <2>4, <4>1, TakenLemma
    <3> QED
      BY <3>1, <3>2
  <2> QED
    BY <2>2, <2>5 DEF ResyncInv, NoMessageSkipped
<1>4. CASE SaysIncomplete
  BY <1>4, StillParsed DEF SaysIncomplete, Says
<1>5. CASE SaysParseError
  <2>1. "parse" \in Verdicts(consumed)
    BY <1>5 DEF SaysParseError, Says
  <2>2. \A m \in Messages : m.at # consumed
    BY <2>1 DEF Verdicts
  <2> QED
    BY <1>5, <2>2, StillParsed DEF SaysParseError, Says
<1>6. CASE SaysEof \/ SaysUnrecoverable
  BY <1>6, StillParsed DEF SaysEof, SaysUnrecoverable, Says
<1>7. CASE LoadsMore
  <2>1. PICK n : Load(n) /\ step' = (IF n > 0 THEN "parse" ELSE "drop")
    BY <1>7 DEF LoadsMore
  <2>2. /\ n \in Nat /\ size' = size /\ consumed' = consumed
        /\ parsed' = parsed /\ starved' = starved
    BY <1>7, <2>1, LoadLemma DEF LoadsMore, WindowInv, Load, callVars
  <2>3. CASE n > 0
    BY <2>1, <2>2, <2>3 DEF ResyncInv, NoMessageSkipped
  <2>4. CASE n = 0
    <3>1. readFailed' \/ \A m \in Messages : m.at # consumed
      BY <1>7, <2>1, <2>4, NothingMoreLemma
         DEF LoadsMore, WindowInv, DropInv, ResyncInv
    <3>2. step' = "drop"
      BY <2>1, <2>4
    <3> QED
      BY <2>2, <3>1, <3>2 DEF ResyncInv, NoMessageSkipped
  <2> QED
    BY <2>2, <2>3, <2>4
<1>8. CASE DropsByte
  <2>1. /\ size' = size /\ consumed' = consumed + 1 /\ parsed' = parsed
        /\ step' \notin {"more", "drop"}
    BY <1>8 DEF DropsByte, Consume
  <2>2. consumed \in Nat
    BY DEF WindowInv, FileInv, FileTypeOK
  <2>3. ASSUME NEW m \in Messages, m.at < consumed + 1
        PROVE  m \in parsed \cup starved'
    <3>1. starved' = starved \cup {k \in Messages : k.at = consumed /\ readFailed}
      BY <1>8 DEF DropsByte
    <3>2. CASE m.at = consumed
      BY <1>8, <3>1, <3>2 DEF DropsByte, ResyncInv
    <3>3. CASE m.at # consumed
      <4>1. m.at < consumed
        BY <1>0, <2>2, <2>3, <3>3
      <4> QED
        BY <3>1, <4>1 DEF ResyncInv, NoMessageSkipped
    <3> QED
      BY <3>2, <3>3
  <2> QED
    BY <2>1, <2>3 DEF ResyncInv, NoMessageSkipped
<1>9. CASE FileGrows
  <2>1. /\ size' \in Boundaries
        /\ UNCHANGED <<pos, consumed, readFailed, parsed, starved, step>>
    BY <1>9 DEF FileGrows, Grow, WellBehaved, callVars
  <2> QED
    BY <2>1 DEF ResyncInv, NoMessageSkipped, ItemsIn
<1>10. CASE Begins \/ Selects \/ BreaksOnFatal \/ WritesText
              \/ SendsAttachments \/ Flushes \/ TellsFileRead
              \/ WakesFromTail \/ RequestFails
  <2>1. UNCHANGED <<fileVars, parsed, starved>>
    BY <1>10 DEF Begins, Selects, BreaksOnFatal, WritesText, SendsAttachments,
                 Flushes, TellsFileRead, WakesFromTail, RequestFails, callVars
  <2>2. step' \notin {"more", "drop"}
    BY <1>10 DEF Begins, Selects, BreaksOnFatal, WritesText, SendsAttachments,
                 AfterWrite, Flushes, TellsFileRead, WakesFromTail,
                 RequestFails
  <2> QED
    BY <2>1, <2>2, StillParsed
<1>11. CASE Tracks \/ TrackFails \/ Aborts \/ Closes \/ StateEnds
  BY <1>11, StillParsed
     DEF Tracks, TrackFails, Aborts, Closes, StateEnds, callVars
<1>12. CASE UNCHANGED vars
  BY <1>12, StillParsed DEF vars, callVars
<1> QED
  BY <1>1, <1>2, <1>3, <1>4, <1>5, <1>6, <1>7, <1>8, <1>9, <1>10, <1>11,
     <1>12
     DEF Next, Loop, Produces, ProduceNext, Environment

\* Of a file that only grows by whole messages, none longer than the minimum of
\* the buffer, no message is left behind, whatever the parser says of the bytes
\* between them and however many bytes a read returns, unless the read of the
\* rest of that very message fails.
THEOREM NoMessageIsSkipped ==
    ASSUME WellBehaved
    PROVE  Spec => []NoMessageSkipped
<1>1. Init => WindowInv /\ ResyncInv
  BY WindowInit, ResyncInit
<1>2. WindowInv /\ ResyncInv /\ [Next]_vars => (WindowInv /\ ResyncInv)'
  BY WindowStep, ResyncStep
<1>3. ResyncInv => NoMessageSkipped
  BY DEF ResyncInv
<1> QED
  BY <1>1, <1>2, <1>3, PTL DEF Spec

-----------------------------------------------------------------------------
(* The order of the file.                                                   *)

\* q holds the messages of S in the order of the file.
IsOrder(q, S) ==
    /\ q \in [1 .. Cardinality(S) -> S]
    /\ \A i, j \in 1 .. Cardinality(S) : i < j => q[i].at < q[j].at

\* The messages of S before m.
Before(S, m) == {x \in S : x.at < m.at}

\* No two messages begin at the same byte.
LEMMA BeginningsDiffer ==
    ASSUME NEW m \in Messages, NEW k \in Messages, m.at = k.at
    PROVE  m = k
<1>1. m.at \in Bytes(m) /\ k.at \in Bytes(k)
  BY MessagesAreInFile DEF Bytes
<1> QED
  BY <1>1, MessagesAreApart

\* There are more messages before a later one.
LEMMA RanksIncrease ==
    ASSUME NEW S \in SUBSET Messages, IsFiniteSet(S), NEW m \in S, NEW k \in S
    PROVE  /\ Cardinality(Before(S, m)) \in 0 .. Cardinality(S) - 1
           /\ m.at < k.at => Cardinality(Before(S, m)) < Cardinality(Before(S, k))
<1>1. \A x \in S : x.at \in Nat
  BY MessagesAreInFile
<1>2. ASSUME NEW x \in S
      PROVE  Before(S, x) \in SUBSET S /\ x \notin Before(S, x)
  BY <1>1 DEF Before
<1>3. ASSUME NEW x \in S
      PROVE  IsFiniteSet(Before(S, x)) /\ Cardinality(Before(S, x)) \in Nat
  BY <1>2, FS_Subset, FS_CardinalityType
<1>4. Cardinality(S) \in Nat
  BY FS_CardinalityType
<1>5. Cardinality(Before(S, m)) \in 0 .. Cardinality(S) - 1
  <2>1. /\ Cardinality(Before(S, m)) <= Cardinality(S)
        /\ Cardinality(S) = Cardinality(Before(S, m)) => S = Before(S, m)
    BY <1>2, FS_Subset
  <2>2. S # Before(S, m)
    BY <1>2
  <2> QED
    BY <1>3, <1>4, <2>1, <2>2
<1>6. ASSUME m.at < k.at
      PROVE  Cardinality(Before(S, m)) < Cardinality(Before(S, k))
  <2>1. Before(S, m) \in SUBSET Before(S, k) /\ m \in Before(S, k)
    BY <1>1, <1>6 DEF Before
  <2>2. Before(S, m) # Before(S, k)
    BY <1>2, <2>1
  <2>3. /\ Cardinality(Before(S, m)) <= Cardinality(Before(S, k))
        /\ Cardinality(Before(S, k)) = Cardinality(Before(S, m)) =>
             Before(S, k) = Before(S, m)
    BY <1>3, <2>1, FS_Subset
  <2> QED
    BY <1>3, <2>2, <2>3
<1> QED
  BY <1>5, <1>6

\* A finite set of messages has an order.
LEMMA OrderExists ==
    ASSUME NEW S \in SUBSET Messages, IsFiniteSet(S)
    PROVE  \E q : IsOrder(q, S)
<1> DEFINE n == Cardinality(S)
           rank == [m \in S |-> Cardinality(Before(S, m)) + 1]
           q == [i \in 1 .. n |-> CHOOSE m \in S : rank[m] = i]
<1>1. n \in Nat /\ IsFiniteSet(1 .. n) /\ Cardinality(1 .. n) = n
  BY FS_CardinalityType, FS_Interval
<1>2. ASSUME NEW m \in S
      PROVE  Cardinality(Before(S, m)) \in 0 .. n - 1 /\ rank[m] \in 1 .. n
  BY <1>1, RanksIncrease
<1>3. ASSUME NEW m \in S, NEW k \in S, m.at < k.at
      PROVE  rank[m] < rank[k]
  BY <1>2, <1>3, RanksIncrease
<1>4. ASSUME NEW m \in S, NEW k \in S, m # k
      PROVE  m.at < k.at \/ k.at < m.at
  <2>1. m.at \in Nat /\ k.at \in Nat /\ m.at # k.at
    BY <1>4, BeginningsDiffer, MessagesAreInFile
  <2> QED
    BY <2>1
<1>5. \A m, k \in S : rank[m] = rank[k] => m = k
  <2> SUFFICES ASSUME NEW m \in S, NEW k \in S, m # k PROVE rank[m] # rank[k]
    OBVIOUS
  <2>1. rank[m] < rank[k] \/ rank[k] < rank[m]
    BY <1>3, <1>4
  <2>2. rank[m] \in Int /\ rank[k] \in Int
    BY <1>2
  <2> HIDE DEF rank
  <2> QED
    BY <2>1, <2>2
<1>6. rank \in Injection(S, 1 .. n)
  <2>1. rank \in [S -> 1 .. n]
    BY <1>2
  <2> HIDE DEF rank
  <2> QED
    BY <1>5, <2>1 DEF Injection, IsInjective
<1>7. \A i \in 1 .. n : \E m \in S : rank[m] = i
  <2> HIDE DEF rank
  <2>1. rank \in Surjection(S, 1 .. n)
    BY <1>1, <1>6, FS_Injection
  <2> QED
    BY <2>1 DEF Surjection
<1>8. \A i \in 1 .. n : q[i] \in S /\ rank[q[i]] = i
  <2> HIDE DEF rank
  <2> QED
    BY <1>7
<1> HIDE DEF rank
<1>9. q \in [1 .. n -> S]
  BY <1>8
<1> HIDE DEF q
<1>10. \A i, j \in 1 .. n : i < j => q[i].at < q[j].at
  <2> SUFFICES ASSUME NEW i \in 1 .. n, NEW j \in 1 .. n, i < j
               PROVE  q[i].at < q[j].at
    OBVIOUS
  <2>1. q[i] \in S /\ q[j] \in S /\ rank[q[i]] = i /\ rank[q[j]] = j
    BY <1>8
  <2>2. q[i] # q[j]
    BY <1>1, <2>1
  <2>3. ~(q[j].at < q[i].at)
    BY <1>1, <1>3, <2>1
  <2> QED
    BY <1>4, <2>1, <2>2, <2>3
<1>11. IsOrder(q, S)
  BY <1>9, <1>10 DEF IsOrder
<1> QED
  BY <1>11

\* An order has every message of the set, and behind as many others as there
\* are before it in the file.
LEMMA OrderRanks ==
    ASSUME NEW S \in SUBSET Messages, IsFiniteSet(S), NEW q, IsOrder(q, S)
    PROVE  /\ \A m \in S : \E i \in 1 .. Cardinality(S) : q[i] = m
           /\ \A i \in 1 .. Cardinality(S) : Cardinality(Before(S, q[i])) = i - 1
<1> DEFINE n == Cardinality(S)
<1>1. n \in Nat /\ IsFiniteSet(1 .. n) /\ Cardinality(1 .. n) = n
  BY FS_CardinalityType, FS_Interval
<1>2. /\ q \in [1 .. n -> S]
      /\ \A i, j \in 1 .. n : i < j => q[i].at < q[j].at
  BY DEF IsOrder
<1>3. \A m \in S : m.at \in Nat
  BY MessagesAreInFile
<1> HIDE DEF n
<1>4. \A i, j \in 1 .. n : q[i] = q[j] => i = j
  <2> SUFFICES ASSUME NEW i \in 1 .. n, NEW j \in 1 .. n, q[i] = q[j], i # j
               PROVE  FALSE
    OBVIOUS
  <2>1. q[i].at \in Nat /\ q[j].at \in Nat
    BY <1>2, <1>3
  <2>2. i < j \/ j < i
    BY <1>1
  <2> QED
    BY <1>2, <2>1, <2>2
<1>5. q \in Injection(1 .. n, S)
  BY <1>2, <1>4 DEF Injection, IsInjective
<1>6. q \in Surjection(1 .. n, S)
  BY <1>1, <1>5, FS_Injection DEF n
<1>7. \A m \in S : \E i \in 1 .. n : q[i] = m
  BY <1>6 DEF Surjection
<1>8. ASSUME NEW i \in 1 .. n
      PROVE  Cardinality(Before(S, q[i])) = i - 1
  <2> DEFINE f == [j \in 1 .. i - 1 |-> q[j]]
             B == Before(S, q[i])
  <2>1. i - 1 \in Nat /\ IsFiniteSet(1 .. i - 1) /\ Cardinality(1 .. i - 1) = i - 1
    BY <1>1, FS_Interval
  <2>2. \A j \in 1 .. i - 1 : j \in 1 .. n /\ j < i
    BY <1>1
  <2>3. f \in [1 .. i - 1 -> B]
    BY <1>2, <2>2 DEF Before
  <2>4. \A j, k \in 1 .. i - 1 : f[j] = f[k] => j = k
    BY <1>4, <2>2
  <2>5. \A m \in B : \E j \in 1 .. i - 1 : f[j] = m
    <3> SUFFICES ASSUME NEW m \in B PROVE \E j \in 1 .. i - 1 : f[j] = m
      OBVIOUS
    <3>1. m \in S /\ m.at < q[i].at
      BY DEF Before
    <3>2. PICK j \in 1 .. n : q[j] = m
      BY <1>7, <3>1
    <3>3. q[j].at \in Nat /\ q[i].at \in Nat
      BY <1>2, <1>3
    <3>4. ~(i < j) /\ i # j
      BY <1>2, <3>1, <3>2, <3>3
    <3>5. j \in 1 .. i - 1
      BY <1>1, <3>2, <3>4
    <3> QED
      BY <3>2, <3>5
  <2> HIDE DEF f, B
  <2>6. f \in Bijection(1 .. i - 1, B)
    BY <2>3, <2>4, <2>5 DEF Bijection, Injection, IsInjective, Surjection
  <2>7. Cardinality(B) = Cardinality(1 .. i - 1)
    BY <2>1, <2>6, FS_Bijection DEF ExistsBijection
  <2> QED
    BY <2>1, <2>7 DEF B
<1> QED
  BY <1>7, <1>8 DEF n

\* InFileOrder is the one order of a finite set of messages.
LEMMA OneOrder ==
    ASSUME NEW S \in SUBSET Messages, IsFiniteSet(S)
    PROVE  /\ IsOrder(InFileOrder(S), S)
           /\ \A q : IsOrder(q, S) => q = InFileOrder(S)
<1> DEFINE n == Cardinality(S)
<1>1. IsOrder(InFileOrder(S), S)
  <2>1. PICK q : IsOrder(q, S)
    BY OrderExists
  <2> QED
    BY <2>1 DEF IsOrder, InFileOrder
<1>2. ASSUME NEW p, IsOrder(p, S), NEW q, IsOrder(q, S)
      PROVE  p = q
  <2>1. p \in [1 .. n -> S] /\ q \in [1 .. n -> S]
    BY <1>2 DEF IsOrder
  <2>2. ASSUME NEW i \in 1 .. n PROVE p[i] = q[i]
    <3>1. /\ Cardinality(Before(S, p[i])) = i - 1
          /\ Cardinality(Before(S, q[i])) = i - 1
      BY <1>2, OrderRanks
    <3>2. p[i] \in S /\ q[i] \in S
      BY <2>1
    <3>3. p[i].at \in Nat /\ q[i].at \in Nat
      BY <3>2, MessagesAreInFile
    <3>4. ASSUME NEW m \in S, NEW k \in S, m.at < k.at,
                 Cardinality(Before(S, m)) = i - 1, Cardinality(Before(S, k)) = i - 1
          PROVE  FALSE
      <4>1. Cardinality(Before(S, m)) < Cardinality(Before(S, k))
        BY <3>4, RanksIncrease
      <4>2. i - 1 \in Int
        BY FS_CardinalityType
      <4> QED
        BY <3>4, <4>1, <4>2
    <3>5. p[i].at = q[i].at
      BY <3>1, <3>2, <3>3, <3>4
    <3> QED
      BY <3>2, <3>5, BeginningsDiffer
  <2> HIDE DEF n
  <2>3. p = [i \in 1 .. n |-> p[i]] /\ q = [i \in 1 .. n |-> q[i]]
    BY <2>1
  <2>4. [i \in 1 .. n |-> p[i]] = [i \in 1 .. n |-> q[i]]
    BY <2>2
  <2> QED
    BY <2>3, <2>4
<1> QED
  BY <1>1, <1>2

\* An order is a sequence of the messages of the set.
LEMMA OrderIsSeq ==
    ASSUME NEW S \in SUBSET Messages, IsFiniteSet(S)
    PROVE  /\ InFileOrder(S) \in Seq(Messages)
           /\ Len(InFileOrder(S)) = Cardinality(S)
           /\ \A i \in 1 .. Cardinality(S) : InFileOrder(S)[i] \in S
           /\ \A m \in S : \E i \in 1 .. Cardinality(S) : InFileOrder(S)[i] = m
<1> DEFINE q == InFileOrder(S)
           n == Cardinality(S)
<1>1. IsOrder(q, S) /\ n \in Nat
  BY OneOrder, FS_CardinalityType
<1>2. \A m \in S : \E i \in 1 .. n : q[i] = m
  BY <1>1, OrderRanks
<1>3. q \in [1 .. n -> S]
  BY <1>1 DEF IsOrder
<1> HIDE DEF q, n
<1>4. q \in Seq(Messages) /\ Len(q) = n
  BY <1>1, <1>3
<1> QED
  BY <1>2, <1>3, <1>4 DEF q, n

\* Nothing has no order but the empty one.
LEMMA NothingInOrder == InFileOrder({}) = <<>>
<1>1. InFileOrder({}) \in Seq(Messages) /\ Len(InFileOrder({})) = 0
  BY OrderIsSeq, FS_EmptySet
<1> QED
  BY <1>1

\* What lies behind in the file comes behind in the order.
LEMMA OrdersJoin ==
    ASSUME NEW S \in SUBSET Messages, NEW T \in SUBSET Messages,
           IsFiniteSet(S), IsFiniteSet(T), \A x \in S, y \in T : x.at < y.at
    PROVE  InFileOrder(S \cup T) = InFileOrder(S) \o InFileOrder(T)
<1> DEFINE p == InFileOrder(S)
           q == InFileOrder(T)
           a == Cardinality(S)
           b == Cardinality(T)
<1>1. /\ p \in Seq(Messages) /\ Len(p) = a /\ q \in Seq(Messages) /\ Len(q) = b
      /\ \A i \in 1 .. a : p[i] \in S
      /\ \A i \in 1 .. b : q[i] \in T
  BY OrderIsSeq
<1>2. /\ \A i, j \in 1 .. a : i < j => p[i].at < p[j].at
      /\ \A i, j \in 1 .. b : i < j => q[i].at < q[j].at
  BY OneOrder DEF IsOrder
<1>3. a \in Nat /\ b \in Nat
  BY FS_CardinalityType
<1>4. IsFiniteSet(S \cup T) /\ Cardinality(S \cup T) = a + b
  <2>1. S \cap T = {}
    <3> SUFFICES ASSUME NEW x \in S, x \in T PROVE FALSE
      OBVIOUS
    <3>1. x.at < x.at /\ x.at \in Nat
      BY MessagesAreInFile
    <3> QED
      BY <3>1
  <2>2. Cardinality(S \cap T) = 0
    BY <2>1, FS_EmptySet
  <2>3. /\ IsFiniteSet(S \cup T)
        /\ Cardinality(S \cup T) = a + b - Cardinality(S \cap T)
    BY FS_Union
  <2> QED
    BY <1>3, <2>2, <2>3
<1> HIDE DEF p, q, a, b
<1> DEFINE pq == p \o q
<1>5. /\ pq \in Seq(Messages) /\ Len(pq) = a + b
      /\ \A i \in 1 .. a + b : pq[i] = IF i <= a THEN p[i] ELSE q[i - a]
  BY <1>1, ConcatProperties
<1> HIDE DEF pq
<1>6. ASSUME NEW i \in 1 .. a + b
      PROVE  IF i <= a THEN i \in 1 .. a ELSE i - a \in 1 .. b
  BY <1>3
<1>7. ASSUME NEW i \in 1 .. a + b
      PROVE  pq[i] = IF i <= a THEN p[i] ELSE q[i - a]
  BY <1>5
<1>8. \A i \in 1 .. a + b : pq[i] \in S \cup T
  BY <1>1, <1>6, <1>7
<1>9. pq \in [1 .. a + b -> S \cup T]
  <2>1. DOMAIN pq = 1 .. a + b /\ pq = [i \in 1 .. a + b |-> pq[i]]
    BY <1>5
  <2> QED
    BY <1>8, <2>1
<1>10. \A i, j \in 1 .. a + b : i < j => pq[i].at < pq[j].at
  <2> SUFFICES ASSUME NEW i \in 1 .. a + b, NEW j \in 1 .. a + b, i < j
               PROVE  pq[i].at < pq[j].at
    OBVIOUS
  <2>1. CASE j <= a
    <3>1. i \in 1 .. a /\ j \in 1 .. a /\ i <= a
      BY <1>3, <2>1
    <3>2. p[i].at < p[j].at
      BY <1>2, <3>1
    <3> QED
      BY <1>7, <2>1, <3>1, <3>2
  <2>2. CASE ~(i <= a)
    <3>1. i - a \in 1 .. b /\ j - a \in 1 .. b /\ ~(j <= a) /\ i - a < j - a
      BY <1>3, <2>2
    <3>2. q[i - a].at < q[j - a].at
      BY <1>2, <3>1
    <3> QED
      BY <1>7, <2>2, <3>1, <3>2
  <2>3. CASE i <= a /\ ~(j <= a)
    <3>1. pq[i] \in S /\ pq[j] \in T
      BY <1>1, <1>6, <1>7, <2>3
    <3> QED
      BY <3>1
  <2>4. j <= a \/ ~(i <= a) \/ (i <= a /\ ~(j <= a))
    BY <1>3
  <2> QED
    BY <2>1, <2>2, <2>3, <2>4
<1>11. IsOrder(pq, S \cup T)
  BY <1>4, <1>9, <1>10 DEF IsOrder
<1>12. pq = InFileOrder(S \cup T)
  BY <1>4, <1>11, OneOrder
<1> QED
  BY <1>12 DEF pq, p, q

-----------------------------------------------------------------------------
(* The rows.                                                                *)

\* Only messages that were consumed were parsed, and what was parsed is in the
\* session or on its way there.
RowsInv ==
    /\ parsed \in SUBSET Messages
    /\ \A m \in parsed : m.at + m.len <= consumed
    /\ collected \in [text : Seq(Messages), attachments : Seq(Messages)]
    /\ session \in [rows : Seq(Messages), shown : Seq(Messages),
                    attachments : Seq(Messages)]
    /\ RowsFollowTheFile

\* There are finitely many messages before an offset of the file.
LEMMA FewMessages ==
    ASSUME NEW e \in Nat, NEW S \in SUBSET Messages,
           \A m \in S : m.at + m.len <= e
    PROVE  IsFiniteSet(S)
<1> DEFINE f == [m \in S |-> m.at]
<1>1. \A m \in S : m.at \in 0 .. e
  BY MessagesAreInFile
<1>2. \A m, k \in S : f[m] = f[k] => m = k
  BY BeginningsDiffer
<1>3. f \in [S -> 0 .. e]
  BY <1>1
<1> HIDE DEF f
<1>4. f \in Injection(S, 0 .. e)
  BY <1>2, <1>3 DEF Injection, IsInjective
<1>5. IsFiniteSet(0 .. e)
  BY FS_Interval
<1> QED
  BY <1>4, <1>5, FS_Injection

\* Initially nothing was parsed.
LEMMA RowsInit == Init => RowsInv
<1> SUFFICES ASSUME Init PROVE RowsInv
  OBVIOUS
<1>1. /\ parsed = {}
      /\ collected = [text |-> <<>>, attachments |-> <<>>]
      /\ session = [rows |-> <<>>, shown |-> <<>>, attachments |-> <<>>]
  BY DEF Init, NothingCollected
<1>2. <<>> \in Seq(Messages) /\ <<>> \o <<>> = <<>>
  OBVIOUS
<1>3. Rows({}) = {} /\ Attachments({}) = {}
  BY DEF Rows, Attachments
<1>4. RowsFollowTheFile
  BY <1>1, <1>2, <1>3, NothingInOrder DEF RowsFollowTheFile
<1> QED
  BY <1>1, <1>2, <1>4 DEF RowsInv

\* Steps that neither parse nor write keep the rows.
LEMMA StillRows ==
    ASSUME RowsInv, consumed \in Nat, consumed' \in Nat, consumed <= consumed',
           UNCHANGED <<parsed, collected>>,
           session'.rows = session.rows, session'.attachments = session.attachments,
           session' \in [rows : Seq(Messages), shown : Seq(Messages),
                         attachments : Seq(Messages)],
           step = "failed" => step' = "failed"
    PROVE  RowsInv'
<1>1. \A m \in parsed : m.at + m.len <= consumed'
  <2> SUFFICES ASSUME NEW m \in parsed PROVE m.at + m.len <= consumed'
    OBVIOUS
  <2>1. m.at \in Nat /\ m.len \in Nat /\ m.at + m.len <= consumed
    BY MessagesAreInFile DEF RowsInv
  <2> QED
    BY <2>1
<1>2. RowsFollowTheFile'
  BY DEF RowsInv, RowsFollowTheFile
<1> QED
  BY <1>1, <1>2 DEF RowsInv

\* The items of a call are the next ones of the file.
LEMMA ItemsFollow ==
    ASSUME RowsInv, FileInv, FileInv', ParsesItems, UNCHANGED session
    PROVE  RowsInv'
<1> DEFINE items == ItemsIn(consumed, pos)
           text == collected.text
           attachments == collected.attachments
           rows == session.rows
           sent == session.attachments
<1>1. PICK n \in 1 .. Readable(buffer) :
          Taken(items) = consumed .. consumed + n - 1 /\ Consume(n)
  BY DEF ParsesItems
<1>2. /\ consumed' = consumed + n /\ parsed' = parsed \cup items
      /\ collected' = [text |-> text \o InFileOrder(Rows(items)),
                       attachments |-> attachments \o InFileOrder(Attachments(items))]
      /\ step = "parse"
  BY <1>1 DEF ParsesItems, Consume
<1>3. consumed \in Nat /\ consumed' \in Nat /\ n \in Nat
  BY <1>1 DEF FileInv, FileTypeOK, Buffers, Readable
<1>4. items \in SUBSET Messages /\ \A m \in items : m.at >= consumed
  BY DEF ItemsIn
<1>5. ASSUME NEW m \in items PROVE m.at + m.len <= consumed'
  <2>1. m.at \in Nat /\ m.len \in Nat \ {0}
    BY <1>4, MessagesAreInFile
  <2>2. m.at + m.len - 1 \in Bytes(m)
    BY <2>1 DEF Bytes
  <2>3. m.at + m.len - 1 \in Taken(items)
    BY <2>2 DEF Taken
  <2> QED
    BY <1>1, <1>2, <1>3, <2>1, <2>3
<1>6. ASSUME NEW m \in parsed
      PROVE  m \in Messages /\ m.at \in Nat /\ m.at < consumed /\ m.at + m.len <= consumed'
  <2>1. m \in Messages /\ m.at \in Nat /\ m.len \in Nat \ {0} /\ m.at + m.len <= consumed
    BY MessagesAreInFile DEF RowsInv
  <2> QED
    BY <1>2, <1>3, <2>1
<1> HIDE DEF items
<1>7. ASSUME NEW S \in SUBSET parsed, NEW T \in SUBSET items
      PROVE  /\ InFileOrder(S \cup T) = InFileOrder(S) \o InFileOrder(T)
             /\ InFileOrder(S) \in Seq(Messages) /\ InFileOrder(T) \in Seq(Messages)
  <2>1. S \in SUBSET Messages /\ T \in SUBSET Messages
    BY <1>4, <1>6
  <2>2. IsFiniteSet(S) /\ IsFiniteSet(T)
    <3>1. \A m \in S : m.at + m.len <= consumed'
      BY <1>6
    <3>2. \A m \in T : m.at + m.len <= consumed'
      BY <1>5
    <3> QED
      BY <1>3, <2>1, <3>1, <3>2, FewMessages
  <2>3. \A x \in S, y \in T : x.at < y.at
    <3> SUFFICES ASSUME NEW x \in S, NEW y \in T PROVE x.at < y.at
      OBVIOUS
    <3>1. x.at \in Nat /\ x.at < consumed /\ y.at >= consumed /\ y.at \in Nat
      BY <1>4, <1>6, <2>1, MessagesAreInFile
    <3> QED
      BY <1>3, <3>1
  <2> QED
    BY <2>1, <2>2, <2>3, OrdersJoin, OrderIsSeq
<1>8. /\ Rows(parsed) \in SUBSET parsed /\ Rows(items) \in SUBSET items
      /\ Attachments(parsed) \in SUBSET parsed /\ Attachments(items) \in SUBSET items
      /\ Rows(parsed \cup items) = Rows(parsed) \cup Rows(items)
      /\ Attachments(parsed \cup items) = Attachments(parsed) \cup Attachments(items)
  BY DEF Rows, Attachments
<1>9. /\ text \in Seq(Messages) /\ attachments \in Seq(Messages)
      /\ rows \in Seq(Messages) /\ sent \in Seq(Messages)
      /\ rows \o text = InFileOrder(Rows(parsed))
      /\ sent \o attachments = InFileOrder(Attachments(parsed))
  BY <1>2 DEF RowsInv, RowsFollowTheFile
<1> DEFINE R == InFileOrder(Rows(items))
           A == InFileOrder(Attachments(items))
<1>10. /\ R \in Seq(Messages) /\ A \in Seq(Messages)
       /\ InFileOrder(Rows(parsed')) = InFileOrder(Rows(parsed)) \o R
       /\ InFileOrder(Attachments(parsed')) = InFileOrder(Attachments(parsed)) \o A
  BY <1>2, <1>7, <1>8
<1>11. /\ text \o R \in Seq(Messages) /\ attachments \o A \in Seq(Messages)
       /\ rows \o (text \o R) = (rows \o text) \o R
       /\ sent \o (attachments \o A) = (sent \o attachments) \o A
  <2>1. /\ rows \in Seq(Messages) /\ text \in Seq(Messages) /\ R \in Seq(Messages)
        /\ sent \in Seq(Messages) /\ attachments \in Seq(Messages) /\ A \in Seq(Messages)
    BY <1>9, <1>10
  <2> HIDE DEF R, A, rows, text, sent, attachments
  <2>2. text \o R \in Seq(Messages) /\ attachments \o A \in Seq(Messages)
    BY <2>1, ConcatProperties
  <2>3. (rows \o text) \o R = rows \o (text \o R)
    <3>1. rows \in Seq(Messages) /\ text \in Seq(Messages) /\ R \in Seq(Messages)
      BY <2>1
    <3> QED
      BY <3>1, ConcatAssociative
  <2>4. (sent \o attachments) \o A = sent \o (attachments \o A)
    <3>1. sent \in Seq(Messages) /\ attachments \in Seq(Messages) /\ A \in Seq(Messages)
      BY <2>1
    <3> QED
      BY <3>1, ConcatAssociative
  <2> QED
    BY <2>2, <2>3, <2>4
<1>12. RowsFollowTheFile'
  <2>1. /\ session'.rows = rows /\ session'.attachments = sent
        /\ collected'.text = text \o R /\ collected'.attachments = attachments \o A
        /\ session' = session
    BY <1>2
  <2>2. /\ session'.rows \o collected'.text = InFileOrder(Rows(parsed'))
        /\ session'.attachments \o collected'.attachments = InFileOrder(Attachments(parsed'))
    BY <1>9, <1>10, <1>11, <2>1
  <2>3. \A i \in DOMAIN session.attachments :
          session.attachments[i].kind = "both" =>
            \E j \in DOMAIN session.rows : session.rows[j] = session.attachments[i]
    BY DEF RowsInv, RowsFollowTheFile
  <2> QED
    BY <2>1, <2>2, <2>3 DEF RowsFollowTheFile, Rows, Attachments
<1>13. parsed' \in SUBSET Messages /\ \A m \in parsed' : m.at + m.len <= consumed'
  BY <1>2, <1>4, <1>5, <1>6
<1>14. collected' \in [text : Seq(Messages), attachments : Seq(Messages)]
  BY <1>2, <1>11
<1> QED
  BY <1>12, <1>13, <1>14 DEF RowsInv

\* The text that is written becomes rows, and what was there stays.
LEMMA TextBecomesRows ==
    ASSUME RowsInv, WritesText
    PROVE  RowsInv'
<1> DEFINE text == collected.text
           attachments == collected.attachments
           rows == session.rows
           sent == session.attachments
           shown == session.shown
<1>1. /\ text \in Seq(Messages) /\ attachments \in Seq(Messages)
      /\ rows \in Seq(Messages) /\ sent \in Seq(Messages)
      /\ shown \in Seq(Messages)
      /\ collected = [text |-> text, attachments |-> attachments]
      /\ session = [rows |-> rows, shown |-> shown, attachments |-> sent]
      /\ UNCHANGED <<parsed, consumed, step>>
      /\ step # "failed"
  BY DEF RowsInv, WritesText, fileVars
<1>2. /\ collected' = [text |-> <<>>, attachments |-> attachments]
  BY <1>1 DEF WritesText
<1> DEFINE more == rows \o text
<1>3. more \in Seq(Messages)
  BY <1>1, ConcatProperties
<1>4. \/ session' = [rows |-> more, shown |-> shown, attachments |-> sent]
      \/ session' = [rows |-> more, shown |-> more, attachments |-> sent]
  <2>1. session' \in RowsWritten(text)
    BY DEF WritesText
  <2>2. [session EXCEPT !.rows = @ \o text] =
          [rows |-> more, shown |-> shown, attachments |-> sent]
    <3>1. [session EXCEPT !.rows = more] =
            [rows |-> more, shown |-> shown, attachments |-> sent]
      <4> HIDE DEF rows, shown, sent, text, more
      <4> QED
        BY <1>1
    <3> QED
      BY <3>1
  <2> QED
    BY <2>1, <2>2 DEF RowsWritten
<1>5. /\ session'.rows = more /\ session'.attachments = sent
      /\ session' \in [rows : Seq(Messages), shown : Seq(Messages),
                       attachments : Seq(Messages)]
  <2> HIDE DEF rows, shown, sent, text, more
  <2> QED
    BY <1>1, <1>3, <1>4
<1>6. /\ more \o <<>> = more /\ <<>> \in Seq(Messages)
  <2> HIDE DEF more
  <2> QED
    BY <1>3
<1>7. /\ more = InFileOrder(Rows(parsed))
      /\ sent \o attachments = InFileOrder(Attachments(parsed))
  BY <1>1 DEF RowsInv, RowsFollowTheFile
<1>8. ASSUME NEW i \in DOMAIN sent, sent[i].kind = "both"
      PROVE  \E j \in DOMAIN more : more[j] = sent[i]
  <2>1. PICK j \in DOMAIN rows : rows[j] = sent[i]
    BY <1>8 DEF RowsInv, RowsFollowTheFile
  <2>2. /\ j \in 1 .. Len(rows) /\ Len(rows) \in Nat /\ Len(text) \in Nat
    BY <1>1, <2>1
  <2> HIDE DEF rows, text
  <2>3. /\ Len(more) = Len(rows) + Len(text) /\ more[j] = rows[j]
        /\ DOMAIN more = 1 .. Len(more)
    <3>1. /\ more \in Seq(Messages) /\ Len(more) = Len(rows) + Len(text)
          /\ \A k \in 1 .. Len(rows) + Len(text) :
               more[k] = IF k <= Len(rows) THEN rows[k] ELSE text[k - Len(rows)]
      BY <1>1, ConcatProperties
    <3>2. j \in 1 .. Len(rows) + Len(text) /\ j <= Len(rows)
      BY <2>2
    <3> HIDE DEF more
    <3> QED
      BY <3>1, <3>2
  <2>4. j \in DOMAIN more
    BY <2>2, <2>3
  <2> QED
    BY <2>1, <2>3, <2>4
<1>9. RowsFollowTheFile'
  <2> HIDE DEF more, sent, attachments, rows, text
  <2> QED
    BY <1>1, <1>2, <1>5, <1>6, <1>7, <1>8 DEF RowsFollowTheFile, Rows, Attachments
<1> QED
  BY <1>1, <1>2, <1>5, <1>6, <1>9 DEF RowsInv

\* Attachments are sent when all rows are there.
LEMMA AttachmentsAreSent ==
    ASSUME RowsInv, consumed \in Nat, SendsAttachments
    PROVE  RowsInv'
<1> DEFINE attachments == collected.attachments
           rows == session.rows
           sent == session.attachments
           more == sent \o attachments
<1>1. /\ collected.text = <<>> /\ attachments \in Seq(Messages)
      /\ rows \in Seq(Messages) /\ sent \in Seq(Messages)
      /\ session.shown \in Seq(Messages)
      /\ session = [rows |-> rows, shown |-> session.shown, attachments |-> sent]
      /\ UNCHANGED <<parsed, consumed>>
      /\ step # "failed"
      /\ collected' = [text |-> <<>>, attachments |-> <<>>]
  BY DEF RowsInv, SendsAttachments, fileVars, NothingCollected
<1>2. session' = [rows |-> rows, shown |-> session.shown, attachments |-> more]
  BY <1>1 DEF SendsAttachments
<1>3. more \in Seq(Messages)
  BY <1>1, ConcatProperties
<1>4. rows = InFileOrder(Rows(parsed)) /\ more = InFileOrder(Attachments(parsed))
  <2>1. rows \o <<>> = InFileOrder(Rows(parsed)) /\ more = InFileOrder(Attachments(parsed))
    BY <1>1 DEF RowsInv, RowsFollowTheFile
  <2> HIDE DEF rows, more
  <2>2. rows \o <<>> = rows
    BY <1>1
  <2> QED
    BY <2>1, <2>2
<1>5. ASSUME NEW i \in DOMAIN more, more[i].kind = "both"
      PROVE  \E j \in DOMAIN rows : rows[j] = more[i]
  <2>1. /\ Rows(parsed) \in SUBSET Messages /\ Attachments(parsed) \in SUBSET Messages
        /\ \A m \in parsed : m.at + m.len <= consumed
    BY DEF RowsInv, Rows, Attachments
  <2>2. IsFiniteSet(Rows(parsed)) /\ IsFiniteSet(Attachments(parsed))
    <3>1. \A m \in Rows(parsed) : m.at + m.len <= consumed
      BY <2>1 DEF Rows
    <3>2. \A m \in Attachments(parsed) : m.at + m.len <= consumed
      BY <2>1 DEF Attachments
    <3> QED
      BY <2>1, <3>1, <3>2, FewMessages
  <2> HIDE DEF rows, more
  <2>3. /\ Len(rows) = Cardinality(Rows(parsed))
        /\ \A m \in Rows(parsed) : \E j \in 1 .. Cardinality(Rows(parsed)) : rows[j] = m
        /\ Len(more) = Cardinality(Attachments(parsed))
        /\ \A k \in 1 .. Cardinality(Attachments(parsed)) : more[k] \in Attachments(parsed)
    BY <1>4, <2>1, <2>2, OrderIsSeq
  <2>4. DOMAIN rows = 1 .. Len(rows) /\ DOMAIN more = 1 .. Len(more)
    BY <1>1, <1>3 DEF rows
  <2>5. more[i] \in Attachments(parsed)
    BY <2>3, <2>4
  <2>6. more[i] \in Rows(parsed)
    BY <1>5, <2>5 DEF Rows, Attachments
  <2> QED
    BY <2>3, <2>4, <2>6
<1>6. /\ rows \o <<>> = rows /\ more \o <<>> = more /\ <<>> \in Seq(Messages)
  <2>1. rows \in Seq(Messages)
    BY <1>1
  <2> HIDE DEF more, rows
  <2> QED
    BY <1>3, <2>1
<1>7. RowsFollowTheFile'
  <2> HIDE DEF more, sent, attachments, rows
  <2> QED
    BY <1>1, <1>2, <1>4, <1>5, <1>6 DEF RowsFollowTheFile, Rows, Attachments
<1>8. session' \in [rows : Seq(Messages), shown : Seq(Messages),
                    attachments : Seq(Messages)]
  BY <1>1, <1>2, <1>3
<1> QED
  BY <1>1, <1>6, <1>7, <1>8 DEF RowsInv

\* A request that fails costs the text that was on its way, and no row.
LEMMA FailureCostsNoRow ==
    ASSUME RowsInv, RequestFails
    PROVE  RowsInv'
<1>1. /\ step' = "failed" /\ UNCHANGED <<parsed, consumed, session>>
      /\ collected' = [collected EXCEPT !.text = <<>>]
  BY DEF RequestFails, fileVars, loopVars
<1>2. <<>> \in Seq(Messages)
  OBVIOUS
<1>3. collected' \in [text : Seq(Messages), attachments : Seq(Messages)]
  BY <1>1, <1>2 DEF RowsInv
<1>4. RowsFollowTheFile'
  BY <1>1 DEF RowsInv, RowsFollowTheFile
<1> QED
  BY <1>1, <1>3, <1>4 DEF RowsInv

\* Every step keeps the rows.
LEMMA RowsStep == WindowInv /\ WindowInv' /\ RowsInv /\ [Next]_vars => RowsInv'
<1> SUFFICES ASSUME WindowInv, WindowInv', RowsInv, [Next]_vars
             PROVE  RowsInv'
  OBVIOUS
<1>0. /\ consumed \in Nat /\ consumed' \in Nat /\ FileInv /\ FileInv'
      /\ session \in [rows : Seq(Messages), shown : Seq(Messages),
                      attachments : Seq(Messages)]
  BY DEF WindowInv, FileInv, FileTypeOK, RowsInv
<1>1. CASE (LoadsFirst \/ LoadsMore \/ Reloads) /\ UNCHANGED session
  <2>1. PICK n : Load(n)
    BY <1>1 DEF LoadsFirst, LoadsMore, Reloads
  <2>2. /\ UNCHANGED <<consumed, parsed, collected, session>> /\ step # "failed"
    BY <1>1, <2>1 DEF LoadsFirst, LoadsMore, Reloads, Load
  <2> QED
    BY <1>0, <2>2, StillRows
<1>2. CASE UNCHANGED session /\ ParsesItems
  BY <1>0, <1>2, ItemsFollow
<1>3. CASE DropsByte /\ UNCHANGED session
  <2>1. consumed' = consumed + 1 /\ UNCHANGED <<parsed, collected, session>> /\ step # "failed"
    BY <1>3 DEF DropsByte, Consume
  <2> QED
    BY <1>0, <2>1, StillRows
<1>4. CASE /\ HasNoBytes \/ SaysIncomplete \/ SaysParseError \/ SaysEof \/ SaysUnrecoverable
           /\ UNCHANGED session
  <2>1. UNCHANGED <<consumed, parsed, collected, session>> /\ step # "failed"
    BY <1>4 DEF HasNoBytes, SaysIncomplete, SaysParseError, SaysEof,
                SaysUnrecoverable, Says, fileVars
  <2> QED
    BY <1>0, <2>1, StillRows
<1>5. CASE WritesText
  BY <1>5, TextBecomesRows
<1>6. CASE SendsAttachments
  BY <1>0, <1>6, AttachmentsAreSent
<1>7. CASE RequestFails
  BY <1>7, FailureCostsNoRow
<1>8. CASE Flushes
  <2>1. /\ UNCHANGED <<consumed, parsed, collected>> /\ step # "failed"
        /\ session' = [session EXCEPT !.shown = session.rows]
    BY <1>8 DEF Flushes, fileVars
  <2>2. /\ session'.rows = session.rows /\ session'.attachments = session.attachments
        /\ session' \in [rows : Seq(Messages), shown : Seq(Messages),
                         attachments : Seq(Messages)]
    BY <1>0, <2>1
  <2> QED
    BY <1>0, <2>1, <2>2, StillRows
<1>9. CASE Begins \/ Selects \/ BreaksOnFatal \/ TellsFileRead \/ WakesFromTail
  <2>1. UNCHANGED <<consumed, parsed, collected, session>> /\ step # "failed"
    BY <1>9 DEF Begins, Selects, BreaksOnFatal, TellsFileRead, WakesFromTail,
                fileVars, loopVars
  <2> QED
    BY <1>0, <2>1, StillRows
<1>10. CASE Tracks \/ Environment \/ UNCHANGED vars
  <2>1. UNCHANGED <<consumed, parsed, collected, session, step>>
    BY <1>10 DEF Tracks, Environment, FileGrows, Grow, TrackFails, Aborts, Closes,
                 StateEnds, vars, fileVars, loopVars
  <2> QED
    BY <1>0, <2>1, StillRows
<1>11. Produces => UNCHANGED session
  BY DEF Produces, loopVars
<1> QED
  BY <1>1, <1>2, <1>3, <1>4, <1>5, <1>6, <1>7, <1>8, <1>9, <1>10, <1>11
     DEF Next, Loop, Produces, ProduceNext

\* Nothing that was parsed is lost, repeated or overtaken on its way into the
\* session, and no attachment comes before its row, whatever fails and whenever.
THEOREM RowsFollow == Spec => []RowsFollowTheFile
<1>1. Init => WindowInv /\ RowsInv
  BY WindowInit, RowsInit
<1>2. WindowInv /\ RowsInv /\ [Next]_vars => (WindowInv /\ RowsInv)'
  BY WindowStep, RowsStep
<1>3. RowsInv => RowsFollowTheFile
  BY DEF RowsInv
<1> QED
  BY <1>1, <1>2, <1>3, PTL DEF Spec
============================================================================
