---------------------------- MODULE BufferedFile ----------------------------
(***************************************************************************)
(* A growing file behind the buffer that its bytes are parsed from:        *)
(* DeqBuffer and BufReader (crates/bufread/src/lib.rs) under               *)
(* BinaryByteSource (crates/core/sources/src/binary/raw.rs).               *)
(*                                                                         *)
(* A byte is the offset in the file that it was read from, so a slot of    *)
(* the buffer says which byte it holds. The memory of a new buffer is not  *)
(* initialised: a slot that was never written holds Unwritten.             *)
(***************************************************************************)
EXTENDS Integers

CONSTANTS
    FileEnd,     \* bound: the file never grows beyond this offset
    Capacity,    \* DEFAULT_READER_CAPACITY
    Min,         \* DEFAULT_MIN_BUFFER_SPACE
    ShortReads,  \* may a read return less than there is room and data for?
    ReadMayFail  \* may a read fail?

ASSUME FileIsFinite == FileEnd \in Nat
ASSUME BufferHasRoom == Capacity \in Nat /\ Min \in 1 .. Capacity
ASSUME ReadsAreKnown == {ShortReads, ReadMayFail} \subseteq BOOLEAN

VARIABLES
    size,       \* the length of the file
    pos,        \* where the next read of the file starts
    buffer,     \* DeqBuffer: [slice, start, end]
    consumed,   \* history: how many bytes the parser is done with
    readFailed  \* history: did the last read fail?

fileVars == <<size, pos, buffer, consumed, readFailed>>

Unwritten == -1
Slots == 0 .. Capacity - 1
Buffers ==
    [slice : [Slots -> 0 .. FileEnd \cup {Unwritten}],
     start : 0 .. Capacity, end : 0 .. Capacity]
NewBuffer == [slice |-> [i \in Slots |-> Unwritten], start |-> 0, end |-> 0]

\* DeqBuffer::read_available and write_available.
Readable(b) == b.end - b.start
Writable(b) == Capacity - b.end

\* DeqBuffer::flush: what is left moves to the front; the slots behind it keep
\* what they hold.
Flushed(b) ==
    IF b.start = 0 THEN b
    ELSE [slice |-> [i \in Slots |-> IF i < Readable(b)
                                     THEN b.slice[b.start + i]
                                     ELSE b.slice[i]],
          start |-> 0, end |-> Readable(b)]

\* The n bytes of the file from offset o on are written behind the others.
Filled(b, o, n) ==
    [b EXCEPT !.slice = [i \in Slots |-> IF i \in b.end .. b.end + n - 1
                                         THEN o + (i - b.end)
                                         ELSE b.slice[i]],
              !.end = @ + n]

\* DeqBuffer::read_done: an empty buffer starts over at its front.
Read(b, n) ==
    LET s == IF b.start + n < b.end THEN b.start + n ELSE b.end
    IN  IF s = b.end THEN [b EXCEPT !.start = 0, !.end = 0]
                     ELSE [b EXCEPT !.start = s]

\* Slip: nothing is flushed.
PreparedNever(b) == b

\* BufReader::fill_buf flushes first when few bytes are left.
Prepared(b) == IF Readable(b) < Min THEN Flushed(b) ELSE b

\* How many bytes a read into `room` bytes may return when it does not fail: all
\* there are, or fewer, but none only when there is no room or nothing more in
\* the file.
ReadSizes(room) ==
    LET left == IF pos < size THEN size - pos ELSE 0
        most == IF room < left THEN room ELSE left
    IN  IF ShortReads /\ most > 0 THEN 1 .. most ELSE {most}

-----------------------------------------------------------------------------

FileInit ==
    /\ size \in 0 .. FileEnd
    /\ pos = 0
    /\ buffer = NewBuffer
    /\ consumed = 0
    /\ readFailed = FALSE

\* The program that writes the file appends to it.
Grow(n) ==
    /\ size + n <= FileEnd
    /\ size' = size + n
    /\ UNCHANGED <<pos, buffer, consumed, readFailed>>

\* BinaryByteSource::load, with n newly loaded bytes. fill_buf swallows the error
\* of a read that fails, which looks like the end of the file.
Load(n) ==
    /\ \/ n \in ReadSizes(Writable(Prepared(buffer))) /\ readFailed' = FALSE
       \/ ReadMayFail /\ n = 0 /\ readFailed' = TRUE
    /\ buffer' = Filled(Prepared(buffer), pos, n)
    /\ pos' = pos + n
    /\ UNCHANGED <<size, consumed>>

\* BinaryByteSource::consume.
Consume(n) ==
    /\ buffer' = Read(buffer, n)
    /\ consumed' = consumed + n
    /\ UNCHANGED <<size, pos, readFailed>>

-----------------------------------------------------------------------------

FileTypeOK ==
    /\ size \in 0 .. FileEnd
    /\ pos \in 0 .. FileEnd
    /\ buffer \in Buffers
    /\ consumed \in 0 .. FileEnd
    /\ readFailed \in BOOLEAN

\* What the parser is given is the part of the file behind what was consumed,
\* byte by byte, up to where the file was read: flushing, filling and starting
\* over neither lose, repeat nor reorder a byte, and no byte that was never
\* written is shown.
WindowIsFile ==
    /\ buffer.start <= buffer.end
    /\ pos = consumed + Readable(buffer)
    /\ \A i \in Slots :
        i \in buffer.start .. buffer.end - 1 =>
            buffer.slice[i] = consumed + (i - buffer.start)
=============================================================================
