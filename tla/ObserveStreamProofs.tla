------------------------ MODULE ObserveStreamProofs ------------------------
(***************************************************************************)
(* Proofs about ObserveStream, for every transport, every stream and every *)
(* parser, whichever calls of produce_next are dropped: the reconnecting   *)
(* task is always held by its reconnecter (EveryTaskIsHeld), and no byte,  *)
(* message or row is lost, repeated or overtaken (RowsFollowTheStream).    *)
(* What the two loops have in common with the reading of a file is proved  *)
(* in ObserveFileProofs.                                                   *)
(***************************************************************************)
EXTENDS ObserveStream, FiniteSetTheorems, SequenceTheorems, TLAPS

\* Only what is proved of the buffer, of the parser and of the order of messages
\* is used; it does not depend on the loop that reads the file.
File == INSTANCE ObserveFileProofs
            WITH WholeWrites <- FALSE, TrackMayFail <- FALSE, session <- rows,
                 stateUp <- TRUE, tracker <- 0, signal <- 0

-----------------------------------------------------------------------------
(* The reconnecting task.                                                   *)

TaskStates == {"none", "trying", "sleeping", "connected", "failed"}

\* Only TCP that reconnects has a task.
TaskInv ==
    /\ EveryTaskIsHeld
    /\ task \in [at : TaskStates, attempts : Nat]
    /\ handle \in BOOLEAN
    /\ handle => transport = "retcp"

\* A step of the producer changes the task when it spawns it or takes its
\* connection.
LEMMA TaskOfCall == TaskInv /\ ProduceFromStream => TaskInv'
<1> SUFFICES ASSUME TaskInv, ProduceFromStream PROVE TaskInv'
  OBVIOUS
<1>1. CASE SpawnsReconnect
  BY <1>1 DEF SpawnsReconnect, LoadsOfTcp, TaskInv, EveryTaskIsHeld, TaskStates
<1>2. CASE TakesConnection
  BY <1>2 DEF TakesConnection, TaskInv, EveryTaskIsHeld, NoTask, TaskStates
<1>3. CASE UNCHANGED <<transport, handle, task>>
  BY <1>3 DEF TaskInv, EveryTaskIsHeld
<1> QED
  BY <1>1, <1>2, <1>3
     DEF ProduceFromStream, Loads, GivesUp, PortFails, reconnectVars

\* Every step of the loop, the task and the peers keeps the task with its
\* handle.
LEMMA TaskStep == TaskInv /\ [Next]_vars => TaskInv'
<1> SUFFICES ASSUME TaskInv, [Next]_vars PROVE TaskInv'
  OBVIOUS
<1>1. CASE Produces
  BY <1>1, TaskOfCall DEF Produces
<1>2. CASE (Returns \/ ToolReturns) /\ DropsSource /\ UNCHANGED transport
  BY <1>2 DEF DropsSource, TaskInv, EveryTaskIsHeld, NoTask, TaskStates
<1>3. CASE TaskRuns
  <2>1. CASE Connects /\ UNCHANGED <<transport, handle>>
    <3>1. task.at = "trying" /\ task'.at # "none"
          /\ task' \in [at : TaskStates, attempts : Nat]
      BY <2>1 DEF Connects, TaskInv, TaskStates
    <3> QED
      BY <2>1, <3>1 DEF TaskInv, EveryTaskIsHeld
  <2>2. CASE ConnectFails /\ UNCHANGED <<transport, handle>>
    <3>1. task.at = "trying" /\ task'.at # "none"
          /\ task' \in [at : TaskStates, attempts : Nat]
      BY <2>2 DEF ConnectFails, TaskInv, TaskStates
    <3> QED
      BY <2>2, <3>1 DEF TaskInv, EveryTaskIsHeld
  <2>3. CASE TriesAgain /\ UNCHANGED <<transport, handle>>
    BY <2>3 DEF TriesAgain, TaskInv, EveryTaskIsHeld, TaskStates
  <2> QED
    BY <1>3, <2>1, <2>2, <2>3
       DEF TaskRuns, Reconnects, Connects, ConnectFails, TriesAgain, peerVars
<1>4. CASE UNCHANGED <<transport, handle, task>>
  BY <1>4 DEF TaskInv, EveryTaskIsHeld
<1>5. CASE TimesOut \/ TakesRequest \/ SeesCancel \/ FlushTicks \/ UpdateTicks
           \/ HearsOfTask \/ Selects \/ Writes \/ BreaksOnFatal \/ WritesRecords
           \/ AnswersRequest \/ Environment \/ UNCHANGED vars
  <2>1. UNCHANGED <<transport, handle, task>>
    BY <1>5 DEF TimesOut, TakesRequest, SeesCancel, FlushTicks, UpdateTicks,
         CallIsDropped, HearsOfTask, Selects, Writes, BreaksOnFatal,
         WritesRecords, AnswersRequest, Environment, Asks, Cancels, Closing,
         Peers, ReadFails, sourceVars, reconnectVars, vars
  <2> QED
    BY <1>4, <2>1
<1>6. CASE Returns \/ ToolReturns
  BY <1>2, <1>6 DEF Returns, ToolReturns
<1> QED
  BY <1>1, <1>3, <1>5, <1>6 DEF Next, Loop

\* There is no task at first.
LEMMA TaskInit == Init => TaskInv
<1> SUFFICES ASSUME Init PROVE TaskInv
  OBVIOUS
<1>1. handle = FALSE /\ task = [at |-> "none", attempts |-> 0]
  BY DEF Init, StreamInit, NoTask
<1> QED
  BY <1>1 DEF TaskInv, EveryTaskIsHeld, TaskStates

\* There is a reconnecting task if and only if the reconnecter holds its handle,
\* whichever load a call is dropped in: spawn_reconnect never finds a task that
\* is still there, and none outlives its source.
THEOREM TaskHeld == Spec => []EveryTaskIsHeld
<1>1. Init => TaskInv
  BY TaskInit
<1>2. TaskInv /\ [Next]_vars => TaskInv'
  BY TaskStep
<1>3. TaskInv => EveryTaskIsHeld
  BY DEF TaskInv
<1> QED
  BY <1>1, <1>2, <1>3, PTL DEF Spec

-----------------------------------------------------------------------------
(* The window.                                                              *)

\* What the loop knows of what was read: the window, and that no more was read
\* than was sent.
FileInv ==
    /\ FileTypeOK
    /\ WindowIsFile
    /\ pos <= size

\* A byte is only dropped when there is one.
DropInv == step \in {"more", "drop"} => Readable(buffer) > 0

\* f adds up the chunks that wait behind what was read.
AddsUp(f) ==
    LET u == unread["out"]
    IN  /\ f \in [0 .. Len(u) -> Nat]
        /\ f[0] = pos /\ f[Len(u)] = size
        /\ \A i \in 1 .. Len(u) : f[i] = f[i - 1] + u[i]
        /\ \A i, j \in 0 .. Len(u) : i <= j => f[i] <= f[j]

\* What was sent and was not read waits on the pipes; lines are read whole.
UnreadInv ==
    /\ transport \in Transports
    /\ unread \in [Pipes -> Seq(Chunks)]
    /\ open \in SUBSET Used
    /\ emptied \in Nat
    /\ \A i \in 1 .. Len(unread["out"]) :
        unread["out"][i] = 0 => emptied > 0
    /\ IsSocket => \E f : AddsUp(f)
    /\ ~IsSocket =>
        /\ buffer.end <= pos
        /\ size <= MaxLines * LineLength
        /\ \E k \in Nat :
            /\ pos = k * LineLength
            /\ size = (k + Len(unread["out"]) + Len(unread["err"])) * LineLength

\* A stream of lines is not longer than the buffer: their sources make no room.
LinesFit ==
    \/ Transports \subseteq {"tcp", "retcp", "udp"}
    \/ MaxLines * LineLength <= Capacity

\* What is known of what was read and of what was sent.
WindowInv == FileInv /\ DropInv /\ UnreadInv

\* The assumptions of the lemmas about a file hold here.
LEMMA FileAssumptions ==
    /\ FileEnd \in Nat
    /\ Capacity \in Nat /\ Min \in 1 .. Capacity
    /\ {ShortReads, ReadMayFail} \subseteq BOOLEAN
    /\ Messages \subseteq [at : Nat, len : Nat \ {0}, kind : File!Kinds]
    /\ \A m, n \in Messages :
        m # n => File!Bytes(m) \cap File!Bytes(n) = {}
    /\ Errors \subseteq File!ParserErrors /\ ErrorLimit \in Nat
    /\ {FALSE, FALSE} \subseteq BOOLEAN
BY FileIsFinite, BufferHasRoom, ReadsAreKnown, MessagesAreInFile,
   MessagesAreApart, ErrorsAreKnown
   DEF Kinds, File!Kinds, Bytes, File!Bytes, ParserErrors, File!ParserErrors

\* What is known of the file there is what is known of the stream here.
LEMMA SameInv == FileInv <=> File!FileInv
BY DEF FileInv, FileTypeOK, WindowIsFile, Buffers, Slots, Readable, Unwritten,
       File!FileInv, File!FileTypeOK, File!WindowIsFile, File!Buffers,
       File!Slots, File!Readable, File!Unwritten

\* Flushing keeps the window and leaves all the room there is behind it.
LEMMA RoomLemma ==
    ASSUME FileInv
    PROVE  /\ Flushed(buffer) \in Buffers
           /\ Flushed(buffer).start <= Flushed(buffer).end
           /\ Readable(Flushed(buffer)) = Readable(buffer)
           /\ Writable(Flushed(buffer)) = Capacity - Readable(buffer)
           /\ \A i \in Slots :
               i \in Flushed(buffer).start .. Flushed(buffer).end - 1 =>
                   Flushed(buffer).slice[i] = consumed + (i - Flushed(buffer).start)
<1>1. File!FileInv
  BY SameInv
<1>2. /\ File!Shows(File!Flushed(buffer))
      /\ File!Writable(File!Flushed(buffer)) = Capacity - File!Readable(buffer)
  BY <1>1, FileAssumptions, File!FlushedLemma
<1>3. File!Flushed(buffer) = Flushed(buffer)
  BY DEF File!Flushed, Flushed, File!Slots, Slots, File!Readable, Readable
<1>4. File!Readable(buffer) = Readable(buffer) /\ File!Buffers = Buffers /\ File!Slots = Slots
  BY DEF File!Readable, Readable, File!Buffers, Buffers, File!Slots, Slots, File!Unwritten, Unwritten
<1> DEFINE b == Flushed(buffer)
<1> HIDE DEF b
<1>5. File!Shows(b) /\ File!Writable(b) = Capacity - Readable(buffer)
  BY <1>2, <1>3, <1>4 DEF b
<1>6. /\ b \in Buffers /\ b.start <= b.end /\ Readable(b) = Readable(buffer)
      /\ Writable(b) = Capacity - Readable(buffer)
      /\ \A i \in Slots :
               i \in b.start .. b.end - 1 =>
                   b.slice[i] = consumed + (i - b.start)
  BY <1>4, <1>5 DEF File!Shows, File!Writable, Writable, File!Readable, Readable
<1> QED
  BY <1>6 DEF b

\* Bytes that fit behind the window keep it.
LEMMA FillLemma ==
    ASSUME FileInv, NEW b \in {buffer, Flushed(buffer)},
           NEW n \in Nat, n <= Writable(b), pos + n <= size,
           buffer' = Filled(b, pos, n), pos' = pos + n,
           UNCHANGED <<size, consumed>>, readFailed' \in BOOLEAN
    PROVE  /\ FileInv'
           /\ Readable(buffer)' = Readable(buffer) + n
           /\ buffer'.end = b.end + n
<1>1. File!FileInv
  BY SameInv
<1>2. File!Flushed(buffer) = Flushed(buffer)
  BY DEF File!Flushed, Flushed, File!Slots, Slots, File!Readable, Readable
<1>3. b \in {buffer, File!Flushed(buffer)}
  BY <1>2
<1>4. buffer' = File!Filled(b, pos, n)
  BY DEF File!Filled, Filled, File!Slots, Slots
<1>5. n <= File!Writable(b)
  BY DEF File!Writable, Writable
<1>6. /\ File!FileInv'
      /\ File!Readable(buffer)' = File!Readable(buffer) + n
      /\ buffer'.end = b.end + n
  BY <1>1, <1>3, <1>4, <1>5, FileAssumptions, File!FilledLemma
<1>7. FileInv'
  BY <1>6 DEF FileInv, FileTypeOK, WindowIsFile, Buffers, Slots, Readable, Unwritten,
       File!FileInv, File!FileTypeOK, File!WindowIsFile, File!Buffers,
       File!Slots, File!Readable, File!Unwritten
<1> QED
  BY <1>6, <1>7 DEF File!Readable, Readable

\* Consuming what is in the window moves its front.
LEMMA ConsumedLemma ==
    ASSUME FileInv, NEW n \in Nat, n <= Readable(buffer), Consume(n)
    PROVE  /\ FileInv'
           /\ Readable(buffer)' = Readable(buffer) - n
           /\ buffer'.end <= buffer.end
<1>1. File!FileInv
  BY SameInv
<1>2. File!Consume(n) /\ n <= File!Readable(buffer)
  BY DEF File!Consume, Consume, File!Read, Read, File!Readable, Readable
<1>3. File!FileInv' /\ File!Readable(buffer)' = File!Readable(buffer) - n
  BY <1>1, <1>2, FileAssumptions, File!ConsumeLemma
<1>4. FileInv'
  BY <1>3 DEF FileInv, FileTypeOK, WindowIsFile, Buffers, Slots, Readable, Unwritten,
       File!FileInv, File!FileTypeOK, File!WindowIsFile, File!Buffers,
       File!Slots, File!Readable, File!Unwritten
<1>5. buffer'.end <= buffer.end
  <2>1. buffer.end \in Nat /\ buffer \in Buffers
    BY BufferHasRoom DEF FileInv, FileTypeOK, Buffers
  <2>2. buffer'.end = 0 \/ buffer'.end = buffer.end
    BY <2>1 DEF Consume, Read, Buffers
  <2> QED
    BY <2>1, <2>2
<1> QED
  BY <1>3, <1>4, <1>5 DEF File!Readable, Readable

-----------------------------------------------------------------------------
(* Loading.                                                                 *)

\* What is known of the constants and of the chunks.
LEMMA ChunkTypes ==
    /\ Capacity \in Nat /\ FileEnd \in Nat
    /\ Datagram \in 1 .. Capacity /\ LineLength \in 1 .. Capacity
    /\ MaxLines \in Nat
    /\ \A n \in Chunks : n \in 0 .. Capacity /\ (IsSocket => n <= Datagram)
    /\ ~IsSocket => Chunks = {LineLength}
    /\ IsSocket => Used = {"out"}
    /\ "out" \in Used /\ Used \subseteq Pipes
BY BufferHasRoom, FileIsFinite, ChunksFit DEF Chunks, IsSocket, Used, Pipes

\* The first chunk of a socket that waits is the next one of the stream.
LEMMA FirstOfSocket ==
    ASSUME FileInv, UnreadInv, IsSocket, unread["out"] # <<>>
    PROVE  /\ Head(unread["out"]) \in Chunks
           /\ pos + Head(unread["out"]) <= size
           /\ /\ size' = size /\ pos' = pos + Head(unread["out"])
              /\ unread'["out"] = Tail(unread["out"])
              => \E f : AddsUp(f)'
<1> DEFINE u == unread["out"]
           l == Len(u)
<1>1. PICK f : AddsUp(f)
  BY DEF UnreadInv
<1>2. /\ u \in Seq(Chunks) /\ u # <<>> /\ l \in Nat /\ l > 0
      /\ Head(u) = u[1] /\ Head(u) \in Chunks
      /\ Tail(u) \in Seq(Chunks) /\ Len(Tail(u)) = l - 1
      /\ \A i \in 1 .. l - 1 : Tail(u)[i] = u[i + 1]
  <2>1. u \in Seq(Chunks)
    BY DEF UnreadInv, Pipes
  <2> HIDE DEF u
  <2> QED
    BY <2>1, HeadTailProperties DEF u
<1>3. /\ f \in [0 .. l -> Nat] /\ f[0] = pos /\ f[l] = size
      /\ \A i \in 1 .. l : f[i] = f[i - 1] + u[i]
      /\ \A i, j \in 0 .. l : i <= j => f[i] <= f[j]
  BY <1>1 DEF AddsUp
<1>4. f[1] = pos + Head(u) /\ f[1] <= size
  <2>1. 1 \in 1 .. l /\ 1 \in 0 .. l /\ l \in 0 .. l /\ 1 <= l
    BY <1>2
  <2>2. f[1] = f[1 - 1] + u[1] /\ f[1] <= f[l]
    BY <1>3, <2>1
  <2> HIDE DEF u, l
  <2> QED
    BY <1>2, <1>3, <2>2
<1>5. ASSUME size' = size, pos' = pos + Head(u),
             unread'["out"] = Tail(u)
      PROVE  \E g : AddsUp(g)'
  <2> DEFINE t == Tail(u)
             g == [i \in 0 .. l - 1 |-> f[i + 1]]
  <2>1. \A i \in 0 .. l - 1 : i + 1 \in 0 .. l /\ i + 1 \in 1 .. l
    BY <1>2
  <2>2. g \in [0 .. l - 1 -> Nat]
    BY <1>3, <2>1
  <2>3. g[0] = pos' /\ g[l - 1] = size'
    <3>1. 0 \in 0 .. l - 1 /\ l - 1 \in 0 .. l - 1 /\ (l - 1) + 1 = l /\ 0 + 1 = 1
      BY <1>2
    <3>2. g[0] = f[1] /\ g[l - 1] = f[l]
      BY <3>1
    <3> QED
      BY <1>3, <1>4, <1>5, <3>2
  <2>4. ASSUME NEW i \in 1 .. l - 1 PROVE g[i] = g[i - 1] + t[i]
    <3>1. i \in 0 .. l - 1 /\ i - 1 \in 0 .. l - 1 /\ i + 1 \in 1 .. l
          /\ (i - 1) + 1 = i /\ (i + 1) - 1 = i
      BY <1>2
    <3>2. g[i] = f[i + 1] /\ g[i - 1] = f[i]
      BY <3>1
    <3>3. t[i] = u[i + 1]
      BY <1>2
    <3>4. f[i + 1] = f[i] + u[i + 1]
      BY <1>3, <3>1
    <3> QED
      BY <3>2, <3>3, <3>4
  <2>5. ASSUME NEW i \in 0 .. l - 1, NEW j \in 0 .. l - 1, i <= j
        PROVE  g[i] <= g[j]
    <3>1. i + 1 \in 0 .. l /\ j + 1 \in 0 .. l /\ i + 1 <= j + 1
      BY <1>2, <2>5
    <3> QED
      BY <1>3, <3>1
  <2> HIDE DEF g, t, l
  <2>6. Len(t) = l - 1
    BY <1>2 DEF t
  <2>7. unread'["out"] = t
    BY <1>5 DEF t
  <2>8. PICK h : h = g
    OBVIOUS
  <2>9. /\ h \in [0 .. Len(t) -> Nat]
        /\ h[0] = pos' /\ h[Len(t)] = size'
        /\ \A i \in 1 .. Len(t) : h[i] = h[i - 1] + t[i]
        /\ \A i, j \in 0 .. Len(t) : i <= j => h[i] <= h[j]
    BY <2>2, <2>3, <2>4, <2>5, <2>6, <2>8
  <2>10. AddsUp(h)'
    BY <2>7, <2>9 DEF AddsUp
  <2> QED
    BY <2>10
<1> HIDE DEF u
<1> QED
  BY <1>2, <1>3, <1>4, <1>5 DEF u

\* The first line that waits is the next one of the stream, and there is room for
\* it.
LEMMA FirstLine ==
    ASSUME LinesFit, FileInv, UnreadInv, ~IsSocket, NEW p \in Used,
           unread[p] # <<>>
    PROVE  /\ Head(unread[p]) = LineLength
           /\ pos + LineLength <= size
           /\ LineLength <= Writable(buffer)
           /\ buffer.end + LineLength <= pos + LineLength
           /\ /\ size' = size /\ pos' = pos + LineLength
              /\ unread' = [unread EXCEPT ![p] = Tail(@)]
              => \E k \in Nat :
                  /\ pos' = k * LineLength
                  /\ size' = (k + Len(unread'["out"]) + Len(unread'["err"]))
                                * LineLength
<1> DEFINE a == Len(unread["out"])
           e == Len(unread["err"])
<1>1. /\ Capacity \in Nat /\ LineLength \in 1 .. Capacity /\ MaxLines \in Nat
      /\ Chunks = {LineLength} /\ p \in {"out", "err"}
  BY ChunkTypes DEF Pipes
<1>2. /\ unread["out"] \in Seq(Chunks) /\ unread["err"] \in Seq(Chunks)
      /\ unread \in [Pipes -> Seq(Chunks)]
      /\ a \in Nat /\ e \in Nat
  BY DEF UnreadInv, Pipes
<1>3. PICK k \in Nat : pos = k * LineLength /\ size = (k + a + e) * LineLength
  BY DEF UnreadInv
<1>4. /\ unread[p] \in Seq(Chunks) /\ Head(unread[p]) \in Chunks
      /\ Tail(unread[p]) \in Seq(Chunks)
      /\ Len(unread[p]) > 0 /\ Len(Tail(unread[p])) = Len(unread[p]) - 1
  <2>1. unread[p] \in Seq(Chunks)
    BY <1>1, <1>2
  <2> QED
    BY <2>1, HeadTailProperties
<1>5. a + e > 0
  <2>1. a > 0 \/ e > 0
    BY <1>1, <1>4
  <2> HIDE DEF a, e
  <2> QED
    BY <1>2, <2>1
<1> HIDE DEF a, e
<1>6. pos + LineLength <= size
  <2> DEFINE d == a + e
             L == LineLength
  <2>1. /\ k \in Nat /\ d \in Nat /\ d >= 1 /\ L \in Nat
        /\ pos = k * L /\ size = (k + d) * L
    <3>1. k + a + e = k + (a + e)
      BY <1>2
    <3> QED
      BY <1>1, <1>2, <1>3, <1>5, <3>1
  <2> HIDE DEF d, L
  <2>2. (k + d) * L = k * L + d * L
    BY <2>1
  <2>3. d * L >= L
    BY <2>1
  <2>4. k * L \in Nat /\ d * L \in Nat
    BY <2>1
  <2> QED
    BY <2>1, <2>2, <2>3, <2>4 DEF L
<1>7. /\ buffer.end <= pos /\ size <= MaxLines * LineLength
      /\ buffer.end \in Nat /\ pos \in Nat /\ size \in Nat
  BY BufferHasRoom DEF UnreadInv, FileInv, FileTypeOK, Buffers
<1>8. MaxLines * LineLength <= Capacity /\ MaxLines * LineLength \in Nat
  <2>1. ~(Transports \subseteq {"tcp", "retcp", "udp"})
    BY DEF UnreadInv, IsSocket
  <2> QED
    BY <1>1, <2>1 DEF LinesFit
<1>9. LineLength <= Writable(buffer)
  BY <1>1, <1>6, <1>7, <1>8 DEF Writable
<1>10. ASSUME size' = size, pos' = pos + LineLength,
              unread' = [unread EXCEPT ![p] = Tail(@)]
       PROVE  \E j \in Nat :
                  /\ pos' = j * LineLength
                  /\ size' = (j + Len(unread'["out"]) + Len(unread'["err"]))
                                * LineLength
  <2>1. Len(unread'["out"]) + Len(unread'["err"]) = a + e - 1
    <3>1. CASE p = "out"
      BY <1>2, <1>4, <1>10, <3>1 DEF a, e, Pipes
    <3>2. CASE p = "err"
      BY <1>2, <1>4, <1>10, <3>2 DEF a, e, Pipes
    <3> QED
      BY <1>1, <3>1, <3>2
  <2>2. /\ Len(unread'["out"]) \in Nat /\ Len(unread'["err"]) \in Nat
    <3>1. unread' \in [Pipes -> Seq(Chunks)]
      BY <1>2, <1>4, <1>10
    <3> QED
      BY <1>1, <3>1 DEF Pipes
  <2>3. pos' = (k + 1) * LineLength
    BY <1>1, <1>3, <1>10
  <2>4. (k + 1) + Len(unread'["out"]) + Len(unread'["err"]) = k + a + e
    <3> DEFINE x == Len(unread'["out"])
               y == Len(unread'["err"])
    <3>1. k \in Nat /\ a \in Nat /\ e \in Nat /\ x \in Nat /\ y \in Nat
          /\ x + y = a + e - 1
      BY <1>2, <1>3, <2>1, <2>2
    <3> HIDE DEF x, y
    <3>2. (k + 1) + x + y = k + a + e
      BY <3>1
    <3> QED
      BY <3>2 DEF x, y
  <2>5. size' = ((k + 1) + Len(unread'["out"]) + Len(unread'["err"])) * LineLength
    BY <1>3, <1>10, <2>4
  <2>6. k + 1 \in Nat
    BY <1>3
  <2> QED
    BY <2>3, <2>5, <2>6
<1>11. Head(unread[p]) = LineLength
  BY <1>1, <1>4
<1>12. buffer.end + LineLength <= pos + LineLength
  BY <1>1, <1>7
<1> QED
  BY <1>6, <1>9, <1>10, <1>11, <1>12

\* A chunk that is read is written behind the window.
LEMMA ChunkIsRead ==
    ASSUME LinesFit, FileInv, UnreadInv, NEW p \in Used, LoadsFrom(p),
           UNCHANGED <<transport, open, emptied>>
    PROVE  /\ FileInv' /\ UnreadInv'
           /\ Head(unread[p]) \in Nat
           /\ Readable(buffer)' = Readable(buffer) + Head(unread[p])
<1> DEFINE n == Head(unread[p])
           b == IF IsSocket THEN RoomMade(buffer) ELSE buffer
           written == IF n < Writable(b) THEN n ELSE Writable(b)
<1>1. /\ ~handle /\ (IsSocket => ~AlmostFull) /\ unread[p] # <<>>
      /\ unread' = [unread EXCEPT ![p] = Tail(@)]
      /\ buffer' = Filled(b, pos, written) /\ pos' = pos + n
      /\ size' = size /\ consumed' = consumed /\ readFailed' \in BOOLEAN
  BY DEF LoadsFrom, FileInv, FileTypeOK
<1>2. /\ unread \in [Pipes -> Seq(Chunks)] /\ p \in Pipes
      /\ unread[p] \in Seq(Chunks) /\ n \in Chunks
      /\ Tail(unread[p]) \in Seq(Chunks)
      /\ unread' \in [Pipes -> Seq(Chunks)]
  <2>1. unread \in [Pipes -> Seq(Chunks)] /\ p \in Pipes
    BY ChunkTypes DEF UnreadInv
  <2>2. unread[p] \in Seq(Chunks)
    BY <2>1
  <2>3. n \in Chunks /\ Tail(unread[p]) \in Seq(Chunks)
    BY <1>1, <2>2, HeadTailProperties
  <2> QED
    BY <1>1, <2>1, <2>2, <2>3
<1>3. /\ n \in Nat /\ Capacity \in Nat /\ Datagram \in Nat
      /\ IsSocket => n <= Datagram
  BY <1>2, ChunkTypes
<1>4. b \in {buffer, Flushed(buffer)} /\ Writable(b) \in Int
  <2>1. Readable(buffer) \in Int /\ Writable(buffer) \in Int
    BY <1>3 DEF FileInv, FileTypeOK, Buffers, Readable, Writable
  <2> QED
    BY <1>3, <2>1, RoomLemma DEF RoomMade
<1>5. n <= Writable(b) /\ pos + n <= size
  <2>1. CASE IsSocket
    <3>1. Datagram <= Writable(b)
      BY <1>1, <1>3, <1>4, <2>1 DEF AlmostFull
    <3>2. p = "out"
      BY <2>1, ChunkTypes
    <3>3. pos + n <= size
      BY <1>1, <2>1, <3>2, FirstOfSocket
    <3> HIDE DEF n, b
    <3> QED
      BY <1>3, <1>4, <2>1, <3>1, <3>3
  <2>2. CASE ~IsSocket
    BY <1>1, <2>2, FirstLine
  <2> QED
    BY <2>1, <2>2
<1>6. written = n
  <2> HIDE DEF n, b
  <2> QED
    BY <1>3, <1>4, <1>5
<1>7. FileInv' /\ Readable(buffer)' = Readable(buffer) + n /\ buffer'.end = b.end + n
  <2>1. buffer' = Filled(b, pos, n)
    BY <1>1, <1>6
  <2> HIDE DEF n, b
  <2> QED
    BY <1>1, <1>3, <1>4, <1>5, <2>1, FillLemma
<1>8. Chunks' = Chunks /\ Used' = Used /\ IsSocket' = IsSocket
  BY DEF Chunks, Used, IsSocket
<1>9. \A i \in 1 .. Len(unread'["out"]) : unread'["out"][i] = 0 => emptied > 0
  <2>1. CASE p = "out"
    <3>1. unread'["out"] = Tail(unread["out"])
      BY <1>1, <1>2, <2>1 DEF Pipes
    <3>2. unread["out"] \in Seq(Chunks) /\ unread["out"] # <<>>
      BY <1>1, <1>2, <2>1
    <3>3. /\ Len(Tail(unread["out"])) = Len(unread["out"]) - 1
          /\ Len(unread["out"]) \in Nat
          /\ \A i \in 1 .. Len(Tail(unread["out"])) :
              Tail(unread["out"])[i] = unread["out"][i + 1]
      BY <3>2, HeadTailProperties
    <3>4. \A i \in 1 .. Len(unread["out"]) - 1 : i + 1 \in 1 .. Len(unread["out"])
      BY <3>3
    <3> QED
      BY <3>1, <3>3, <3>4 DEF UnreadInv
  <2>2. CASE p = "err"
    BY <1>1, <1>2, <2>2 DEF UnreadInv, Pipes
  <2> QED
    BY <1>2, <2>1, <2>2 DEF Pipes
<1>10. IsSocket => \E f : AddsUp(f)'
  <2> SUFFICES ASSUME IsSocket PROVE \E f : AddsUp(f)'
    OBVIOUS
  <2>1. p = "out"
    BY ChunkTypes
  <2>2. unread'["out"] = Tail(unread["out"])
    BY <1>1, <1>2, <2>1 DEF Pipes
  <2> QED
    BY <1>1, <2>1, <2>2, FirstOfSocket
<1>11. ASSUME ~IsSocket
       PROVE  /\ buffer'.end <= pos' /\ size' <= MaxLines * LineLength
              /\ \E k \in Nat :
                  /\ pos' = k * LineLength
                  /\ size' = (k + Len(unread'["out"]) + Len(unread'["err"]))
                                * LineLength
  <2>1. n = LineLength /\ b = buffer
    BY <1>1, <1>11, FirstLine
  <2>2. buffer'.end = buffer.end + LineLength /\ pos' = pos + LineLength
    BY <1>1, <1>7, <2>1
  <2> HIDE DEF n, b
  <2>3. buffer.end + LineLength <= pos + LineLength
    BY <1>1, <1>11, FirstLine
  <2>4. \E k \in Nat :
                  /\ pos' = k * LineLength
                  /\ size' = (k + Len(unread'["out"]) + Len(unread'["err"]))
                                * LineLength
    BY <1>1, <1>11, <2>2, FirstLine
  <2> QED
    BY <1>1, <1>11, <2>2, <2>3, <2>4 DEF UnreadInv
<1>12. UnreadInv'
  BY <1>2, <1>8, <1>9, <1>10, <1>11 DEF UnreadInv
<1> QED
  BY <1>3, <1>7, <1>12

\* Steps that neither read nor send keep what is known of what waits.
LEMMA StillUnread ==
    ASSUME FileInv, UnreadInv, UNCHANGED <<transport, unread, emptied, size, pos>>,
           ~IsSocket => buffer'.end <= buffer.end, buffer'.end \in Int,
           open' \in SUBSET Used
    PROVE  UnreadInv'
<1>1. Chunks' = Chunks /\ Used' = Used /\ IsSocket' = IsSocket
  BY DEF Chunks, Used, IsSocket
<1>2. IsSocket => \E f : AddsUp(f)'
  BY DEF UnreadInv, AddsUp
<1>3. ~IsSocket => buffer'.end <= pos'
  <2>1. buffer.end \in Int /\ pos \in Int
    BY BufferHasRoom DEF FileInv, FileTypeOK, Buffers
  <2> QED
    BY <2>1 DEF UnreadInv
<1>4. ~IsSocket =>
        /\ size' <= MaxLines * LineLength
        /\ \E k \in Nat :
            /\ pos' = k * LineLength
            /\ size' = (k + Len(unread'["out"]) + Len(unread'["err"])) * LineLength
  BY DEF UnreadInv
<1> QED
  BY <1>1, <1>2, <1>3, <1>4 DEF UnreadInv

\* A load that returns nothing at most makes room.
LEMMA NothingIsRead ==
    ASSUME FileInv, UnreadInv, LoadsNothing, UNCHANGED <<transport, open, emptied>>
    PROVE  FileInv' /\ UnreadInv' /\ Readable(buffer)' = Readable(buffer)
<1>1. /\ UNCHANGED <<size, pos, consumed, readFailed, unread>>
      /\ buffer' = buffer \/ (IsSocket /\ buffer' = Flushed(buffer))
  BY DEF LoadsNothing, RoomMade
<1>2. /\ buffer' \in Buffers /\ buffer'.start <= buffer'.end
      /\ Readable(buffer)' = Readable(buffer)
      /\ \A i \in Slots : i \in buffer'.start .. buffer'.end - 1 =>
             buffer'.slice[i] = consumed + (i - buffer'.start)
  <2>1. CASE buffer' = buffer
    BY <2>1 DEF FileInv, FileTypeOK, WindowIsFile, Readable
  <2>2. CASE buffer' = Flushed(buffer)
    BY <2>2, RoomLemma DEF Readable
  <2> QED
    BY <1>1, <2>1, <2>2
<1>3. FileInv'
  BY <1>1, <1>2 DEF FileInv, FileTypeOK, WindowIsFile
<1>4. buffer.end \in Int /\ buffer'.end \in Int
  BY <1>2, BufferHasRoom DEF FileInv, FileTypeOK, Buffers
<1>5. open' \in SUBSET Used
  BY DEF UnreadInv
<1>6. UnreadInv'
  BY <1>1, <1>4, <1>5, StillUnread
<1> QED
  BY <1>2, <1>3, <1>6

\* The peer of a socket sends one more chunk behind the others.
LEMMA LastOfSocket ==
    ASSUME FileInv, UnreadInv, IsSocket, NEW n \in Nat,
           unread' = [unread EXCEPT !["out"] = Append(@, n)],
           size' = size + n, pos' = pos
    PROVE  \E f : AddsUp(f)'
<1> DEFINE u == unread["out"]
           l == Len(u)
<1>1. PICK f : AddsUp(f)
  BY DEF UnreadInv
<1>2. /\ u \in Seq(Chunks) /\ l \in Nat
      /\ unread'["out"] = Append(u, n)
      /\ Len(Append(u, n)) = l + 1 /\ Append(u, n)[l + 1] = n
      /\ \A i \in 1 .. l : Append(u, n)[i] = u[i]
      /\ size \in Nat
  <2>1. u \in Seq(Chunks) /\ unread'["out"] = Append(u, n)
    BY DEF UnreadInv, Pipes
  <2>2. size \in Nat
    BY DEF FileInv, FileTypeOK
  <2> HIDE DEF u
  <2> QED
    BY <2>1, <2>2 DEF u
<1>3. /\ f \in [0 .. l -> Nat] /\ f[0] = pos /\ f[l] = size
      /\ \A i \in 1 .. l : f[i] = f[i - 1] + u[i]
      /\ \A i, j \in 0 .. l : i <= j => f[i] <= f[j]
  BY <1>1 DEF AddsUp
<1> DEFINE t == Append(u, n)
           g == [i \in 0 .. l + 1 |-> IF i <= l THEN f[i] ELSE size + n]
<1>4. \A i \in 0 .. l + 1 :
        /\ i <= l => i \in 0 .. l /\ g[i] = f[i]
        /\ ~(i <= l) => i = l + 1 /\ g[i] = size + n
  BY <1>2
<1>5. g \in [0 .. l + 1 -> Nat]
  BY <1>2, <1>3, <1>4
<1> HIDE DEF g, u, l
<1>6. g[0] = pos' /\ g[l + 1] = size'
  <2>1. 0 \in 0 .. l + 1 /\ 0 <= l /\ l + 1 \in 0 .. l + 1 /\ ~(l + 1 <= l)
    BY <1>2
  <2> QED
    BY <1>3, <1>4, <2>1
<1>7. ASSUME NEW i \in 1 .. l + 1 PROVE g[i] = g[i - 1] + t[i]
  <2>1. i \in 0 .. l + 1 /\ i - 1 \in 0 .. l + 1 /\ i - 1 <= l
    BY <1>2
  <2>2. g[i - 1] = f[i - 1]
    BY <1>4, <2>1
  <2>3. CASE i <= l
    <3>1. i \in 1 .. l /\ g[i] = f[i] /\ t[i] = u[i]
      BY <1>2, <1>4, <2>1, <2>3
    <3> QED
      BY <1>3, <2>2, <3>1
  <2>4. CASE ~(i <= l)
    <3>1. i = l + 1 /\ i - 1 = l /\ g[i] = size + n
      BY <1>2, <1>4, <2>1, <2>4
    <3> QED
      BY <1>2, <1>3, <2>2, <3>1
  <2> QED
    BY <2>3, <2>4
<1>8. ASSUME NEW i \in 0 .. l + 1, NEW j \in 0 .. l + 1, i <= j
      PROVE  g[i] <= g[j]
  <2>1. CASE j <= l
    <3>1. i <= l
      BY <1>2, <1>8, <2>1
    <3> QED
      BY <1>3, <1>4, <1>8, <2>1, <3>1
  <2>2. CASE ~(j <= l) /\ i <= l
    <3>1. g[j] = size + n /\ g[i] = f[i] /\ i \in 0 .. l /\ l \in 0 .. l /\ i <= l
      BY <1>2, <1>4, <2>2
    <3>2. f[i] <= size /\ f[i] \in Nat
      BY <1>3, <3>1
    <3> QED
      BY <1>2, <3>1, <3>2
  <2>3. CASE ~(j <= l) /\ ~(i <= l)
    <3>1. g[j] = size + n /\ g[i] = size + n
      BY <1>4, <2>3
    <3> QED
      BY <1>2, <3>1
  <2> QED
    BY <2>1, <2>2, <2>3
<1> HIDE DEF t
<1>9. Len(t) = l + 1 /\ unread'["out"] = t
  BY <1>2 DEF t
<1>10. PICK h : h = g
  OBVIOUS
<1>11. /\ h \in [0 .. Len(t) -> Nat]
       /\ h[0] = pos' /\ h[Len(t)] = size'
       /\ \A i \in 1 .. Len(t) : h[i] = h[i - 1] + t[i]
       /\ \A i, j \in 0 .. Len(t) : i <= j => h[i] <= h[j]
  BY <1>5, <1>6, <1>7, <1>8, <1>9, <1>10
<1>12. AddsUp(h)'
  BY <1>9, <1>11 DEF AddsUp
<1> QED
  BY <1>12

\* What a peer sends waits behind what was sent before.
LEMMA ChunkIsSent ==
    ASSUME FileInv, UnreadInv, NEW p \in Used, NEW n, Sends(p, n),
           UNCHANGED transport
    PROVE  FileInv' /\ UnreadInv'
<1>1. /\ n \in Chunks /\ n \in Nat
      /\ size' = size + n /\ size + n <= FileEnd
      /\ UNCHANGED <<pos, buffer, consumed, readFailed, open>>
      /\ unread' = [unread EXCEPT ![p] = Append(@, n)]
      /\ emptied' = (IF n = 0 THEN emptied + 1 ELSE emptied)
      /\ ~IsSocket => size + n <= MaxLines * LineLength
      /\ p \in Pipes
  BY ChunkTypes DEF Sends
<1>2. /\ size \in Nat /\ pos \in Nat /\ FileEnd \in Nat /\ pos <= size
      /\ emptied \in Nat /\ unread \in [Pipes -> Seq(Chunks)]
      /\ Chunks' = Chunks /\ Used' = Used /\ IsSocket' = IsSocket
  BY FileIsFinite DEF FileInv, FileTypeOK, UnreadInv, Chunks, Used, IsSocket
<1>3. size' \in 0 .. FileEnd /\ pos' <= size'
  BY <1>1, <1>2
<1>4. FileInv'
  BY <1>1, <1>3 DEF FileInv, FileTypeOK, WindowIsFile, Readable
<1>5. unread[p] \in Seq(Chunks) /\ unread' \in [Pipes -> Seq(Chunks)]
  <2>1. unread[p] \in Seq(Chunks)
    BY <1>1, <1>2
  <2>2. Append(unread[p], n) \in Seq(Chunks)
    BY <1>1, <2>1
  <2> QED
    BY <1>1, <1>2, <2>1, <2>2
<1>6. \A i \in 1 .. Len(unread'["out"]) : unread'["out"][i] = 0 => emptied' > 0
  <2>1. CASE p = "out"
    <3>1. unread'["out"] = Append(unread["out"], n) /\ unread["out"] \in Seq(Chunks)
      BY <1>1, <1>2, <1>5, <2>1
    <3> DEFINE u == unread["out"]
    <3>2. \A i \in 1 .. Len(u) : u[i] = 0 => emptied > 0
      BY DEF UnreadInv
    <3> HIDE DEF u
    <3>3. \A i \in 1 .. Len(Append(u, n)) : Append(u, n)[i] = 0 => emptied' > 0
      BY <1>1, <1>2, <3>1, <3>2 DEF u
    <3> QED
      BY <3>1, <3>3 DEF u
  <2>2. CASE p = "err"
    <3>1. unread'["out"] = unread["out"]
      BY <1>1, <1>2, <2>2 DEF Pipes
    <3> QED
      BY <1>1, <1>2, <3>1 DEF UnreadInv
  <2> QED
    BY <1>1, <2>1, <2>2 DEF Pipes
<1>7. IsSocket => \E f : AddsUp(f)'
  <2> SUFFICES ASSUME IsSocket PROVE \E f : AddsUp(f)'
    OBVIOUS
  <2>1. p = "out"
    BY ChunkTypes
  <2> QED
    BY <1>1, <2>1, LastOfSocket
<1>8. ASSUME ~IsSocket
      PROVE  /\ buffer'.end <= pos' /\ size' <= MaxLines * LineLength
             /\ \E k \in Nat :
                 /\ pos' = k * LineLength
                 /\ size' = (k + Len(unread'["out"]) + Len(unread'["err"]))
                                * LineLength
  <2> DEFINE a == Len(unread["out"])
             e == Len(unread["err"])
             x == Len(unread'["out"])
             y == Len(unread'["err"])
  <2>1. n = LineLength /\ LineLength \in Nat
    BY <1>1, <1>8, ChunkTypes
  <2>2. PICK k \in Nat : pos = k * LineLength /\ size = (k + a + e) * LineLength
    BY <1>8 DEF UnreadInv
  <2>3. a \in Nat /\ e \in Nat /\ x \in Nat /\ y \in Nat /\ x + y = a + e + 1
    <3>1. /\ unread["out"] \in Seq(Chunks) /\ unread["err"] \in Seq(Chunks)
          /\ a \in Nat /\ e \in Nat
      BY <1>2 DEF Pipes
    <3>4. \A q \in Seq(Chunks) : Len(Append(q, n)) = Len(q) + 1
      BY <1>1
    <3>2. CASE p = "out"
      <4>1. unread'["out"] = Append(unread["out"], n) /\ unread'["err"] = unread["err"]
        BY <1>1, <1>2, <3>2 DEF Pipes
      <4>2. x = a + 1 /\ y = e
        BY <3>1, <3>4, <4>1
      <4> HIDE DEF a, e, x, y
      <4> QED
        BY <3>1, <4>2
    <3>3. CASE p = "err"
      <4>1. unread'["err"] = Append(unread["err"], n) /\ unread'["out"] = unread["out"]
        BY <1>1, <1>2, <3>3 DEF Pipes
      <4>2. x = a /\ y = e + 1
        BY <3>1, <3>4, <4>1
      <4> HIDE DEF a, e, x, y
      <4> QED
        BY <3>1, <4>2
    <3> QED
      BY <1>1, <3>2, <3>3 DEF Pipes
  <2> HIDE DEF a, e, x, y
  <2>4. k + x + y = (k + a + e) + 1
    BY <2>2, <2>3
  <2>5. size' = (k + x + y) * LineLength
    <3> DEFINE j == k + a + e
    <3>1. j \in Nat /\ size = j * LineLength
      BY <2>2, <2>3
    <3> HIDE DEF j
    <3>2. size' = (j + 1) * LineLength
      BY <1>1, <2>1, <3>1
    <3> QED
      BY <2>4, <3>2 DEF j
  <2>6. pos' = k * LineLength /\ k \in Nat
    BY <1>1, <2>2
  <2> QED
    BY <1>1, <1>8, <2>5, <2>6 DEF UnreadInv, x, y
<1>9. emptied' \in Nat
  BY <1>1, <1>2
<1> QED
  BY <1>1, <1>2, <1>4, <1>5, <1>6, <1>7, <1>8, <1>9 DEF UnreadInv

\* A load that brings nothing has nothing to bring, unless there was an empty
\* datagram.
LEMMA LoadKeepsWindow ==
    ASSUME LinesFit, FileInv, UnreadInv, Loads
    PROVE  /\ FileInv' /\ UnreadInv'
           /\ \E n \in Nat :
               /\ Readable(buffer)' = Readable(buffer) + n
               /\ n = 0 => LoadsNothing \/ emptied > 0
               /\ step' = CASE step = "produce" -> "parse"
                            [] step = "more" -> IF n > 0 THEN "parse" ELSE "drop"
                            [] step = "reload" -> IF n > 0 THEN "parse" ELSE "waiting"
<1>1. PICK n \in 0 .. Capacity :
        /\ LoadsChunk(n)
        /\ step' = CASE step = "produce" -> "parse"
                     [] step = "more" -> IF n > 0 THEN "parse" ELSE "drop"
                     [] step = "reload" -> IF n > 0 THEN "parse" ELSE "waiting"
  BY DEF Loads
<1>2. UNCHANGED <<transport, open, emptied>>
  BY DEF Loads
<1>3. n \in Nat
  OBVIOUS
<1>4. ASSUME NEW p \in Used, LoadsFrom(p), Head(unread[p]) = n
      PROVE  FileInv' /\ UnreadInv' /\ Readable(buffer)' = Readable(buffer) + n
  BY <1>2, <1>4, ChunkIsRead
<1>5. CASE \E p \in Used : LoadsFrom(p) /\ Head(unread[p]) = n /\ n > 0
  BY <1>1, <1>3, <1>4, <1>5
<1>6. CASE n = 0 /\ unread["out"] # <<>> /\ Head(unread["out"]) = 0 /\ LoadsFrom("out")
  <2>1. "out" \in Used /\ Head(unread["out"]) = n
    BY <1>6, ChunkTypes
  <2>2. emptied > 0
    <3>1. unread["out"] \in Seq(Chunks)
      BY DEF UnreadInv, Pipes
    <3>2. 1 \in 1 .. Len(unread["out"]) /\ unread["out"][1] = 0
      BY <1>6, <3>1, HeadTailProperties
    <3> QED
      BY <3>2 DEF UnreadInv
  <2> QED
    BY <1>1, <1>3, <1>4, <1>6, <2>1, <2>2
<1>7. CASE n = 0 /\ LoadsNothing
  <2>1. FileInv' /\ UnreadInv' /\ Readable(buffer)' = Readable(buffer)
    BY <1>2, <1>7, NothingIsRead
  <2>2. Readable(buffer) \in Int
    BY DEF FileInv, FileTypeOK, Buffers, Readable
  <2>3. Readable(buffer)' = Readable(buffer) + n
    BY <1>7, <2>1, <2>2
  <2> QED
    BY <1>1, <1>3, <1>7, <2>1, <2>3
<1> QED
  BY <1>1, <1>5, <1>6, <1>7 DEF LoadsChunk

-----------------------------------------------------------------------------
(* Every step keeps the window.                                             *)

\* A step that leaves the stream alone keeps what is known of it.
LEMMA StillLemma ==
    ASSUME WindowInv, UNCHANGED <<fileVars, transport, unread, emptied>>,
           open' \in SUBSET Used,
           step' \in {"more", "drop"} => step' = step \/ Readable(buffer) > 0
    PROVE  WindowInv'
<1>1. FileInv'
  BY DEF WindowInv, FileInv, FileTypeOK, WindowIsFile, Readable, fileVars
<1>2. DropInv'
  BY DEF WindowInv, DropInv, Readable, fileVars
<1>3. buffer'.end \in Int /\ buffer'.end <= buffer.end
  BY BufferHasRoom DEF WindowInv, FileInv, FileTypeOK, Buffers, fileVars
<1>4. UnreadInv'
  BY <1>3, StillUnread DEF WindowInv, fileVars
<1> QED
  BY <1>1, <1>2, <1>4 DEF WindowInv

\* Nothing was sent at first.
LEMMA WindowInit == Init => WindowInv
<1> SUFFICES ASSUME Init PROVE WindowInv
  OBVIOUS
<1>1. /\ Capacity \in Nat /\ FileEnd \in Nat /\ size = 0
      /\ pos = 0 /\ consumed = 0 /\ step = "select"
      /\ buffer = NewBuffer /\ readFailed \in BOOLEAN /\ transport \in Transports
      /\ unread = [p \in Pipes |-> <<>>] /\ open = Used /\ emptied = 0
  BY BufferHasRoom, FileIsFinite DEF Init, StreamInit
<1>2. /\ NewBuffer \in Buffers /\ NewBuffer.start = 0 /\ NewBuffer.end = 0
  BY <1>1 DEF NewBuffer, Buffers
<1>3. 0 .. 0 - 1 = {}
  OBVIOUS
<1>4. FileInv
  BY <1>1, <1>2, <1>3 DEF FileInv, FileTypeOK, WindowIsFile, Readable
<1>5. DropInv
  BY <1>1 DEF DropInv
<1>6. /\ unread \in [Pipes -> Seq(Chunks)]
      /\ unread["out"] = <<>> /\ unread["err"] = <<>>
      /\ Len(unread["out"]) = 0 /\ Len(unread["err"]) = 0
  BY <1>1 DEF Pipes
<1>7. \E f : AddsUp(f)
  <2> DEFINE f == [i \in 0 .. 0 |-> 0]
  <2>1. /\ f \in [0 .. 0 -> Nat] /\ f[0] = 0
        /\ \A i \in 1 .. 0 : FALSE
        /\ \A i, j \in 0 .. 0 : f[i] <= f[j]
    OBVIOUS
  <2> HIDE DEF f
  <2>2. AddsUp(f)
    BY <1>1, <1>6, <2>1 DEF AddsUp
  <2> QED
    BY <2>2
<1>8. ~IsSocket =>
        /\ buffer.end <= pos
        /\ size <= MaxLines * LineLength
        /\ \E k \in Nat :
            /\ pos = k * LineLength
            /\ size = (k + Len(unread["out"]) + Len(unread["err"])) * LineLength
  <2>1. LineLength \in Nat /\ MaxLines * LineLength \in Nat
    BY ChunkTypes
  <2>2. 0 = 0 * LineLength /\ 0 = (0 + 0 + 0) * LineLength /\ 0 <= MaxLines * LineLength
    BY <2>1
  <2>3. /\ pos = 0 * LineLength
        /\ size = (0 + Len(unread["out"]) + Len(unread["err"])) * LineLength
    BY <1>1, <1>6, <2>2
  <2>4. \E k \in Nat :
            /\ pos = k * LineLength
            /\ size = (k + Len(unread["out"]) + Len(unread["err"])) * LineLength
    BY <2>3
  <2>5. buffer.end = 0 /\ 0 <= pos
    BY <1>1, <1>2
  <2> QED
    BY <1>1, <2>2, <2>4, <2>5
<1>9. UnreadInv
  <2>1. open \in SUBSET Used /\ emptied \in Nat
    BY <1>1
  <2>2. \A i \in 1 .. Len(unread["out"]) : FALSE
    BY <1>6
  <2> QED
    BY <1>1, <1>6, <1>7, <1>8, <2>1, <2>2 DEF UnreadInv
<1> QED
  BY <1>4, <1>5, <1>9 DEF WindowInv

\* Every step of a call keeps the window.
LEMMA WindowOfCall ==
    ASSUME LinesFit, WindowInv, ProduceFromStream
    PROVE  WindowInv'
<1>0. /\ Readable(buffer) \in Int /\ open \in SUBSET Used
      /\ buffer.end \in Int
  BY BufferHasRoom DEF WindowInv, FileInv, FileTypeOK, Buffers, Readable, UnreadInv
<1>1. CASE Loads
  <2>1. FileInv' /\ UnreadInv'
    BY <1>1, LoadKeepsWindow DEF WindowInv
  <2>2. PICK n \in Nat :
               /\ Readable(buffer)' = Readable(buffer) + n
               /\ step' = CASE step = "produce" -> "parse"
                            [] step = "more" -> IF n > 0 THEN "parse" ELSE "drop"
                            [] step = "reload" -> IF n > 0 THEN "parse" ELSE "waiting"
    BY <1>1, LoadKeepsWindow DEF WindowInv
  <2>3. step \in LoadSteps
    BY <1>1 DEF Loads
  <2>4. DropInv'
    <3>1. step' \in {"more", "drop"} => step = "more"
      BY <2>2, <2>3 DEF LoadSteps
    <3>2. Readable(buffer)' = Readable(buffer) + n /\ n \in Nat
      BY <2>2
    <3>3. step = "more" => Readable(buffer) > 0
      BY DEF WindowInv, DropInv
    <3>4. step = "more" => Readable(buffer)' > 0
      BY <1>0, <3>2, <3>3
    <3> QED
      BY <3>1, <3>4 DEF DropInv
  <2> QED
    BY <2>1, <2>4 DEF WindowInv
<1>2. CASE SpawnsReconnect \/ TakesConnection \/ GivesUp \/ PortFails
  <2>1. /\ UNCHANGED <<fileVars, transport, unread, emptied, open>>
        /\ step' = step \/ step' = "fatal"
    BY <1>2 DEF SpawnsReconnect, TakesConnection, GivesUp, PortFails, peerVars
  <2> QED
    BY <1>0, <2>1, StillLemma
<1>3. CASE /\ HasNoBytes \/ SaysIncomplete \/ SaysParseError \/ SaysEof
              \/ SaysUnrecoverable
           /\ UNCHANGED <<transport, peerVars, reconnectVars>>
  <2>1. /\ UNCHANGED <<fileVars, transport, unread, emptied, open>>
        /\ step' \in {"more", "drop"} => Readable(buffer) > 0
    BY <1>3 DEF HasNoBytes, SaysIncomplete, SaysParseError, SaysEof,
         SaysUnrecoverable, Says, peerVars
  <2> QED
    BY <1>0, <2>1, StillLemma
<1>4. ASSUME NEW n \in Nat, n <= Readable(buffer), Consume(n),
             UNCHANGED <<transport, peerVars>>, step' \notin {"more", "drop"}
      PROVE  WindowInv'
  <2>1. FileInv' /\ buffer'.end <= buffer.end
    BY <1>4, ConsumedLemma DEF WindowInv
  <2>2. buffer'.end \in Int
    BY <2>1, BufferHasRoom DEF FileInv, FileTypeOK, Buffers
  <2>3. UnreadInv'
    BY <1>0, <1>4, <2>1, <2>2, StillUnread DEF WindowInv, Consume, peerVars
  <2> QED
    BY <1>4, <2>1, <2>3 DEF WindowInv, DropInv
<1>5. CASE ParsesItems /\ UNCHANGED <<transport, peerVars, reconnectVars>>
  <2>1. PICK n \in 1 .. Readable(buffer) : Consume(n)
    BY <1>5 DEF ParsesItems
  <2>2. n \in Nat /\ n <= Readable(buffer)
    BY <1>0
  <2>3. step' = "items"
    BY <1>5 DEF ParsesItems
  <2> QED
    BY <1>4, <1>5, <2>1, <2>2, <2>3
<1>6. CASE DropsByte /\ UNCHANGED <<transport, peerVars, reconnectVars>>
  <2>1. step = "drop" /\ Consume(1) /\ step' \in {"parse", "reload"}
    BY <1>6 DEF DropsByte
  <2>2. 1 <= Readable(buffer)
    BY <1>0, <2>1 DEF WindowInv, DropInv
  <2> QED
    BY <1>4, <1>6, <2>1, <2>2
<1> QED
  BY <1>1, <1>2, <1>3, <1>5, <1>6 DEF ProduceFromStream

\* Every step keeps the window.
LEMMA WindowStep == LinesFit /\ WindowInv /\ [Next]_vars => WindowInv'
<1> SUFFICES ASSUME LinesFit, WindowInv, [Next]_vars PROVE WindowInv'
  OBVIOUS
<1>0. open \in SUBSET Used
  BY DEF WindowInv, UnreadInv
<1>1. CASE Produces
  BY <1>1, WindowOfCall DEF Produces
<1>2. CASE Environment /\ Peers
  <2>1. PICK p \in Used : (\E n \in 0 .. Capacity : Sends(p, n)) \/ Closes(p)
    BY <1>2 DEF Peers
  <2>2. UNCHANGED <<transport, step>>
    BY <1>2 DEF Peers
  <2>3. CASE \E n \in 0 .. Capacity : Sends(p, n)
    <3>1. FileInv' /\ UnreadInv' /\ buffer' = buffer
      BY <2>2, <2>3, ChunkIsSent DEF WindowInv, Sends
    <3> QED
      BY <2>2, <3>1 DEF WindowInv, DropInv, Readable
  <2>4. CASE Closes(p)
    <3>1. UNCHANGED <<fileVars, unread, emptied>> /\ open' \in SUBSET Used
      BY <1>0, <2>4 DEF Closes
    <3> QED
      BY <2>2, <3>1, StillLemma
  <2> QED
    BY <2>1, <2>3, <2>4
<1>3. CASE TaskRuns
  <2>1. UNCHANGED <<fileVars, transport, unread, emptied, step>>
    BY <1>3 DEF TaskRuns, Reconnects, Connects, ConnectFails, TriesAgain, peerVars
  <2>2. open' \in SUBSET Used
    BY <1>0, <1>3, ChunkTypes
       DEF TaskRuns, Reconnects, Connects, ConnectFails, TriesAgain, peerVars
  <2> QED
    BY <2>1, <2>2, StillLemma
<1>4. CASE TimesOut \/ TakesRequest \/ SeesCancel \/ FlushTicks \/ UpdateTicks
           \/ HearsOfTask \/ Selects \/ Writes \/ BreaksOnFatal \/ WritesRecords
           \/ AnswersRequest \/ Returns \/ ToolReturns
  <2>1. UNCHANGED <<fileVars, transport, unread, emptied, open>>
    BY <1>4 DEF TimesOut, TakesRequest, SeesCancel, FlushTicks, UpdateTicks,
         CallIsDropped, HearsOfTask, Selects, Writes, BreaksOnFatal,
         WritesRecords, AnswersRequest, Returns, ToolReturns, sourceVars, peerVars
  <2>2. step' \notin {"more", "drop"}
    BY <1>4 DEF TimesOut, TakesRequest, SeesCancel, FlushTicks, UpdateTicks,
         CallIsDropped, HearsOfTask, Selects, Writes, BreaksOnFatal,
         WritesRecords, AnswersRequest, Returns, ToolReturns
  <2> QED
    BY <1>0, <2>1, <2>2, StillLemma
<1>5. CASE ReadFails
  <2>1. /\ UNCHANGED <<size, pos, buffer, consumed, transport, unread, emptied, open>>
        /\ readFailed' \in BOOLEAN /\ step' = "fatal"
    BY <1>5 DEF ReadFails, peerVars
  <2>2. FileInv'
    BY <2>1 DEF WindowInv, FileInv, FileTypeOK, WindowIsFile, Readable
  <2>3. buffer'.end \in Int /\ buffer'.end <= buffer.end
    BY <2>1, BufferHasRoom DEF WindowInv, FileInv, FileTypeOK, Buffers
  <2>4. UnreadInv'
    BY <1>0, <2>1, <2>3, StillUnread DEF WindowInv
  <2> QED
    BY <2>1, <2>2, <2>4 DEF WindowInv, DropInv
<1>6. CASE Asks \/ Cancels \/ Closing \/ UNCHANGED vars
  <2>1. UNCHANGED <<fileVars, transport, unread, emptied, open, step>>
    BY <1>6 DEF Asks, Cancels, Closing, vars, sourceVars, peerVars
  <2> QED
    BY <1>0, <2>1, StillLemma
<1> QED
  BY <1>1, <1>2, <1>3, <1>4, <1>5, <1>6 DEF Next, Loop, Environment

-----------------------------------------------------------------------------
(* Resynchronising.                                                         *)

\* The connection was closed within the message.
IsCutOff(m) ==
    transport = "tcp" /\ "out" \notin open /\ size < m.at + m.len

\* What a message may be left behind for.
IsExcused(m) ==
    m \in parsed \/ emptied > 0 \/ ~Fits(m) \/ IsCutOff(m)

\* When a message begins where parsing goes on, it is not complete, and its
\* first byte is only dropped with an excuse.
ResyncInv ==
    /\ \A m \in Messages : m.at < consumed => IsExcused(m)
    /\ step = "more" => ItemsIn(consumed, pos) = {}
    /\ step = "drop" => \A m \in Messages : m.at = consumed => IsExcused(m)

\* A message that begins at offset o and ends before e is an item there.
LEMMA WholeIsItem ==
    ASSUME NEW m \in Messages, NEW e \in Nat, m.at + m.len <= e
    PROVE  m \in ItemsIn(m.at, e)
<1>1. m.at \in Nat /\ m.at >= m.at /\ m.at .. m.at - 1 = {}
  BY MessagesAreInFile
<1> QED
  BY <1>1 DEF ItemsIn

\* The messages that begin in the bytes of some items are those items.
LEMMA BeginsInItems ==
    ASSUME NEW items \in SUBSET Messages, NEW m \in Messages,
           m.at \in Taken(items)
    PROVE  m \in items
<1>1. m.at \in File!Taken(items)
  BY DEF Taken, File!Taken, Bytes, File!Bytes
<1> QED
  BY <1>1, FileAssumptions, File!TakenLemma

\* A multiple of n behind another is behind it by n at least.
LEMMA NextMultiple ==
    ASSUME NEW n \in Nat \ {0}, NEW j \in Nat, NEW k \in Nat, j * n < k * n
    PROVE  j * n + n <= k * n
<1>1. j < k
  <2> SUFFICES ASSUME k <= j PROVE FALSE
    OBVIOUS
  <2>1. PICK d \in Nat : j = k + d
    <3>1. j - k \in Nat /\ j = k + (j - k)
      OBVIOUS
    <3> QED
      BY <3>1
  <2>2. j * n = k * n + d * n /\ d * n \in Nat /\ k * n \in Nat
    BY <2>1
  <2> QED
    BY <2>2
<1>2. PICK d \in Nat : k = j + 1 + d
  <2>1. k - j - 1 \in Nat /\ k = j + 1 + (k - j - 1)
    BY <1>1
  <2> QED
    BY <2>1
<1>3. k * n = j * n + n + d * n /\ d * n \in Nat /\ j * n \in Nat
  BY <1>2
<1> QED
  BY <1>3

\* When nothing can be loaded for a message that is not complete, it has an
\* excuse.
LEMMA NothingMoreLemma ==
    ASSUME FileInv, UnreadInv, Readable(buffer) > 0,
           ItemsIn(consumed, pos) = {}, LoadsNothing \/ emptied > 0,
           NEW m \in Messages, m.at = consumed
    PROVE  IsExcused(m)
<1> SUFFICES ASSUME Fits(m), ~(emptied > 0)
             PROVE  IsCutOff(m)
  BY DEF IsExcused
<1>1. /\ consumed \in Nat /\ pos \in Nat /\ size \in Nat /\ pos <= size
      /\ pos = consumed + Readable(buffer) /\ Readable(buffer) \in Int
      /\ Capacity \in Nat /\ Datagram \in Nat /\ Writable(buffer) \in Int
  BY ChunkTypes
     DEF FileInv, FileTypeOK, WindowIsFile, Buffers, Readable, Writable
<1>2. m.at \in Nat /\ m.len \in Nat \ {0}
  BY MessagesAreInFile
<1>3. ~(m.at + m.len <= pos)
  BY <1>1, WholeIsItem
<1>4. Readable(buffer) <= m.len - 1
  BY <1>1, <1>2, <1>3
<1>5. CASE IsSocket
  <2>1. m.len - 1 + Datagram <= Capacity
    BY <1>5 DEF Fits
  <2>2. Datagram <= Capacity - Readable(buffer)
    BY <1>1, <1>2, <1>4, <2>1
  <2>3. ~AlmostFull
    <3>1. CASE Writable(buffer) < Datagram
      <4>1. Writable(RoomMade(buffer)) = Capacity - Readable(buffer)
        BY <3>1, RoomLemma DEF RoomMade
      <4> QED
        BY <1>1, <2>2, <4>1 DEF AlmostFull
    <3>2. CASE ~(Writable(buffer) < Datagram)
      BY <3>2 DEF AlmostFull, RoomMade
    <3> QED
      BY <3>1, <3>2
  <2>4. transport = "tcp" /\ unread["out"] = <<>> /\ "out" \notin open
    BY <1>5, <2>3 DEF LoadsNothing, OutputEnded, IsSocket
  <2>5. pos = size
    <3>1. PICK f : AddsUp(f)
      BY <1>5 DEF UnreadInv
    <3>2. Len(unread["out"]) = 0
      BY <2>4
    <3> QED
      BY <3>1, <3>2 DEF AddsUp
  <2> QED
    BY <1>1, <1>2, <1>3, <2>4, <2>5 DEF IsCutOff
<1>6. CASE ~IsSocket
  <2>1. PICK j \in 0 .. MaxLines : m.at = j * LineLength
    BY <1>6 DEF Fits
  <2>2. PICK k \in Nat : pos = k * LineLength
    BY <1>6 DEF UnreadInv
  <2>3. j \in Nat /\ LineLength \in Nat \ {0} /\ m.len = LineLength
    BY <1>6, <2>1, ChunkTypes DEF Fits
  <2>4. m.at < pos
    BY <1>1, <1>2
  <2>5. j * LineLength + LineLength <= k * LineLength
    BY <2>1, <2>2, <2>3, <2>4, NextMultiple
  <2> QED
    BY <1>3, <2>1, <2>2, <2>3, <2>5
<1> QED
  BY <1>5, <1>6

\* An excuse lasts: what was parsed stays parsed, and a connection that was
\* closed is not opened again.
LEMMA ExcusesLast ==
    ASSUME TaskInv, WindowInv, [Next]_vars, NEW m \in Messages, IsExcused(m)
    PROVE  IsExcused(m)'
<1>1. transport' = transport
  BY DEF Next, Loop, Produces, ProduceFromStream, Loads, SpawnsReconnect, TakesConnection,
     GivesUp, PortFails, Selects, Writes, BreaksOnFatal, Returns, WritesRecords,
     ToolReturns, TaskRuns, Reconnects, TimesOut, TakesRequest, AnswersRequest,
     SeesCancel, FlushTicks, UpdateTicks, CallIsDropped, HearsOfTask, Environment,
     Asks, Cancels, Closing, Peers, ReadFails, sourceVars, vars
<1>2. Fits(m)' <=> Fits(m)
  BY <1>1 DEF Fits, IsSocket
<1>3. parsed' = parsed \/ parsed' = parsed \cup ItemsIn(consumed, pos)
  BY DEF Next, Loop, Produces, ProduceFromStream, Loads, SpawnsReconnect, TakesConnection,
     GivesUp, PortFails, HasNoBytes, ParsesItems, DropsByte, SaysIncomplete,
     SaysParseError, SaysEof, SaysUnrecoverable, Says, Selects, Writes, BreaksOnFatal, Returns, WritesRecords,
     ToolReturns, TaskRuns, Reconnects, TimesOut, TakesRequest, AnswersRequest,
     SeesCancel, FlushTicks, UpdateTicks, CallIsDropped, HearsOfTask, Environment,
     Asks, Cancels, Closing, Peers, ReadFails, vars
<1>4. \/ UNCHANGED <<size, open, emptied>>
      \/ \E p \in Used, n \in 0 .. Capacity : Sends(p, n)
      \/ (\E p \in Used : Closes(p)) /\ UNCHANGED <<size, emptied>>
      \/ Connects /\ UNCHANGED <<size, emptied>>
  <2>1. CASE Produces
    BY <2>1 DEF Produces, ProduceFromStream, Loads, LoadsChunk, LoadsFrom, LoadsNothing,
       SpawnsReconnect, TakesConnection, GivesUp, PortFails, HasNoBytes, ParsesItems,
       DropsByte, Consume, SaysIncomplete, SaysParseError, SaysEof,
       SaysUnrecoverable, Says, fileVars, peerVars
  <2>2. CASE Environment \/ TaskRuns
    BY <2>2 DEF Environment, TaskRuns, Reconnects, Connects, ConnectFails, TriesAgain,
       Asks, Cancels, Closing, Peers, Closes, ReadFails, sourceVars, fileVars,
       peerVars
  <2>3. CASE ~(Produces \/ Environment \/ TaskRuns)
    BY <2>3 DEF Next, Loop, Selects, Writes, BreaksOnFatal, Returns,
       WritesRecords, ToolReturns, TimesOut, TakesRequest, AnswersRequest,
       SeesCancel, FlushTicks, UpdateTicks, CallIsDropped, HearsOfTask,
       sourceVars, fileVars, peerVars, vars
  <2> QED
    BY <2>1, <2>2, <2>3
<1>5. emptied > 0 => emptied' > 0
  <2>1. emptied \in Nat
    BY DEF WindowInv, UnreadInv
  <2>2. emptied' = emptied \/ emptied' = emptied + 1
    BY <1>4 DEF Sends
  <2> QED
    BY <2>1, <2>2
<1>6. IsCutOff(m) => IsCutOff(m)'
  <2> SUFFICES ASSUME IsCutOff(m) PROVE IsCutOff(m)'
    OBVIOUS
  <2>1. transport = "tcp" /\ "out" \notin open /\ Used = {"out"}
    BY DEF IsCutOff, Used
  <2>2. ~Connects
    BY <2>1 DEF Connects, TaskInv, EveryTaskIsHeld
  <2>3. ~\E p \in Used, n \in 0 .. Capacity : Sends(p, n)
    BY <2>1 DEF Sends
  <2>4. size' = size /\ "out" \notin open'
    BY <1>4, <2>1, <2>2, <2>3 DEF Closes
  <2> QED
    BY <1>1, <2>4 DEF IsCutOff
<1> QED
  BY <1>2, <1>3, <1>5, <1>6 DEF IsExcused

\* Every step keeps what is known of the messages.
LEMMA ResyncStep ==
    LinesFit /\ TaskInv /\ WindowInv /\ ResyncInv /\ [Next]_vars => ResyncInv'
<1> SUFFICES ASSUME LinesFit, TaskInv, WindowInv, ResyncInv, [Next]_vars
             PROVE  ResyncInv'
  OBVIOUS
<1>0. /\ \A m \in Messages : m.at \in Nat
      /\ \A m \in Messages : IsExcused(m) => IsExcused(m)'
      /\ consumed \in Nat /\ Readable(buffer) \in Int
  <2>1. \A m \in Messages : m.at \in Nat
    BY MessagesAreInFile
  <2>2. \A m \in Messages : IsExcused(m) => IsExcused(m)'
    BY ExcusesLast
  <2> QED
    BY <2>1, <2>2 DEF WindowInv, FileInv, FileTypeOK, Buffers, Readable
<1>1. ASSUME consumed' = consumed,
             step' = "more" => ItemsIn(consumed, pos)' = {},
             step' = "drop" =>
                \A m \in Messages : m.at = consumed => IsExcused(m)'
      PROVE  ResyncInv'
  BY <1>0, <1>1 DEF ResyncInv
<1>2. CASE Produces /\ Loads
  <2>1. PICK n \in Nat :
               /\ n = 0 => LoadsNothing \/ emptied > 0
               /\ step' = CASE step = "produce" -> "parse"
                            [] step = "more" -> IF n > 0 THEN "parse" ELSE "drop"
                            [] step = "reload" -> IF n > 0 THEN "parse" ELSE "waiting"
    BY <1>2, LoadKeepsWindow DEF WindowInv
  <2>2. step \in {"produce", "more", "reload"} /\ consumed' = consumed
    BY <1>2 DEF Loads, LoadSteps, LoadsChunk, LoadsFrom, LoadsNothing
  <2>3. step' # "more"
    BY <2>1, <2>2
  <2>4. ASSUME step' = "drop", NEW m \in Messages, m.at = consumed
        PROVE  IsExcused(m)'
    <3>1. step = "more" /\ n = 0
      BY <2>1, <2>2, <2>4
    <3>2. IsExcused(m)
      BY <2>1, <2>4, <3>1, NothingMoreLemma DEF WindowInv, DropInv, ResyncInv
    <3> QED
      BY <1>0, <3>2
  <2> QED
    BY <1>1, <2>2, <2>3, <2>4
<1>3. CASE Produces /\ ParsesItems
  <2> DEFINE items == ItemsIn(consumed, pos)
  <2>1. PICK n \in 1 .. Readable(buffer) :
            Taken(items) = consumed .. consumed + n - 1 /\ Consume(n)
    BY <1>3 DEF ParsesItems
  <2>2. /\ consumed' = consumed + n
        /\ parsed' = parsed \cup items /\ step' = "items"
    BY <1>3, <2>1 DEF ParsesItems, Consume
  <2>3. n \in Int
    BY <1>0
  <2>4. items \in SUBSET Messages
    BY DEF ItemsIn
  <2>5. ASSUME NEW m \in Messages, m.at < consumed'
        PROVE  IsExcused(m)'
    <3>1. CASE m.at < consumed
      BY <1>0, <3>1 DEF ResyncInv
    <3>2. CASE ~(m.at < consumed)
      <4>1. m.at \in consumed .. consumed + n - 1
        BY <1>0, <2>2, <2>3, <2>5, <3>2
      <4>2. m \in items
        BY <2>1, <2>4, <4>1, BeginsInItems
      <4> QED
        BY <2>2, <4>2 DEF IsExcused
    <3> QED
      BY <3>1, <3>2
  <2> QED
    BY <2>2, <2>5 DEF ResyncInv
<1>4. CASE Produces /\ SaysIncomplete
  <2>1. UNCHANGED <<consumed, pos>> /\ step' = "more" /\ ItemsIn(consumed, pos) = {}
    BY <1>4 DEF SaysIncomplete, Says, fileVars
  <2>2. ItemsIn(consumed, pos)' = {}
    BY <2>1 DEF ItemsIn
  <2> QED
    BY <1>1, <2>1, <2>2
<1>5. CASE Produces /\ SaysParseError
  <2>1. "parse" \in Verdicts(consumed)
    BY <1>5 DEF SaysParseError, Says
  <2>2. \A m \in Messages : m.at # consumed
    BY <2>1 DEF Verdicts
  <2>3. consumed' = consumed /\ step' # "more"
    BY <1>5 DEF SaysParseError, Says, fileVars
  <2> QED
    BY <1>1, <2>2, <2>3
<1>6. CASE Produces /\ DropsByte
  <2>1. /\ step = "drop" /\ consumed' = consumed + 1
        /\ step' \notin {"more", "drop"}
    BY <1>6 DEF DropsByte, Consume
  <2>2. ASSUME NEW m \in Messages, m.at < consumed' PROVE IsExcused(m)'
    <3>1. m.at < consumed \/ m.at = consumed
      BY <1>0, <2>1, <2>2
    <3> QED
      BY <1>0, <2>1, <3>1 DEF ResyncInv
  <2> QED
    BY <2>1, <2>2 DEF ResyncInv
<1>7. ASSUME consumed' = consumed, pos' = pos,
             step' \in {"more", "drop"} => step' = step
      PROVE  ResyncInv'
  <2>1. ItemsIn(consumed, pos)' = ItemsIn(consumed, pos)
    BY <1>7 DEF ItemsIn
  <2>2. step' = "drop" => \A m \in Messages : m.at = consumed => IsExcused(m)'
    BY <1>0, <1>7 DEF ResyncInv
  <2> QED
    BY <1>1, <1>7, <2>1, <2>2 DEF ResyncInv
<1>8. CASE Produces /\ (HasNoBytes \/ SaysEof \/ SaysUnrecoverable
                          \/ SpawnsReconnect \/ TakesConnection
                          \/ GivesUp \/ PortFails)
  <2>1. /\ consumed' = consumed /\ pos' = pos
        /\ step' \in {"more", "drop"} => step' = step
    BY <1>8 DEF HasNoBytes, SaysEof, SaysUnrecoverable, Says, SpawnsReconnect,
         TakesConnection, GivesUp, PortFails, fileVars
  <2> QED
    BY <1>7, <2>1
<1>9. CASE Environment \/ TaskRuns \/ UNCHANGED vars
  <2>1. consumed' = consumed /\ pos' = pos /\ (step' = step \/ step' = "fatal")
    BY <1>9 DEF Environment, TaskRuns, Reconnects, Asks, Cancels, Closing, Peers,
         Sends, Closes, ReadFails, vars, sourceVars, fileVars
  <2> QED
    BY <1>7, <2>1
<1>10. CASE TimesOut \/ TakesRequest \/ SeesCancel \/ FlushTicks \/ UpdateTicks
           \/ HearsOfTask \/ Selects \/ Writes \/ BreaksOnFatal \/ WritesRecords
           \/ AnswersRequest \/ Returns \/ ToolReturns
  <2>1. consumed' = consumed /\ pos' = pos /\ step' \notin {"more", "drop"}
    BY <1>10 DEF TimesOut, TakesRequest, SeesCancel, FlushTicks, UpdateTicks,
         CallIsDropped, HearsOfTask, Selects, Writes, BreaksOnFatal,
         WritesRecords, AnswersRequest, Returns, ToolReturns, sourceVars, fileVars
  <2> QED
    BY <1>7, <2>1
<1> QED
  BY <1>2, <1>3, <1>4, <1>5, <1>6, <1>8, <1>9, <1>10
     DEF Next, Loop, Produces, ProduceFromStream

\* Nothing was consumed at first.
LEMMA ResyncInit == Init => ResyncInv
<1> SUFFICES ASSUME Init PROVE ResyncInv
  OBVIOUS
<1>1. consumed = 0 /\ step = "select"
  BY DEF Init, StreamInit
<1>2. \A m \in Messages : ~(m.at < 0)
  BY MessagesAreInFile
<1> QED
  BY <1>1, <1>2 DEF ResyncInv

\* A message that was sent whole has no other excuse.
LEMMA ResyncKeeps == WindowInv /\ ResyncInv => WholeMessagesKept
<1> SUFFICES ASSUME WindowInv, ResyncInv, NEW m \in Messages,
                    m.at < consumed, m.at + m.len <= size, Fits(m)
             PROVE  m \in parsed \/ emptied > 0
  BY DEF WholeMessagesKept
<1>1. IsExcused(m)
  BY DEF ResyncInv
<1>2. m.at \in Nat /\ m.len \in Nat /\ size \in Nat
  BY MessagesAreInFile DEF WindowInv, FileInv, FileTypeOK
<1>3. ~IsCutOff(m)
  BY <1>2 DEF IsCutOff
<1> QED
  BY <1>1, <1>3 DEF IsExcused

-----------------------------------------------------------------------------
(* The rows.                                                                *)

\* What was written and what is collected are the rows of what was parsed, in
\* their order.
RowsInv ==
    /\ parsed \in SUBSET Messages
    /\ \A m \in parsed : m.at + m.len <= consumed
    /\ collected \in [text : Seq(Messages), attachments : Seq(Messages)]
    /\ rows \in [written : Seq(Messages), shown : Seq(Messages)]
    /\ rows.written \o collected.text = InFileOrder(Rows(parsed))
    /\ \E n \in 0 .. Len(rows.written) : rows.shown = SubSeq(rows.written, 1, n)

\* The items behind an offset follow those before it.
LEMMA ItemsJoin ==
    ASSUME NEW o \in Nat, NEW e \in Nat,
           NEW S \in SUBSET Messages, \A x \in S : x.at + x.len <= o,
           NEW T \in SUBSET Messages,
           \A y \in T : y.at >= o /\ y.at + y.len <= e
    PROVE  /\ InFileOrder(S \cup T) = InFileOrder(S) \o InFileOrder(T)
           /\ InFileOrder(S) \in Seq(Messages)
           /\ InFileOrder(T) \in Seq(Messages)
<1>1. File!IsFiniteSet(S) /\ File!IsFiniteSet(T)
  BY FileAssumptions, File!FewMessages
<1>2. \A x \in S, y \in T : x.at < y.at
  <2> SUFFICES ASSUME NEW x \in S, NEW y \in T PROVE x.at < y.at
    OBVIOUS
  <2>1. x.at \in Nat /\ x.len \in Nat \ {0} /\ y.at \in Nat /\ y.at >= o
        /\ x.at + x.len <= o
    BY MessagesAreInFile
  <2> QED
    BY <2>1
<1>3. /\ File!InFileOrder(S \cup T) = File!InFileOrder(S) \o File!InFileOrder(T)
      /\ File!InFileOrder(S) \in Seq(Messages)
      /\ File!InFileOrder(T) \in Seq(Messages)
  BY <1>1, <1>2, FileAssumptions, File!OrdersJoin, File!OrderIsSeq
<1>4. ASSUME NEW X PROVE File!InFileOrder(X) = InFileOrder(X)
  <2>1. File!Cardinality(X) = Cardinality(X)
    BY DEF File!Cardinality, Cardinality
  <2> QED
    BY <2>1 DEF File!InFileOrder, InFileOrder
<1> QED
  BY <1>3, <1>4

\* Of no messages there is one order.
LEMMA NoRows == InFileOrder({}) = <<>>
<1>1. File!InFileOrder({}) = <<>>
  BY FileAssumptions, File!NothingInOrder
<1>2. File!Cardinality({}) = Cardinality({})
  BY DEF File!Cardinality, Cardinality
<1> QED
  BY <1>1, <1>2 DEF File!InFileOrder, InFileOrder

\* The beginning of a sequence is that of a longer one.
LEMMA BeginningStays ==
    ASSUME NEW s \in Seq(Messages), NEW t \in Seq(Messages),
           NEW n \in 0 .. Len(s)
    PROVE  /\ n \in 0 .. Len(s \o t)
           /\ SubSeq(s \o t, 1, n) = SubSeq(s, 1, n)
           /\ s \o t \in Seq(Messages) /\ Len(s \o t) \in Nat
           /\ SubSeq(s \o t, 1, Len(s \o t)) = s \o t
<1>1. /\ s \o t \in Seq(Messages) /\ Len(s) \in Nat /\ Len(t) \in Nat
      /\ Len(s \o t) = Len(s) + Len(t)
      /\ \A i \in 1 .. Len(s) + Len(t) :
            (s \o t)[i] = IF i <= Len(s) THEN s[i] ELSE t[i - Len(s)]
  BY ConcatProperties
<1> DEFINE u == s \o t
<1> HIDE DEF u
<1>2. n \in 0 .. Len(u) /\ Len(u) \in Nat /\ u \in Seq(Messages)
  BY <1>1 DEF u
<1>3. \A i \in 1 .. n : u[i] = s[i]
  BY <1>1 DEF u
<1>4. SubSeq(u, 1, n) = [i \in 1 .. n |-> u[i]] /\ SubSeq(s, 1, n) = [i \in 1 .. n |-> s[i]]
  <2>1. ASSUME NEW q \in Seq(Messages), n <= Len(q)
        PROVE  SubSeq(q, 1, n) = [i \in 1 .. n |-> q[i]]
    <3>1. 1 \in 1 .. Len(q) + 1 /\ n \in 0 .. Len(q)
      BY <2>1
    <3>2. /\ SubSeq(q, 1, n) \in Seq(Messages)
          /\ Len(SubSeq(q, 1, n)) = n
          /\ \A i \in 1 .. n : SubSeq(q, 1, n)[i] = q[i]
      BY <3>1
    <3> DEFINE z == SubSeq(q, 1, n)
    <3> HIDE DEF z
    <3>3. z = [i \in 1 .. n |-> z[i]]
      BY <3>2 DEF z
    <3> QED
      BY <3>2, <3>3 DEF z
  <2> QED
    BY <1>2, <2>1
<1>5. SubSeq(u, 1, n) = SubSeq(s, 1, n)
  BY <1>3, <1>4
<1>6. SubSeq(u, 1, Len(u)) = u
  BY <1>2, SubSeqFull
<1> QED
  BY <1>2, <1>5, <1>6 DEF u

\* Initially nothing was parsed.
LEMMA RowsInit == Init => RowsInv
<1> SUFFICES ASSUME Init PROVE RowsInv
  OBVIOUS
<1>1. /\ parsed = {} /\ collected = [text |-> <<>>, attachments |-> <<>>]
      /\ rows = [written |-> <<>>, shown |-> <<>>]
  BY DEF Init, NothingCollected
<1>2. <<>> \in Seq(Messages) /\ <<>> \o <<>> = <<>>
  OBVIOUS
<1>3. Rows(parsed) = {}
  BY <1>1 DEF Rows
<1>4. rows.written \o collected.text = InFileOrder(Rows(parsed))
  BY <1>1, <1>2, <1>3, NoRows
<1>5. \E n \in 0 .. Len(rows.written) : rows.shown = SubSeq(rows.written, 1, n)
  <2>1. 0 \in 0 .. Len(rows.written) /\ SubSeq(rows.written, 1, 0) = <<>>
    BY <1>1
  <2> QED
    BY <1>1, <2>1
<1> QED
  BY <1>1, <1>2, <1>4, <1>5 DEF RowsInv

\* Steps that neither parse nor write keep the rows.
LEMMA StillRows ==
    ASSUME RowsInv, consumed \in Nat, consumed' \in Nat, consumed <= consumed',
           UNCHANGED <<parsed, collected, rows>>
    PROVE  RowsInv'
<1>1. \A m \in parsed : m.at + m.len <= consumed'
  <2> SUFFICES ASSUME NEW m \in parsed PROVE m.at + m.len <= consumed'
    OBVIOUS
  <2>1. m.at \in Nat /\ m.len \in Nat /\ m.at + m.len <= consumed
    BY MessagesAreInFile DEF RowsInv
  <2> QED
    BY <2>1
<1> QED
  BY <1>1 DEF RowsInv, Rows

\* The items of a call are the next ones of the stream.
LEMMA ItemsFollow ==
    ASSUME RowsInv, FileInv, FileInv', ParsesItems, UNCHANGED rows
    PROVE  RowsInv'
<1> DEFINE items == ItemsIn(consumed, pos)
           text == collected.text
           attachments == collected.attachments
           written == rows.written
           R == InFileOrder(Rows(items))
           A == InFileOrder(Attachments(items))
<1>1. PICK n \in 1 .. Readable(buffer) :
          Taken(items) = consumed .. consumed + n - 1 /\ Consume(n)
  BY DEF ParsesItems
<1>2. /\ consumed' = consumed + n /\ parsed' = parsed \cup items
      /\ collected' = [text |-> text \o R, attachments |-> attachments \o A]
  BY <1>1 DEF ParsesItems, Consume
<1>3. consumed \in Nat /\ consumed' \in Nat /\ n \in Nat
  BY <1>1 DEF FileInv, FileTypeOK, Buffers, Readable
<1>4. items \in SUBSET Messages /\ \A m \in items : m.at >= consumed
  BY DEF ItemsIn
<1>5. ASSUME NEW m \in items PROVE m.at + m.len <= consumed'
  <2>1. m.at \in Nat /\ m.len \in Nat \ {0}
    BY <1>4, MessagesAreInFile
  <2>2. m.at + m.len - 1 \in Taken(items)
    BY <2>1 DEF Bytes, Taken
  <2> QED
    BY <1>1, <1>2, <1>3, <2>1, <2>2
<1>6. ASSUME NEW m \in parsed
      PROVE  m \in Messages /\ m.at + m.len <= consumed /\ m.at + m.len <= consumed'
  <2>1. m \in Messages /\ m.at \in Nat /\ m.len \in Nat \ {0} /\ m.at + m.len <= consumed
    BY MessagesAreInFile DEF RowsInv
  <2> QED
    BY <1>2, <1>3, <2>1
<1> HIDE DEF items
<1>7. ASSUME NEW S \in SUBSET parsed, NEW T \in SUBSET items
      PROVE  /\ InFileOrder(S \cup T) = InFileOrder(S) \o InFileOrder(T)
             /\ InFileOrder(S) \in Seq(Messages) /\ InFileOrder(T) \in Seq(Messages)
  <2>1. /\ S \in SUBSET Messages /\ T \in SUBSET Messages
        /\ \A x \in S : x.at + x.len <= consumed
        /\ \A y \in T : y.at >= consumed /\ y.at + y.len <= consumed'
    BY <1>4, <1>5, <1>6
  <2> QED
    BY <1>3, <2>1, ItemsJoin
<1>8. /\ Rows(parsed) \in SUBSET parsed /\ Rows(items) \in SUBSET items
      /\ Attachments(items) \in SUBSET items /\ {} \in SUBSET parsed
      /\ Rows(parsed \cup items) = Rows(parsed) \cup Rows(items)
  BY DEF Rows, Attachments
<1>9. /\ text \in Seq(Messages) /\ attachments \in Seq(Messages)
      /\ written \in Seq(Messages)
      /\ written \o text = InFileOrder(Rows(parsed))
  BY DEF RowsInv
<1>10. /\ R \in Seq(Messages) /\ A \in Seq(Messages)
       /\ InFileOrder(Rows(parsed')) = InFileOrder(Rows(parsed)) \o R
  BY <1>2, <1>7, <1>8
<1> HIDE DEF R, A, written, text, attachments
<1>11. text \o R \in Seq(Messages) /\ attachments \o A \in Seq(Messages)
  BY <1>9, <1>10, ConcatProperties
<1>12. (written \o text) \o R = written \o (text \o R)
  <2>1. written \in Seq(Messages) /\ text \in Seq(Messages) /\ R \in Seq(Messages)
    BY <1>9, <1>10
  <2> QED
    BY <2>1, ConcatAssociative
<1>13. rows'.written = written /\ collected'.text = text \o R
  BY <1>2 DEF written
<1>14. rows'.written \o collected'.text = InFileOrder(Rows(parsed'))
  BY <1>9, <1>10, <1>12, <1>13
<1>15. parsed' \in SUBSET Messages /\ \A m \in parsed' : m.at + m.len <= consumed'
  BY <1>2, <1>4, <1>5, <1>6
<1>16. collected' \in [text : Seq(Messages), attachments : Seq(Messages)]
  BY <1>2, <1>11
<1> QED
  BY <1>14, <1>15, <1>16 DEF RowsInv, Rows

\* What is written becomes rows; a flush shows them all.
LEMMA TextIsWritten ==
    ASSUME RowsInv, UNCHANGED <<parsed, consumed>>,
           collected' = NothingCollected,
           rows'.written = rows.written \o collected.text,
           rows' \in [written : Seq(Messages), shown : Seq(Messages)],
           rows'.shown \in {rows.shown, rows'.written}
    PROVE  RowsInv'
<1> DEFINE more == rows.written \o collected.text
<1>1. /\ rows.written \in Seq(Messages) /\ collected.text \in Seq(Messages)
      /\ more = InFileOrder(Rows(parsed))
      /\ parsed \in SUBSET Messages /\ \A m \in parsed : m.at + m.len <= consumed
  BY DEF RowsInv
<1>2. PICK n \in 0 .. Len(rows.written) : rows.shown = SubSeq(rows.written, 1, n)
  BY DEF RowsInv
<1>3. /\ n \in 0 .. Len(more) /\ SubSeq(more, 1, n) = rows.shown
      /\ more \in Seq(Messages) /\ Len(more) \in 0 .. Len(more)
      /\ SubSeq(more, 1, Len(more)) = more
  <2> DEFINE s == rows.written
             t == collected.text
  <2>1. s \in Seq(Messages) /\ t \in Seq(Messages) /\ n \in 0 .. Len(s)
    BY <1>1, <1>2
  <2> HIDE DEF s, t
  <2>2. /\ n \in 0 .. Len(s \o t)
        /\ SubSeq(s \o t, 1, n) = SubSeq(s, 1, n)
        /\ s \o t \in Seq(Messages) /\ Len(s \o t) \in Nat
        /\ SubSeq(s \o t, 1, Len(s \o t)) = s \o t
    BY <2>1, BeginningStays
  <2>3. more = s \o t /\ rows.shown = SubSeq(s, 1, n)
    BY <1>2 DEF s, t
  <2> HIDE DEF more
  <2>4. Len(more) \in 0 .. Len(more)
    BY <2>2, <2>3
  <2> QED
    BY <2>2, <2>3, <2>4
<1>4. collected'.text = <<>> /\ <<>> \in Seq(Messages)
      /\ collected' = [text |-> <<>>, attachments |-> <<>>]
  BY DEF NothingCollected
<1> HIDE DEF more
<1>5. more \o <<>> = more
  BY <1>3
<1>6. rows'.written = more
  BY DEF more
<1>7. \E k \in 0 .. Len(more) : rows'.shown = SubSeq(more, 1, k)
  BY <1>3, <1>6
<1>8. rows'.written \o collected'.text = InFileOrder(Rows(parsed'))
  BY <1>1, <1>4, <1>5, <1>6 DEF Rows
<1>9. \E k \in 0 .. Len(rows'.written) : rows'.shown = SubSeq(rows'.written, 1, k)
  BY <1>6, <1>7
<1>10. collected' \in [text : Seq(Messages), attachments : Seq(Messages)]
  BY <1>4
<1> QED
  BY <1>1, <1>8, <1>9, <1>10 DEF RowsInv, Rows

\* The ways to write: with or without a flush.
LEMMA WaysToWrite ==
    ASSUME RowsInv
    PROVE  LET more == rows.written \o collected.text IN
           /\ more \in Seq(Messages) /\ rows.shown \in Seq(Messages)
           /\ [rows EXCEPT !.written = @ \o collected.text] =
                [written |-> more, shown |-> rows.shown]
           /\ \A r \in Written(collected.text) :
               /\ r \in {[written |-> more, shown |-> rows.shown],
                         [written |-> more, shown |-> more]}
               /\ FlushedRows(r) = [written |-> more, shown |-> more]
<1> DEFINE written == rows.written
           shown == rows.shown
           text == collected.text
           more == written \o text
<1>1. /\ written \in Seq(Messages) /\ shown \in Seq(Messages) /\ text \in Seq(Messages)
      /\ rows = [written |-> written, shown |-> shown]
  BY DEF RowsInv
<1>2. more \in Seq(Messages)
  BY <1>1, ConcatProperties
<1>3. [rows EXCEPT !.written = @ \o text] = [written |-> more, shown |-> shown]
  <2>1. [rows EXCEPT !.written = more] = [written |-> more, shown |-> shown]
    <3> HIDE DEF written, shown, text, more
    <3> QED
      BY <1>1
  <2> QED
    BY <2>1
<1>4. ASSUME NEW r \in Written(text)
      PROVE  /\ r \in {[written |-> more, shown |-> shown], [written |-> more, shown |-> more]}
             /\ FlushedRows(r) = [written |-> more, shown |-> more]
  <2> HIDE DEF shown, more
  <2>1. \/ r = [written |-> more, shown |-> shown]
        \/ r = [[written |-> more, shown |-> shown] EXCEPT !.shown = more]
    BY <1>3 DEF Written
  <2> QED
    BY <2>1 DEF FlushedRows
<1> QED
  BY <1>1, <1>2, <1>3, <1>4

\* A flush shows what was written, and nothing else changes.
LEMMA FlushShows ==
    ASSUME RowsInv, UNCHANGED <<parsed, consumed, collected>>,
           rows' = FlushedRows(rows)
    PROVE  RowsInv'
<1>1. /\ rows.written \in Seq(Messages)
      /\ rows' = [written |-> rows.written, shown |-> rows.written]
  BY DEF RowsInv, FlushedRows
<1> DEFINE w == rows.written
<1> HIDE DEF w
<1>2. /\ w \in Seq(Messages) /\ Len(w) \in 0 .. Len(w) /\ SubSeq(w, 1, Len(w)) = w
  <2>1. w \in Seq(Messages)
    BY <1>1 DEF w
  <2>2. Len(w) \in Nat /\ SubSeq(w, 1, Len(w)) = w
    BY <2>1, SubSeqFull
  <2> QED
    BY <2>1, <2>2
<1>3. rows'.written = w /\ rows'.shown = w /\ rows.written = w
  BY <1>1 DEF w
<1>4. \E k \in 0 .. Len(rows'.written) : rows'.shown = SubSeq(rows'.written, 1, k)
  BY <1>2, <1>3
<1>5. rows' \in [written : Seq(Messages), shown : Seq(Messages)]
  BY <1>1
<1>6. rows'.written \o collected'.text = InFileOrder(Rows(parsed'))
  BY <1>3 DEF RowsInv, Rows
<1> QED
  BY <1>4, <1>5, <1>6 DEF RowsInv

\* Every step keeps the rows.
LEMMA RowsStep == FileInv /\ FileInv' /\ RowsInv /\ [Next]_vars => RowsInv'
<1> SUFFICES ASSUME FileInv, FileInv', RowsInv, [Next]_vars
             PROVE  RowsInv'
  OBVIOUS
<1>0. consumed \in Nat /\ consumed' \in Nat
  BY DEF FileInv, FileTypeOK
<1>1. CASE Produces /\ ParsesItems
  BY <1>1, ItemsFollow DEF Produces, loopVars
<1>2. CASE Produces /\ DropsByte
  <2>1. consumed' = consumed + 1 /\ UNCHANGED <<parsed, collected, rows>>
    BY <1>2 DEF Produces, DropsByte, Consume, loopVars
  <2> QED
    BY <1>0, <2>1, StillRows
<1>3. CASE Produces /\ ~ParsesItems /\ ~DropsByte
  <2>1. UNCHANGED <<consumed, parsed, collected, rows>>
    BY <1>3 DEF Produces, ProduceFromStream, Loads, LoadsChunk, LoadsFrom,
         LoadsNothing, SpawnsReconnect, TakesConnection, GivesUp, PortFails,
         HasNoBytes, SaysIncomplete, SaysParseError, SaysEof, SaysUnrecoverable,
         Says, fileVars, loopVars
  <2> QED
    BY <1>0, <2>1, StillRows
<1>4. CASE Writes
  <2>1. PICK r \in Written(collected.text) : rows' = r \/ rows' = FlushedRows(r)
    BY <1>4 DEF Writes
  <2>2. /\ UNCHANGED <<parsed, consumed>> /\ collected' = NothingCollected
    BY <1>4 DEF Writes, sourceVars, fileVars
  <2> DEFINE more == rows.written \o collected.text
  <2>3. /\ more \in Seq(Messages) /\ rows.shown \in Seq(Messages)
        /\ r \in {[written |-> more, shown |-> rows.shown],
                  [written |-> more, shown |-> more]}
        /\ FlushedRows(r) = [written |-> more, shown |-> more]
    BY WaysToWrite
  <2> HIDE DEF more
  <2>4. /\ rows'.written = more
        /\ rows' \in [written : Seq(Messages), shown : Seq(Messages)]
        /\ rows'.shown \in {rows.shown, rows'.written}
    BY <2>1, <2>3
  <2> QED
    BY <2>2, <2>4, TextIsWritten DEF more
<1>5. CASE WritesRecords
  <2>1. /\ UNCHANGED <<parsed, consumed>> /\ collected' = NothingCollected
        /\ rows' = [rows EXCEPT !.written = @ \o collected.text]
    BY <1>5 DEF WritesRecords, sourceVars, fileVars
  <2> DEFINE more == rows.written \o collected.text
  <2>2. /\ more \in Seq(Messages) /\ rows.shown \in Seq(Messages)
        /\ rows' = [written |-> more, shown |-> rows.shown]
    BY <2>1, WaysToWrite
  <2> HIDE DEF more
  <2>3. /\ rows'.written = more
        /\ rows' \in [written : Seq(Messages), shown : Seq(Messages)]
        /\ rows'.shown \in {rows.shown, rows'.written}
    BY <2>2
  <2> QED
    BY <2>1, <2>3, TextIsWritten DEF more
<1>6. CASE FlushTicks \/ ToolReturns
  <2>1. UNCHANGED <<parsed, consumed, collected>> /\ rows' = FlushedRows(rows)
    BY <1>6 DEF FlushTicks, ToolReturns, CallIsDropped, sourceVars, fileVars
  <2> QED
    BY <2>1, FlushShows
<1>7. CASE TimesOut \/ TakesRequest \/ SeesCancel \/ UpdateTicks
           \/ HearsOfTask \/ Selects \/ BreaksOnFatal \/ AnswersRequest
           \/ Returns \/ Environment \/ TaskRuns \/ UNCHANGED vars
  <2>1. UNCHANGED <<consumed, parsed, collected, rows>>
    BY <1>7 DEF TimesOut, TakesRequest, SeesCancel, UpdateTicks, CallIsDropped,
         HearsOfTask, Selects, BreaksOnFatal, AnswersRequest, Returns,
         Environment, Asks, Cancels, Closing, Peers, Sends, Closes, ReadFails,
         TaskRuns, Reconnects, sourceVars, fileVars, loopVars, vars
  <2> QED
    BY <1>0, <2>1, StillRows
<1> QED
  BY <1>1, <1>2, <1>3, <1>4, <1>5, <1>6, <1>7 DEF Next, Loop

\* Whichever calls are dropped in whichever load, every message that was sent
\* whole and fits is parsed, and what was parsed is written once, in order, and
\* shown from the beginning; of lines as long as the buffer takes them all.
THEOREM RowsFollow ==
    ASSUME LinesFit
    PROVE  Spec => []RowsFollowTheStream
<1> DEFINE Inv == TaskInv /\ WindowInv /\ ResyncInv /\ RowsInv
<1>1. Init => Inv
  <2>1. Init => TaskInv
    BY TaskInit
  <2> QED
    BY <2>1, WindowInit, ResyncInit, RowsInit
<1>2. Inv /\ [Next]_vars => Inv'
  BY TaskStep, WindowStep, ResyncStep, RowsStep DEF WindowInv
<1>3. Inv => RowsFollowTheStream
  BY ResyncKeeps DEF RowsFollowTheStream, RowsInv
<1> HIDE DEF Inv
<1> QED
  BY <1>1, <1>2, <1>3, PTL DEF Spec
=============================================================================
