----------------------------- MODULE SessionFile -----------------------------
(***************************************************************************)
(* The session file (core: session/state/session_file.rs, source_ids.rs),  *)
(* its map of bytes to rows (processor: text_source.rs, grabber) and the   *)
(* searcher that follows it (search/searchers/mod.rs).                     *)
(*                                                                         *)
(* A file is a sequence of bytes.  A byte ends a line, or is one that the  *)
(* filters match, or is another; next to it stands the source that wrote   *)
(* it.  A generated file is written by the operations through a buffer; a  *)
(* linked one is the observed text file, which its owner appends to.       *)
(* Positions and rows count from 0, as in the code.                        *)
(***************************************************************************)
EXTENDS Integers, Sequences, FiniteSets

CONSTANTS
  Sources,      \* ids of the sources that write to a generated file
  Observed,     \* id of the source whose file is linked
  NoSource,
  Texts,        \* what is written at once: sequences of "m", "x" and "nl"
  Origins,      \* of the session file: "generated", "linked"
  MaxRanges,    \* bound: a read fails only while fewer ranges are credited
  QueueSize,    \* bound: requests that wait for the searchers
  MaxBytes      \* bound: length of the file

ASSUME SessionFileAssumption ==
  /\ NoSource \notin Sources \cup {Observed}
  /\ Origins \subseteq {"generated", "linked"}
  /\ QueueSize \in Nat \ {0}
  /\ MaxRanges \in Nat /\ MaxBytes \in Nat

VARIABLES
  origin,    \* of the session file
  file,      \* bytes on disk
  buffer,    \* bytes in the writer
  recent,    \* source that wrote last
  metadata,  \* the slots, or NoMetadata after a failed update
  ranges,    \* SourceIDs.map
  announced, \* rows the client was told of
  queue,     \* requests for the searchers
  asked,     \* rows and bytes a new search has got
  holder     \* of the search: its position and what it has reported

bytes == <<origin, file, buffer, recent>>
search == <<asked, holder>>
vars == <<bytes, metadata, ranges, announced, queue, search>>

Slot == [from : Nat, to : Nat, first : Nat, last : Nat]
NoMetadata == [known |-> FALSE, slots |-> {}]
Nobody == [at |-> "none", bytes |-> 0, lines |-> 0, found |-> {}]
NotAsked == [asked |-> FALSE, rows |-> 0, bytes |-> 0]

Init ==
  /\ origin \in Origins
  /\ file = <<>> /\ buffer = <<>> /\ recent = NoSource
  /\ metadata = NoMetadata /\ ranges = <<>>
  /\ announced = 0 /\ queue = <<>>
  /\ asked = NotAsked /\ holder = Nobody

-----------------------------------------------------------------------------
(* Lines.  Those of the bytes a .. b are named by where they end: at a      *)
(* newline, or at b. *)

Is(f, i) == f[i + 1].is
Largest(S) == CHOOSE i \in S : \A j \in S : j <= i

Newlines(f, a, b) == {i \in a .. b : Is(f, i) = "nl"}
Ends(f, a, b) == Newlines(f, a, b) \cup (a .. b \cap {b})
Index(f, a, b, e) == Cardinality({i \in Ends(f, a, b) : i < e})
Start(f, a, b, e) == Largest({a} \cup {i + 1 : i \in Newlines(f, a, e - 1)})
LineAt(f, a, b, k) ==
  LET e == CHOOSE i \in Ends(f, a, b) : Index(f, a, b, i) = k
  IN  [from |-> Start(f, a, b, e), to |-> e]
Matches(f, l) == \E i \in l.from .. l.to : Is(f, i) = "m"

-----------------------------------------------------------------------------
(* The grabber. *)

LastSlot(md) == CHOOSE s \in md.slots : \A t \in md.slots : t.to <= s.to
ReadBytes(md) == IF md.slots = {} THEN 0 ELSE LastSlot(md).to
Len1(md) == IF md.slots = {} THEN 0 ELSE LastSlot(md).last + 1
NextByteAtEnd(md) == ReadBytes(md)   \* slip: the end is read again
NextByte(md) == IF md.slots = {} THEN 0 ELSE LastSlot(md).to + 1

(* from_file: the file is read from where the last slot ended.  A slot ends *)
(* with a chunk at the last newline that is in the buffer, so that the      *)
(* slots may end at any of the newlines, the last one included; what comes  *)
(* after it is a slot that counts as one line. *)
SlotsAt(f, md, cuts) ==
  LET next == NextByte(md)
      end == Len(f) - 1
      Line(i) == Len1(md) + Cardinality(Newlines(f, next, i))
      From(c) == Largest({next} \cup {i + 1 : i \in {x \in cuts : x < c}})
      rest == Largest({next} \cup {i + 1 : i \in cuts})
  IN  {[from |-> From(c), to |-> c, first |-> Line(From(c) - 1), last |-> Line(c) - 1] : c \in cuts}
      \cup {[from |-> rest, to |-> end, first |-> Line(end), last |-> Line(end)] :
              x \in {rest} \cap next .. end}

Cuts(f, md) ==
  LET nl == Newlines(f, NextByte(md), Len(f) - 1)
  IN  {c \in SUBSET nl : nl # {} => Largest(nl) \in c}

(* The rows it has found, of which an unterminated line is none. *)
Processed(f, md) ==
  LET n == Cardinality(Newlines(f, NextByte(md), Len(f) - 1))
  IN  Len1(md) .. Len1(md) + n - 1

-----------------------------------------------------------------------------
(* SessionFile::update, on a file f and for a source. *)

RangesWith(rs, rows, source) ==
  IF rows = {} THEN rs
  ELSE Append(rs, [from |-> CHOOSE i \in rows : \A j \in rows : i <= j,
                   to |-> Largest(rows), source |-> source])

Updates(f, md, rs, source) ==
  {[metadata |-> [known |-> TRUE, slots |-> md.slots \cup SlotsAt(f, md, c)],
    ranges |-> RangesWith(rs, Processed(f, md), source)] : c \in Cuts(f, md)}

Reads(f, source) ==
  \E u \in Updates(f, metadata, ranges, source) :
    metadata' = u.metadata /\ ranges' = u.ranges

(* The metadata was taken and is not given back. *)
ReadFails(rs) == Len(rs) < MaxRanges /\ metadata' = NoMetadata /\ ranges' = rs

UpdateOf(md) == [is |-> "update", rows |-> Len1(md), bytes |-> ReadBytes(md)]

(* update_searchers, when the number of rows has changed. *)
AnnouncesKnown(md) ==   \* slip: nothing is compared after a failed update
  IF md.known /\ Len1(metadata') # Len1(md)
  THEN /\ announced' = Len1(metadata') /\ Len(queue) < QueueSize
       /\ queue' = Append(queue, UpdateOf(metadata'))
  ELSE UNCHANGED <<announced, queue>>

Announces(md) ==
  IF Len1(metadata') # Len1(md)
  THEN /\ announced' = Len1(metadata') /\ Len(queue) < QueueSize
       /\ queue' = Append(queue, UpdateOf(metadata'))
  ELSE UNCHANGED <<announced, queue>>

Quiet == UNCHANGED <<announced, queue>>

(* The operations. *)

Bytes(s, text) == [i \in 1 .. Len(text) |-> [is |-> text[i], of |-> s]]
RoomFor(text) == Len(file) + Len(buffer) + Len(text) <= MaxBytes

IsSourceSameAlways(s) == TRUE   \* slip

IsSourceSame(s) == recent \in {s, NoSource}

(* SessionFile::write.  What was written by another source is flushed       *)
(* before, and the rest if the last flush is some time ago. *)
WriteKeeps(s, text) ==
  /\ IsSourceSame(s) /\ buffer' = buffer \o Bytes(s, text)
  /\ UNCHANGED <<file, metadata, ranges>> /\ Quiet

WriteFlushes(s, text) ==
  /\ IsSourceSame(s)
  /\ file' = file \o buffer \o Bytes(s, text) /\ buffer' = <<>>
  /\ \/ Reads(file', s) /\ Announces(metadata)
     \/ ReadFails(ranges) /\ Quiet

SwitchKeeps(s, text) ==
  /\ ~IsSourceSame(s)
  /\ file' = file \o buffer /\ buffer' = Bytes(s, text)
  /\ Reads(file', recent) /\ Quiet

SwitchFlushes(s, text) ==
  /\ ~IsSourceSame(s)
  /\ file' = file \o buffer \o Bytes(s, text) /\ buffer' = <<>>
  /\ \E u \in Updates(file \o buffer, metadata, ranges, recent) :
       \/ /\ \E v \in Updates(file', u.metadata, u.ranges, s) :
               metadata' = v.metadata /\ ranges' = v.ranges
          /\ Announces(u.metadata)
       \/ ReadFails(u.ranges) /\ Quiet

WriteSessionFile(s, text) ==
  /\ origin = "generated" /\ RoomFor(text)
  /\ \/ WriteKeeps(s, text) \/ WriteFlushes(s, text)
     \/ SwitchKeeps(s, text) \/ SwitchFlushes(s, text)
  /\ recent' = s
  /\ UNCHANGED <<origin, search>>

(* The flush before the write fails, and the write is not done. *)
SwitchFails(s) ==
  /\ origin = "generated" /\ ~IsSourceSame(s)
  /\ file' = file \o buffer /\ buffer' = <<>>
  /\ ReadFails(ranges) /\ Quiet
  /\ UNCHANGED <<origin, recent, search>>

FlushSessionFile ==
  /\ origin = "generated"
  /\ file' = file \o buffer /\ buffer' = <<>>
  /\ \/ Reads(file', recent) /\ Announces(metadata)
     \/ ReadFails(ranges) /\ Quiet
  /\ UNCHANGED <<origin, recent, search>>

(* The linked file grows, and the tracker has it read. *)
FileGrows(text) ==
  /\ origin = "linked" /\ RoomFor(text)
  /\ file' = file \o Bytes(Observed, text)
  /\ UNCHANGED <<origin, buffer, recent, metadata, ranges, announced, queue, search>>

UpdateSession ==
  /\ origin = "linked"
  /\ \/ Reads(file, Observed) /\ Announces(metadata)
     \/ ReadFails(ranges) /\ Quiet
  /\ UNCHANGED <<bytes, search>>

-----------------------------------------------------------------------------
(* The searcher. *)

PositionAtEnd(n) == n   \* slip: the next search begins at the end

(* read_bytes is the position of the last byte; what is searched ends       *)
(* before it, and the next search begins behind it. *)
PositionAfter(n) == n + 1

Found(h, a, b) ==
  {h.lines + Index(file, a, b, e) :
     e \in {x \in Ends(file, a, b) : Matches(file, [from |-> Start(file, a, b, x), to |-> x])}}

SearchedTo(h, rows, n) ==
  IF n = 0 \/ n <= h.bytes THEN h   \* nothing new, or refused
  ELSE [h EXCEPT !.found = @ \cup Found(h, h.bytes, n - 1),
                 !.lines = rows, !.bytes = PositionAfter(n)]

(* A new search learns the length of the session file and then, once the    *)
(* searchers have done what was asked before, gets a holder. *)
GetStreamLen ==
  /\ holder.at = "none" /\ ~asked.asked
  /\ asked' = [asked |-> TRUE, rows |-> Len1(metadata), bytes |-> ReadBytes(metadata)]
  /\ UNCHANGED <<bytes, metadata, ranges, announced, queue, holder>>

GetSearchHolder ==
  /\ holder.at = "none" /\ asked.asked /\ queue = <<>>
  /\ holder' = [holder EXCEPT !.at = "inuse"]
  /\ UNCHANGED <<bytes, metadata, ranges, announced, queue, asked>>

ExecuteSearch ==
  /\ holder.at = "inuse" /\ asked.asked /\ Len(queue) < QueueSize
  /\ holder' = SearchedTo(holder, asked.rows, asked.bytes)
  /\ asked' = NotAsked
  /\ queue' = Append(queue, [is |-> "return", rows |-> 0, bytes |-> 0])
  /\ UNCHANGED <<bytes, metadata, ranges, announced>>

(* Updates pass a holder that is not there. *)
HandleRequest ==
  /\ queue # <<>> /\ queue' = Tail(queue)
  /\ LET r == Head(queue) IN
     holder' = IF r.is = "return" THEN [holder EXCEPT !.at = "free"]
               ELSE IF holder.at = "free" THEN SearchedTo(holder, r.rows, r.bytes)
               ELSE holder
  /\ UNCHANGED <<bytes, metadata, ranges, announced, asked>>

Next ==
  \/ \E s \in Sources, t \in Texts : WriteSessionFile(s, t)
  \/ \E s \in Sources : SwitchFails(s)
  \/ FlushSessionFile
  \/ \E t \in Texts : FileGrows(t)
  \/ UpdateSession
  \/ GetStreamLen \/ GetSearchHolder \/ ExecuteSearch \/ HandleRequest

Spec == Init /\ [][Next]_vars

-----------------------------------------------------------------------------
(* What the client gets. *)

(* SessionFile::grab: the slots that hold the ends of the range are read,   *)
(* and the lines before and after it dropped. *)
Grabbed(lo, hi) ==
  LET start == CHOOSE s \in metadata.slots : lo \in s.first .. s.last
      end == CHOOSE s \in metadata.slots : hi \in s.first .. s.last
      total == end.last - start.first + 1
      taken == {k \in 0 .. total - (end.last - hi) - 1 :
                  k < Cardinality(Ends(file, start.from, end.to)) /\ k >= lo - start.first}
  IN  {[pos |-> k + start.first, line |-> LineAt(file, start.from, end.to, k)] : k \in taken}

SourceOf(row) ==
  LET known == {i \in 1 .. Len(ranges) : row \in ranges[i].from .. ranges[i].to}
  IN  IF known = {} THEN NoSource
      ELSE ranges[CHOOSE i \in known : \A j \in known : i <= j].source

Rows == 0 .. Len1(metadata) - 1
Row(k) == LineAt(file, 0, Len(file) - 1, k)
Writer(k) == file[Row(k).to + 1].of

(* Every range of rows that the client may ask for gives the lines of the   *)
(* file with these numbers, whatever slots it begins and ends in. *)
EntriesAreRows ==
  \A lo, hi \in Rows :
    lo <= hi => Grabbed(lo, hi) = {[pos |-> k, line |-> Row(k)] : k \in lo .. hi}

(* Every row is credited to the source that wrote it, however the writes    *)
(* and flushes of several operations are mixed and even when an update has  *)
(* failed in between. *)
SourcesAreRight == \A k \in Rows : SourceOf(k) = Writer(k)

(* Up to where a holder has come it has reported the rows that match, under *)
(* their numbers: none twice, none late, none lost at the joints between    *)
(* two searches. *)
FoundAreMatches ==
  holder.found = {k \in 0 .. holder.lines - 1 : Matches(file, Row(k))}

(* What was read is announced once nothing is left in the buffer: a row     *)
(* that came with the flush of another source waits only for that, and a    *)
(* failed update makes the next one announce all rows again. *)
NothingUnannounced == metadata.known /\ buffer = <<>> => announced = Len1(metadata)
=============================================================================
