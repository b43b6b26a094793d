----------------------------- MODULE RawExport -----------------------------
(***************************************************************************)
(* Export of selected rows in the format of their source (core:            *)
(* session/handlers/export_raw.rs, processor/export/mod.rs, indexer_base). *)
(*                                                                         *)
(* The observed files are parsed once more, one after the other.  The rows *)
(* of each are counted from 0, and what is left of the selected sections   *)
(* is moved to the left by the rows that were counted.                     *)
(*                                                                         *)
(* A file is the sequence of what the producer yields for it, batch by     *)
(* batch, and how it ends; an item is a row of the session or another      *)
(* thing, such as an attachment alone.  The sections are a vector that is  *)
(* sorted when they are valid: here a set, in the order of its intervals.  *)
(***************************************************************************)
EXTENDS Integers, Sequences, FiniteSets

CONSTANTS
  Observations,   \* sequences of files that were observed
  Selections      \* sets of sections that are asked for

Items == {"row", "other"}
Endings == {"done", "broken"}   \* broken: with bytes that the parser refuses
File == [batches : Seq(Seq(Items)), ends : Endings]
Section == [first : Nat, last : Nat]

SectionsValid(S) ==
  /\ \A s \in S : s.first <= s.last
  /\ \A s, t \in S : s # t => s.last < t.first \/ t.last < s.first

ASSUME RawExportAssumption ==
  /\ Observations \subseteq Seq(File)
  /\ \A S \in Selections : S \subseteq Section /\ S # {} /\ SectionsValid(S)

VARIABLES
  at,        \* where the export is
  files,     \* the observed files
  asked,     \* the sections that were asked for
  cancelled, \* the token of the operation
  nth,       \* the file that is next, or is read
  sections,  \* what is left of the sections, in rows of this file
  batch,     \* batches that were produced of this file
  items,     \* what is left of the last one
  ahead,     \* sections that have not ended in this file
  inside,    \* the row before was in the first of them
  current,   \* current_index
  out,       \* rows of the session in the destination
  passed,    \* history: rows of the session that were passed
  base,      \* history: those before this file
  firsts     \* history: the first row of each file but the first

input == <<files, asked, cancelled>>
file == <<nth, sections, base, firsts>>
loop == <<batch, items, ahead, inside, current>>
rawVars == <<at, input, file, loop, out, passed>>

RawInit ==
  /\ at = "idle"
  /\ files = <<>> /\ asked = {} /\ cancelled = FALSE
  /\ nth = 1 /\ sections = {} /\ base = 0 /\ firsts = {}
  /\ batch = 0 /\ items = <<>> /\ ahead = {} /\ inside = FALSE /\ current = 0
  /\ out = {} /\ passed = 0

-----------------------------------------------------------------------------
(* Sections. *)

Covered(S) == UNION {s.first .. s.last : s \in S}
First(S) == {s \in S : \A t \in S : s.first <= t.first}

Minus(n, k) == IF n > k THEN n - k ELSE 0
LeftBy(s, read) == [first |-> Minus(s.first, read), last |-> Minus(s.last, read)]
IsEmpty(s) == s.last + s.first = 0

KeepsAll(S, read) == {LeftBy(s, read) : s \in S}   \* slip: nothing is retained
Remaining(S, read) == {s \in {LeftBy(t, read) : t \in S} : ~IsEmpty(s)}

-----------------------------------------------------------------------------
(* One file. *)

Batches == files[nth].batches
RowsIn(q) == Cardinality({i \in 1 .. Len(q) : q[i] = "row"})

(* The export of a session that has files, each with the rows it has now. *)
BeginsRaw ==
  /\ at = "idle"
  /\ files' \in Observations /\ asked' \in Selections
  /\ sections' = asked' /\ nth' = 1
  /\ at' = "files"
  /\ UNCHANGED <<cancelled, base, firsts, loop, out, passed>>

(* The loop over the files, and what is done before one is read. *)
OpensFile ==
  /\ at = "files" /\ nth <= Len(files) /\ sections # {}
  /\ IF SectionsValid(sections)
     THEN /\ at' = "select"
          /\ batch' = 0 /\ items' = <<>> /\ inside' = FALSE /\ current' = 0
          /\ ahead' = sections
     ELSE at' = "refused" /\ UNCHANGED loop
  /\ UNCHANGED <<input, file, out, passed>>

CannotOpen ==
  /\ at = "files" /\ nth <= Len(files) /\ sections # {}
  /\ at' = "failed"
  /\ UNCHANGED <<input, file, loop, out, passed>>

FinishesRaw ==
  /\ at = "files" /\ (nth > Len(files) \/ sections = {})
  /\ at' = "done"
  /\ UNCHANGED <<input, file, loop, out, passed>>

(* The token is seen before each batch. *)
SeesCancel ==
  /\ at \in {"select", "rest"} /\ items = <<>> /\ cancelled
  /\ at' = "cancelled"
  /\ UNCHANGED <<input, file, loop, out, passed>>

Produces ==
  /\ items = <<>> /\ ~cancelled /\ batch < Len(Batches)
  /\ batch' = batch + 1

ProducesBatch ==
  /\ at = "select" /\ Produces
  /\ items' = Batches[batch + 1]
  /\ UNCHANGED <<at, input, file, ahead, inside, current, out, passed>>

(* An item of the batch, where a section begins or goes on, or where one    *)
(* ends and another may begin at once. *)
SelectsAfter(open, S) ==
  /\ inside' = open /\ ahead' = S
  /\ items' = Tail(items)
  /\ IF Head(items) = "row"
     THEN /\ current' = current + 1 /\ passed' = passed + 1
          /\ out' = IF open THEN out \cup {base + current} ELSE out
     ELSE UNCHANGED <<current, passed, out>>
  /\ UNCHANGED <<at, input, file, batch>>

Ended == inside /\ \E s \in First(ahead) : s.last < current
Others == ahead \ First(ahead)
BeginsIn(S) == \E s \in First(S) : s.first = current

TakesItem ==
  /\ at = "select" /\ items # <<>> /\ ~Ended
  /\ SelectsAfter(inside \/ BeginsIn(ahead), ahead)

EndsSection ==
  /\ at = "select" /\ items # <<>> /\ Ended /\ Others # {}
  /\ SelectsAfter(BeginsIn(Others), Others)

ReadsToEnd == IF nth < Len(files) THEN "rest" ELSE "left"

(* No section is left.  The item counts, and what follows it in the batch   *)
(* is dropped. *)
EndsLast ==
  /\ at = "select" /\ items # <<>> /\ Ended /\ Others = {}
  /\ ahead' = {} /\ inside' = FALSE
  /\ current' = current + 1 /\ passed' = passed + RowsIn(items)
  /\ items' = <<>>
  /\ at' = ReadsToEnd
  /\ UNCHANGED <<input, file, batch, out>>

(* The producer has no more. *)
Exhausted == items = <<>> /\ ~cancelled /\ batch = Len(Batches)

EndsFile ==
  /\ at = "select" /\ Exhausted /\ files[nth].ends = "done"
  /\ at' = ReadsToEnd
  /\ UNCHANGED <<input, file, loop, out, passed>>

ParserFails ==
  /\ at \in {"select", "rest"} /\ Exhausted /\ files[nth].ends = "broken"
  /\ at' = "failed"
  /\ UNCHANGED <<input, file, loop, out, passed>>

(* What is left of a file that is not the last is read, and each batch      *)
(* counts as a row. *)
ReadsRest ==
  /\ at = "rest" /\ Produces
  /\ current' = current + 1 /\ passed' = passed + RowsIn(Batches[batch + 1])
  /\ UNCHANGED <<at, input, file, items, ahead, inside, out>>

EndsRest ==
  /\ at = "rest" /\ Exhausted /\ files[nth].ends = "done"
  /\ at' = "left"
  /\ UNCHANGED <<input, file, loop, out, passed>>

LeavesFile ==
  /\ at = "left"
  /\ sections' = Remaining(sections, current)
  /\ nth' = nth + 1
  /\ base' = passed /\ firsts' = firsts \cup {passed}
  /\ at' = "files"
  /\ UNCHANGED <<input, loop, out, passed>>

Exports ==
  \/ OpensFile \/ CannotOpen \/ FinishesRaw \/ SeesCancel
  \/ ProducesBatch \/ TakesItem \/ EndsSection \/ EndsLast
  \/ EndsFile \/ ParserFails \/ ReadsRest \/ EndsRest \/ LeavesFile

-----------------------------------------------------------------------------

(* The rows that were asked for and that a finished export has to write:    *)
(* those of the files.  The code does not write the first row of a file     *)
(* after the first when a section ends there: moved to the left it is the   *)
(* section of row 0, which counts as empty. *)
InFiles(r) == nth > Len(files) => r < passed
TakenForEmpty(r) == r \in firsts /\ \E s \in asked : s.last = r
Wanted == {r \in Covered(asked) : InFiles(r) /\ ~TakenForEmpty(r)}

(* A valid selection is never refused in a later file, and a finished       *)
(* export has written the rows that were asked for, and no other: however   *)
(* the files come in batches, wherever a section crosses from file to file, *)
(* although rows that are read to the end of a file are not counted.  A     *)
(* cancelled or failed one has written no wrong row. *)
ExportIsSelection ==
  /\ at # "refused"
  /\ at = "done" => out = Wanted
  /\ out \subseteq Covered(asked)
=============================================================================
