------------------------ MODULE SessionExportProofs ------------------------
(***************************************************************************)
(* Proofs about RawExport and SessionExport, for any number of exports, of *)
(* files, batches and rows, and for every valid selection: a finished raw  *)
(* export has written the rows that were asked for, and a temporary file   *)
(* has one owner.                                                          *)
(***************************************************************************)
EXTENDS SessionExport, FiniteSetTheorems, TLAPS

(* Types. *)
Places == {"idle", "files", "select", "rest", "left", "done", "failed", "cancelled", "refused"}

RawTypeOK ==
  /\ at \in Places
  /\ files \in Seq(File) /\ asked \subseteq Section /\ cancelled \in BOOLEAN
  /\ nth \in Nat \ {0} /\ sections \subseteq Section
  /\ base \in Nat /\ firsts \subseteq Nat
  /\ batch \in Nat /\ items \in Seq(Items) /\ ahead \subseteq Section
  /\ inside \in BOOLEAN /\ current \in Nat
  /\ out \subseteq Nat /\ passed \in Nat

(* What is left of the sections covers the rows of the session from base   *)
(* on that were asked for and are written, and ends where they end.         *)
SectionsFit ==
  /\ SectionsValid(asked) /\ SectionsValid(sections)
  /\ base <= passed
  /\ \A f \in firsts : f <= base
  /\ \A n \in Nat :
       (\E s \in sections : s.first <= n /\ n <= s.last)
         <=> (\E s \in asked : s.first <= base + n /\ base + n <= s.last) /\ ~TakenForEmpty(base + n)
  /\ \A n \in Nat :
       (\E s \in sections : s.last = n)
         <=> (\E s \in asked : s.last = base + n) /\ base + n \notin firsts

WrittenSoFar ==
  \A r \in Nat :
    r \in out <=>
      /\ \E s \in asked : s.first <= r /\ r <= s.last
      /\ r < passed
      /\ ~TakenForEmpty(r)

(* Within a file: sections behind have ended, those ahead begin later,      *)
(* except the one that the row before was in. *)
SelectInv ==
  at = "select" =>
    /\ passed = base + current
    /\ nth <= Len(files)
    /\ ahead \subseteq sections
    /\ \A s \in sections \ ahead : s.last < current
    /\ ~inside => \A s \in ahead : s.first >= current
    /\ inside => \E s \in First(ahead) : s.first <= current /\ current <= s.last + 1

(* Behind the sections all rows were counted, or no section goes on. *)
AllEnded == \A s \in sections : s.last < current /\ base + s.last < passed
RestInv ==
  at \in {"rest", "left"} =>
    /\ nth <= Len(files)
    /\ AllEnded \/ (passed = base + current /\ (at = "rest" => batch = Len(Batches)))
    /\ items = <<>>

BetweenInv ==
  /\ at \in {"files", "done"} => base = passed
  /\ at = "done" => nth > Len(files) \/ sections = {}
  /\ at = "idle" => base = 0 /\ passed = 0 /\ firsts = {} /\ out = {} /\ asked = {} /\ sections = {}
  /\ at # "refused"

RawInv == RawTypeOK /\ SectionsFit /\ WrittenSoFar /\ SelectInv /\ RestInv /\ BetweenInv

(* The service and the core have one export at a time: the one the tab      *)
(* waits for. *)
Known(o) == o \in Ops /\ kind[o] # "none"
Awaited(o) ==
  /\ Known(o) /\ child[o] = "none"
  /\ view = "open" => pending = o
  /\ \A i \in 1 .. Len(news) : news[i] # o

FlightInv ==
  /\ Len(cmds) <= 1 /\ Len(events) <= 1
  /\ cmds # <<>> => running = NoOp /\ events = <<>> /\ Awaited(Head(cmds))
  /\ running # NoOp => events = <<>> /\ Awaited(running)
  /\ events # <<>> => Awaited(Head(events).op)

OwnerTypeOK ==
  /\ kind \in [Ops -> Kinds \cup {"none"}]
  /\ pending \in Ops \cup {NoOp} /\ view \in {"open", "closed"}
  /\ cmds \in Seq(Ops) /\ news \in Seq(Ops)
  /\ events \in Seq([is : {"done", "error"}, op : Ops])
  /\ service \in {"runs", "stops", "gone"}
  /\ tracker \in Ops \cup {NoOp} /\ running \in Ops \cup {NoOp}
  /\ temp \subseteq Ops
  /\ child \in [Ops -> {"none", "open", "gone"}]

(* An operation writes to a temporary file only while the service waits.    *)
OwnerInv ==
  /\ \A i \in 1 .. Len(news) : Known(news[i])
  /\ \A o \in Ops : kind[o] = "none" => child[o] = "none"
  /\ service = "gone" => running = NoOp
  /\ running # NoOp /\ OfTab(kind[running]) => tracker = running
  /\ tracker # NoOp => child[tracker] = "none"
  /\ \A o \in temp : (service # "gone" /\ tracker = o) <=> child[o] # "open"

FilesInv == OwnerTypeOK /\ FlightInv /\ OwnerInv

(* A dialog is open only while no export is waited for. *)
DialogInv == dialog # "none" => pending = NoOp

-----------------------------------------------------------------------------
(* Sections and batches. *)

LEMMA SelectionType ==
  ASSUME NEW S \in Selections
  PROVE  S \subseteq Section /\ SectionsValid(S)
BY RawExportAssumption

LEMMA FirstIsBefore ==
  ASSUME NEW S \in SUBSET Section, SectionsValid(S), NEW e \in First(S), NEW s \in S, s # e
  PROVE  e \in S /\ e.last < s.first
BY DEF SectionsValid, First, Section

LEMMA RowsInType ==
  ASSUME NEW q \in Seq(Items)
  PROVE  RowsIn(q) \in Nat
<1>1. IsFiniteSet(1 .. Len(q))
  BY FS_Interval
<1>2. IsFiniteSet({i \in 1 .. Len(q) : q[i] = "row"})
  BY <1>1, FS_Subset
<1>. QED
  BY <1>2, FS_CardinalityType DEF RowsIn

LEMMA BatchType ==
  ASSUME RawTypeOK, nth <= Len(files)
  PROVE  Batches \in Seq(Seq(Items))
<1>1. files[nth] \in File
  BY DEF RawTypeOK
<1>. QED
  BY <1>1 DEF Batches, File

(* Sections that are moved to the left are still apart. *)
LEMMA RemainingIsValid ==
  ASSUME NEW S \in SUBSET Section, SectionsValid(S), NEW k \in Nat
  PROVE  /\ Remaining(S, k) \subseteq Section
         /\ SectionsValid(Remaining(S, k))
         /\ \A n \in Nat :
              (\E s \in Remaining(S, k) : s.first <= n /\ n <= s.last)
                <=> \E s \in S : s.last > k /\ s.first <= n + k /\ n + k <= s.last
         /\ \A n \in Nat :
              (\E s \in Remaining(S, k) : s.last = n)
                <=> n > 0 /\ \E s \in S : s.last = n + k
<1>1. \A s \in S : s \in Section /\ s.first \in Nat /\ s.last \in Nat /\ s.first <= s.last
  BY DEF Section, SectionsValid
<1>2. \A s \in S :
        /\ LeftBy(s, k) \in Section
        /\ LeftBy(s, k).first = (IF s.first > k THEN s.first - k ELSE 0)
        /\ LeftBy(s, k).last = (IF s.last > k THEN s.last - k ELSE 0)
  BY <1>1 DEF LeftBy, Minus, Section
<1>3. \A s \in S : IsEmpty(LeftBy(s, k)) <=> s.last <= k
  BY <1>1, <1>2 DEF IsEmpty
<1>4. Remaining(S, k) = {LeftBy(s, k) : s \in {t \in S : t.last > k}}
  BY <1>1, <1>3 DEF Remaining
<1>5. Remaining(S, k) \subseteq Section
  BY <1>2, <1>4
<1>6. SectionsValid(Remaining(S, k))
  <2>1. ASSUME NEW u \in Remaining(S, k) PROVE u.first <= u.last
    <3>1. PICK s \in S : s.last > k /\ u = LeftBy(s, k)
      BY <1>4
    <3>. QED
      BY <3>1, <1>1, <1>2
  <2>2. ASSUME NEW u \in Remaining(S, k), NEW v \in Remaining(S, k), u # v
        PROVE  u.last < v.first \/ v.last < u.first
    <3>1. PICK s \in S : s.last > k /\ u = LeftBy(s, k)
      BY <1>4
    <3>2. PICK t \in S : t.last > k /\ v = LeftBy(t, k)
      BY <1>4
    <3>3. s.last < t.first \/ t.last < s.first
      BY <2>2, <3>1, <3>2 DEF SectionsValid
    <3>. QED
      BY <3>1, <3>2, <3>3, <1>1, <1>2
  <2>. QED
    BY <2>1, <2>2 DEF SectionsValid
<1>7. ASSUME NEW n \in Nat
      PROVE  (\E s \in Remaining(S, k) : s.first <= n /\ n <= s.last)
               <=> \E s \in S : s.last > k /\ s.first <= n + k /\ n + k <= s.last
  <2>1. ASSUME NEW s \in S, s.last > k
        PROVE  (LeftBy(s, k).first <= n /\ n <= LeftBy(s, k).last)
                 <=> (s.first <= n + k /\ n + k <= s.last)
    BY <2>1, <1>1, <1>2
  <2>. QED
    BY <2>1, <1>4
<1>8. ASSUME NEW n \in Nat
      PROVE  (\E s \in Remaining(S, k) : s.last = n) <=> n > 0 /\ \E s \in S : s.last = n + k
  <2>1. ASSUME NEW s \in S, s.last > k
        PROVE  LeftBy(s, k).last = n <=> n > 0 /\ s.last = n + k
    BY <2>1, <1>1, <1>2
  <2>. QED
    BY <2>1, <1>1, <1>4
<1>. QED
  BY <1>5, <1>6, <1>7, <1>8

-----------------------------------------------------------------------------
(* The steps of a raw export. *)

(* What is left of the selection is only touched between files. *)
LEMMA FitFrame ==
  ASSUME RawInv, UNCHANGED <<asked, file>>, passed' \in Nat, passed <= passed'
  PROVE  SectionsFit'
BY DEF RawInv, RawTypeOK, SectionsFit, TakenForEmpty, SectionsValid, file

LEMMA WrittenFrame ==
  ASSUME WrittenSoFar, UNCHANGED <<asked, file, out, passed>>
  PROVE  WrittenSoFar'
BY DEF WrittenSoFar, TakenForEmpty, file

LEMMA BeginsRawLemma ==
  ASSUME RawInv, BeginsRaw
  PROVE  RawInv'
<1>. USE DEF RawInv, BeginsRaw
<1>1. /\ asked' \subseteq Section /\ SectionsValid(asked')
      /\ files' \in Seq(File)
  BY SelectionType, RawExportAssumption
<1>2. /\ base = 0 /\ passed = 0 /\ firsts = {} /\ out = {}
      /\ UNCHANGED <<base, passed, firsts, out, cancelled, loop>>
  BY DEF BetweenInv
<1>3. RawTypeOK'
  BY <1>1, <1>2 DEF RawTypeOK, Places, loop
<1>4. SectionsFit'
  <2>1. \A r : ~TakenForEmpty(r)'
    BY <1>2 DEF TakenForEmpty
  <2>2. \A n \in Nat : base' + n = n
    BY <1>2
  <2>. QED
    BY <1>1, <1>2, <2>1, <2>2 DEF SectionsFit, SectionsValid
<1>5. WrittenSoFar'
  BY <1>2 DEF WrittenSoFar
<1>. QED
  BY <1>2, <1>3, <1>4, <1>5 DEF SelectInv, RestInv, BetweenInv

LEMMA OpensFileLemma ==
  ASSUME RawInv, OpensFile
  PROVE  RawInv'
<1>. USE DEF RawInv, OpensFile
<1>1. SectionsValid(sections)
  BY DEF SectionsFit
<1>2. /\ at' = "select" /\ batch' = 0 /\ items' = <<>> /\ inside' = FALSE
      /\ current' = 0 /\ ahead' = sections /\ base = passed
      /\ UNCHANGED <<files, asked, cancelled, nth, sections, base, firsts, out, passed>>
  BY <1>1 DEF BetweenInv, input, file
<1>3. RawTypeOK'
  <2>1. <<>> \in Seq(Items)
    OBVIOUS
  <2>. QED
    BY <1>2, <2>1 DEF RawTypeOK, Places
<1>4. SectionsFit' /\ WrittenSoFar'
  BY <1>2, FitFrame, WrittenFrame DEF file, RawTypeOK
<1>5. SelectInv'
  BY <1>2 DEF SelectInv, RawTypeOK, Section
<1>. QED
  BY <1>2, <1>3, <1>4, <1>5 DEF RestInv, BetweenInv

(* The steps that only move on. *)
LEMMA MovesOnLemma ==
  ASSUME RawInv, CannotOpen \/ FinishesRaw \/ SeesCancel \/ EndsFile \/ ParserFails \/ EndsRest
  PROVE  RawInv'
<1>1. UNCHANGED <<input, file, loop, out, passed>>
  BY DEF CannotOpen, FinishesRaw, SeesCancel, EndsFile, ParserFails, EndsRest
<1>2. /\ at' \in {"failed", "done", "cancelled", "rest", "left"}
      /\ at' = "done" => at = "files" /\ (nth > Len(files) \/ sections = {})
      /\ at' \in {"rest", "left"} =>
            at \in {"select", "rest"} /\ items = <<>> /\ batch = Len(Batches)
  BY DEF CannotOpen, FinishesRaw, SeesCancel, EndsFile, ParserFails, EndsRest, Exhausted, ReadsToEnd
<1>3. RawTypeOK'
  BY <1>1, <1>2 DEF RawInv, RawTypeOK, Places, input, file, loop
<1>4. SectionsFit' /\ WrittenSoFar'
  BY <1>1, FitFrame, WrittenFrame DEF file, input, RawInv, RawTypeOK
<1>5. RestInv'
  BY <1>1, <1>2 DEF RawInv, RestInv, SelectInv, AllEnded, Batches, input, file, loop
<1>. QED
  BY <1>1, <1>2, <1>3, <1>4, <1>5 DEF RawInv, SelectInv, BetweenInv, input, file, loop

LEMMA ProducesBatchLemma ==
  ASSUME RawInv, ProducesBatch
  PROVE  RawInv'
<1>. USE DEF RawInv, ProducesBatch, Produces
<1>1. nth <= Len(files)
  BY DEF SelectInv
<1>2. items' \in Seq(Items) /\ batch' \in Nat
  BY <1>1, BatchType DEF RawTypeOK
<1>3. /\ at' = "select"
      /\ UNCHANGED <<at, files, asked, cancelled, nth, sections, base, firsts, ahead, inside, current, out, passed>>
  BY DEF input, file
<1>4. RawTypeOK'
  BY <1>2, <1>3 DEF RawTypeOK
<1>5. SectionsFit' /\ WrittenSoFar'
  BY <1>3, FitFrame, WrittenFrame DEF file, RawTypeOK
<1>. QED
  BY <1>3, <1>4, <1>5 DEF SelectInv, RestInv, BetweenInv, First

(* An item is taken, in a section or not: what the three cases share. *)
LEMMA SelectsLemma ==
  ASSUME RawInv, at = "select", items # <<>>,
         NEW open \in BOOLEAN, NEW S \in SUBSET ahead,
         open <=> \E s \in sections : s.first <= current /\ current <= s.last,
         open => \E e \in First(S) : e.first <= current /\ current <= e.last,
         ~open => \A s \in S : s.first > current,
         \A s \in sections \ S : s.last < current,
         SelectsAfter(open, S)
  PROVE  RawInv'
<1>. USE DEF RawInv
<1>1. /\ passed = base + current /\ nth <= Len(files) /\ ahead \subseteq sections
      /\ base \in Nat /\ current \in Nat /\ passed \in Nat
  BY DEF SelectInv, RawTypeOK
<1>2. /\ inside' = open /\ ahead' = S /\ items' = Tail(items) /\ at' = "select"
      /\ UNCHANGED <<at, files, asked, cancelled, nth, sections, base, firsts, batch>>
  BY DEF SelectsAfter, input, file
<1>3. /\ current' \in {current, current + 1}
      /\ passed' = base + current'
      /\ passed' \in Nat /\ passed <= passed'
  BY <1>1 DEF SelectsAfter
<1>4. out' \subseteq Nat
  BY <1>1 DEF SelectsAfter, RawTypeOK
<1>5. RawTypeOK'
  <2>1. Tail(items) \in Seq(Items)
    BY DEF RawTypeOK
  <2>2. S \subseteq Section /\ current' \in Nat
    BY <1>1, <1>3 DEF RawTypeOK
  <2>. QED
    BY <1>1, <1>2, <1>3, <1>4, <2>1, <2>2 DEF RawTypeOK
<1>6. SectionsFit'
  BY <1>2, <1>3, FitFrame DEF file
<1>7. WrittenSoFar'
  <2>1. open <=> (\E s \in asked : s.first <= passed /\ passed <= s.last) /\ ~TakenForEmpty(passed)
    BY <1>1 DEF SectionsFit
  <2>2. \A r : TakenForEmpty(r)' = TakenForEmpty(r)
    BY <1>2 DEF TakenForEmpty
  <2>3. CASE Head(items) = "row"
    <3>1. passed' = passed + 1 /\ out' = IF open THEN out \cup {passed} ELSE out
      BY <2>3, <1>1 DEF SelectsAfter
    <3>. QED
      BY <3>1, <2>1, <2>2, <1>1, <1>2 DEF WrittenSoFar
  <2>4. CASE Head(items) # "row"
    BY <2>4, <2>2, <1>2 DEF WrittenSoFar, SelectsAfter
  <2>. QED
    BY <2>3, <2>4
<1>8. SelectInv'
  <2>1. \A s \in sections : s.first \in Nat /\ s.last \in Nat
    BY DEF RawTypeOK, Section
  <2>2. \A s \in sections \ S : s.last < current'
    BY <2>1, <1>1, <1>3
  <2>3. ~open => \A s \in S : s.first >= current'
    BY <2>1, <1>1, <1>3
  <2>4. open => \E e \in First(S) : e.first <= current' /\ current' <= e.last + 1
    <3>1. First(S) \subseteq sections
      BY <1>1 DEF First
    <3>. QED
      BY <2>1, <1>1, <1>3, <3>1
  <2>. QED
    BY <2>2, <2>3, <2>4, <1>1, <1>2, <1>3 DEF SelectInv, First
<1>. QED
  BY <1>2, <1>5, <1>6, <1>7, <1>8 DEF RestInv, BetweenInv

LEMMA TakesItemLemma ==
  ASSUME RawInv, TakesItem
  PROVE  RawInv'
<1>. DEFINE open == inside \/ BeginsIn(ahead)
<1>. USE DEF RawInv
<1>1. /\ at = "select" /\ items # <<>> /\ ~Ended /\ SelectsAfter(open, ahead)
      /\ open \in BOOLEAN
  BY DEF TakesItem, RawTypeOK
<1>2. /\ ahead \subseteq sections /\ \A s \in sections \ ahead : s.last < current
      /\ ~inside => \A s \in ahead : s.first >= current
      /\ inside => \E s \in First(ahead) : s.first <= current /\ current <= s.last + 1
  BY <1>1 DEF SelectInv
<1>3. /\ current \in Nat
      /\ \A s \in sections : s.first \in Nat /\ s.last \in Nat /\ s.first <= s.last
      /\ First(ahead) \subseteq ahead
  BY DEF RawTypeOK, Section, SectionsFit, SectionsValid, First
<1>4. open => \E e \in First(ahead) : e.first <= current /\ current <= e.last
  <2>1. CASE inside
    BY <2>1, <1>1, <1>2, <1>3 DEF Ended
  <2>2. CASE ~inside
    BY <2>2, <1>2, <1>3 DEF BeginsIn
  <2>. QED
    BY <2>1, <2>2
<1>5. ~open => \A s \in ahead : s.first > current
  <2>1. SUFFICES ASSUME ~open, NEW s \in ahead, s.first <= current PROVE FALSE
    BY <1>2, <1>3
  <2>2. s.first = current /\ \A t \in ahead : s.first <= t.first
    BY <2>1, <1>2, <1>3
  <2>. QED
    BY <2>1, <2>2 DEF BeginsIn, First
<1>6. open <=> \E s \in sections : s.first <= current /\ current <= s.last
  BY <1>2, <1>3, <1>4, <1>5
<1>. HIDE DEF open
<1>. QED
  BY <1>1, <1>2, <1>4, <1>5, <1>6, SelectsLemma

(* Where a section has ended, the row follows it, and the others come later. *)
LEMMA EndedLemma ==
  ASSUME RawInv, at = "select", Ended
  PROVE  /\ \A s \in sections \ Others : s.last < current
         /\ \A s \in Others : s.first >= current
<1>. USE DEF RawInv
<1>1. /\ ahead \subseteq sections /\ \A s \in sections \ ahead : s.last < current
      /\ ahead \subseteq Section /\ current \in Nat
      /\ SectionsValid(ahead)
  BY DEF SelectInv, SectionsFit, SectionsValid, RawTypeOK
<1>2. PICK e \in First(ahead) : e.last < current
  BY DEF Ended
<1>3. PICK f \in First(ahead) : f.first <= current /\ current <= f.last + 1
  BY DEF Ended, SelectInv
<1>4. \A s \in ahead : s # e => e.last < s.first /\ s \notin First(ahead)
  <2>1. ASSUME NEW s \in ahead, s # e PROVE e.last < s.first
    BY <2>1, <1>1, FirstIsBefore
  <2>2. ASSUME NEW s \in First(ahead), s # e PROVE FALSE
    <3>1. s \in ahead /\ e \in ahead
      BY DEF First
    <3>2. e.last < s.first /\ s.last < e.first
      BY <2>2, <3>1, <1>1, FirstIsBefore
    <3>. QED
      BY <3>1, <3>2, <1>1 DEF SectionsValid, Section
  <2>. QED
    BY <2>1, <2>2
<1>5. First(ahead) \subseteq ahead
  BY DEF First
<1>6. f = e /\ Others = ahead \ {e}
  BY <1>4, <1>5, <1>2, <1>3 DEF Others
<1>. QED
  BY <1>1, <1>2, <1>3, <1>4, <1>5, <1>6 DEF Section

LEMMA EndsSectionLemma ==
  ASSUME RawInv, EndsSection
  PROVE  RawInv'
<1>. DEFINE open == BeginsIn(Others)
<1>. USE DEF RawInv
<1>1. /\ at = "select" /\ items # <<>> /\ Ended /\ SelectsAfter(open, Others)
      /\ open \in BOOLEAN
  BY DEF EndsSection, BeginsIn
<1>2. /\ \A s \in sections \ Others : s.last < current
      /\ \A s \in Others : s.first >= current
  BY <1>1, EndedLemma
<1>3. /\ current \in Nat /\ Others \subseteq ahead /\ Others \subseteq sections
      /\ \A s \in sections : s.first \in Nat /\ s.last \in Nat /\ s.first <= s.last
      /\ First(Others) \subseteq Others
  BY <1>1 DEF RawTypeOK, Section, SectionsFit, SectionsValid, First, Others, SelectInv
<1>4. open => \E e \in First(Others) : e.first <= current /\ current <= e.last
  BY <1>3 DEF BeginsIn
<1>5. ~open => \A s \in Others : s.first > current
  <2>1. SUFFICES ASSUME ~open, NEW s \in Others, s.first <= current PROVE FALSE
    BY <1>2, <1>3
  <2>2. s.first = current /\ \A t \in Others : s.first <= t.first
    BY <2>1, <1>2, <1>3
  <2>. QED
    BY <2>1, <2>2 DEF BeginsIn, First
<1>6. open <=> \E s \in sections : s.first <= current /\ current <= s.last
  BY <1>2, <1>3, <1>4, <1>5
<1>. HIDE DEF open
<1>. QED
  BY <1>1, <1>2, <1>3, <1>4, <1>5, <1>6, SelectsLemma

(* Behind the last section no row was asked for that is written. *)
LEMMA NothingMore ==
  ASSUME RawTypeOK, SectionsFit, \A s \in sections : base + s.last < passed,
         NEW r \in Nat, passed <= r, \E s \in asked : s.first <= r /\ r <= s.last
  PROVE  TakenForEmpty(r)
<1>1. base \in Nat /\ passed \in Nat /\ base <= passed
  BY DEF RawTypeOK, SectionsFit
<1>2. r - base \in Nat /\ base + (r - base) = r
  BY <1>1
<1>3. ~ \E s \in sections : s.first <= r - base /\ r - base <= s.last
  BY <1>1 DEF RawTypeOK, Section
<1>. QED
  BY <1>2, <1>3 DEF SectionsFit

LEMMA PassesRows ==
  ASSUME RawInv, UNCHANGED <<asked, file, out>>, passed' \in Nat, passed <= passed',
         \A s \in sections : base + s.last < passed
  PROVE  WrittenSoFar'
<1>1. \A r \in Nat : passed <= r /\ (\E s \in asked : s.first <= r /\ r <= s.last) => TakenForEmpty(r)
  BY NothingMore DEF RawInv
<1>2. \A r : TakenForEmpty(r)' = TakenForEmpty(r)
  BY DEF TakenForEmpty, file
<1>3. passed \in Nat
  BY DEF RawInv, RawTypeOK
<1>. QED
  BY <1>1, <1>2, <1>3 DEF RawInv, WrittenSoFar

LEMMA EndsLastLemma ==
  ASSUME RawInv, EndsLast
  PROVE  RawInv'
<1>. USE DEF RawInv
<1>1. /\ at = "select" /\ Ended /\ Others = {}
      /\ ahead' = {} /\ inside' = FALSE /\ items' = <<>>
      /\ current' = current + 1 /\ passed' = passed + RowsIn(items)
      /\ at' \in {"rest", "left"}
      /\ UNCHANGED <<files, asked, cancelled, nth, sections, base, firsts, batch, out>>
  BY DEF EndsLast, ReadsToEnd, input, file
<1>2. /\ base \in Nat /\ current \in Nat /\ passed = base + current /\ nth <= Len(files)
      /\ \A s \in sections : s.last \in Nat
  BY <1>1 DEF RawTypeOK, SelectInv, Section
<1>3. RowsIn(items) \in Nat
  BY RowsInType DEF RawTypeOK
<1>4. \A s \in sections : s.last < current
  BY <1>1, EndedLemma
<1>5. passed' \in Nat /\ passed <= passed' /\ current' \in Nat
  BY <1>1, <1>2, <1>3
<1>6. RawTypeOK'
  <2>1. <<>> \in Seq(Items)
    OBVIOUS
  <2>. QED
    BY <1>1, <1>5, <2>1 DEF RawTypeOK, Places
<1>7. SectionsFit'
  BY <1>1, <1>5, FitFrame DEF file
<1>8. WrittenSoFar'
  BY <1>1, <1>2, <1>4, <1>5, PassesRows DEF file
<1>9. RestInv'
  BY <1>1, <1>2, <1>3, <1>4 DEF RestInv, AllEnded
<1>. QED
  BY <1>1, <1>6, <1>7, <1>8, <1>9 DEF SelectInv, BetweenInv

LEMMA ReadsRestLemma ==
  ASSUME RawInv, ReadsRest
  PROVE  RawInv'
<1>. USE DEF RawInv
<1>1. /\ at = "rest" /\ batch < Len(Batches) /\ batch' = batch + 1
      /\ current' = current + 1 /\ passed' = passed + RowsIn(Batches[batch + 1])
      /\ UNCHANGED <<at, files, asked, cancelled, nth, sections, base, firsts, items, ahead, inside, out>>
  BY DEF ReadsRest, Produces, input, file
<1>2. /\ AllEnded /\ nth <= Len(files) /\ items = <<>>
      /\ base \in Nat /\ current \in Nat /\ passed \in Nat /\ batch \in Nat
      /\ \A s \in sections : s.last \in Nat
  BY <1>1 DEF RestInv, RawTypeOK, Section
<1>3. RowsIn(Batches[batch + 1]) \in Nat
  BY <1>1, <1>2, BatchType, RowsInType
<1>4. passed' \in Nat /\ passed <= passed' /\ current' \in Nat /\ batch' \in Nat
  BY <1>1, <1>2, <1>3
<1>5. RawTypeOK'
  BY <1>1, <1>4 DEF RawTypeOK
<1>6. SectionsFit'
  BY <1>1, <1>4, FitFrame DEF file
<1>7. WrittenSoFar'
  BY <1>1, <1>2, <1>4, PassesRows DEF file, AllEnded
<1>8. AllEnded'
  BY <1>1, <1>2, <1>3 DEF AllEnded
<1>. QED
  BY <1>1, <1>2, <1>5, <1>6, <1>7, <1>8 DEF RestInv, SelectInv, BetweenInv

(* A file is left: what goes on is moved to the left, by the rows of the    *)
(* file, unless nothing goes on. *)
LEMMA LeavesFileLemma ==
  ASSUME RawInv, LeavesFile
  PROVE  RawInv'
<1>. DEFINE TakenAfter(r) == (r \in firsts \/ r = passed) /\ \E s \in asked : s.last = r
<1>. USE DEF RawInv
<1>1. /\ at = "left" /\ at' = "files" /\ sections' = Remaining(sections, current)
      /\ nth' = nth + 1 /\ base' = passed /\ firsts' = firsts \cup {passed}
      /\ UNCHANGED <<files, asked, cancelled, batch, items, ahead, inside, current, out, passed>>
  BY DEF LeavesFile, input, loop
<1>2. /\ base \in Nat /\ current \in Nat /\ passed \in Nat /\ base <= passed
      /\ \A s \in sections : s.first \in Nat /\ s.last \in Nat /\ s.first <= s.last
      /\ sections \subseteq Section /\ SectionsValid(sections) /\ SectionsValid(asked)
      /\ firsts \subseteq Nat /\ \A f \in firsts : f <= base
  BY DEF RawTypeOK, Section, SectionsFit, SectionsValid
<1>3. /\ sections' \subseteq Section /\ SectionsValid(sections')
      /\ \A n \in Nat :
           (\E s \in sections' : s.first <= n /\ n <= s.last)
             <=> \E s \in sections : s.last > current /\ s.first <= n + current /\ n + current <= s.last
      /\ \A n \in Nat :
           (\E s \in sections' : s.last = n)
             <=> n > 0 /\ \E s \in sections : s.last = n + current
  <2>. DEFINE R == Remaining(sections, current)
  <2>1. /\ R \subseteq Section /\ SectionsValid(R)
        /\ \A n \in Nat :
             (\E s \in R : s.first <= n /\ n <= s.last)
               <=> \E s \in sections : s.last > current /\ s.first <= n + current /\ n + current <= s.last
        /\ \A n \in Nat :
             (\E s \in R : s.last = n)
               <=> n > 0 /\ \E s \in sections : s.last = n + current
    BY <1>2, RemainingIsValid
  <2>2. sections' = R
    BY <1>1
  <2>. HIDE DEF R
  <2>. QED
    BY <2>1, <2>2 DEF SectionsValid
<1>4. RawTypeOK'
  BY <1>1, <1>2, <1>3 DEF RawTypeOK, Places
<1>5. AllEnded \/ passed = base + current
  BY <1>1 DEF RestInv
<1>6. \A r : TakenAfter(r) <=> TakenForEmpty(r) \/ (r = passed /\ \E s \in asked : s.last = r)
  BY DEF TakenForEmpty
<1>. HIDE DEF TakenAfter
<1>7. ASSUME NEW n \in Nat
      PROVE  (\E s \in sections' : s.first <= n /\ n <= s.last)
               <=> (\E s \in asked : s.first <= passed + n /\ passed + n <= s.last)
                     /\ ~TakenAfter(passed + n)
  <2>1. CASE AllEnded
    <3>1. ~ \E s \in sections' : s.first <= n /\ n <= s.last
      BY <2>1, <1>2, <1>3 DEF AllEnded
    <3>2. (\E s \in asked : s.first <= passed + n /\ passed + n <= s.last) => TakenForEmpty(passed + n)
      <4>1. passed + n \in Nat /\ passed <= passed + n
        BY <1>2
      <4>. QED
        BY <4>1, <2>1, NothingMore DEF AllEnded
    <3>. QED
      BY <3>1, <3>2, <1>6
  <2>2. CASE passed = base + current
    <3>1. passed + n = base + (n + current) /\ n + current \in Nat
      BY <2>2, <1>2
    <3>2. (\E s \in sections : s.first <= n + current /\ n + current <= s.last)
            <=> (\E s \in asked : s.first <= passed + n /\ passed + n <= s.last)
                  /\ ~TakenForEmpty(passed + n)
      BY <3>1 DEF SectionsFit
    <3>3. CASE n # 0
      <4>1. passed + n # passed
        BY <3>3, <1>2
      <4>2. \A s \in sections : n + current <= s.last => s.last > current
        BY <3>3, <1>2
      <4>. QED
        BY <4>1, <4>2, <3>2, <1>3, <1>6
    <3>4. CASE n = 0
      <4>1. passed + n = passed /\ n + current = current
        BY <3>4, <1>2
      <4>2. (\E s \in sections' : s.first <= n /\ n <= s.last)
              <=> \E s \in sections : s.last > current /\ s.first <= current
        BY <4>1, <1>2, <1>3
      <4>3. (\E s \in sections : s.last = current)
              <=> (\E s \in asked : s.last = passed) /\ passed \notin firsts
        BY <4>1, <2>2, <1>2 DEF SectionsFit
      <4>4. ASSUME NEW s \in sections, NEW t \in sections,
                   s.first <= current, s.last >= current, t.last = current
            PROVE  s.last = current
        BY <4>4, <1>2 DEF SectionsValid
      <4>5. ASSUME NEW s \in sections, s.first <= current, s.last > current
            PROVE  ~ \E t \in asked : t.last = passed
        <5>1. ~TakenForEmpty(passed)
          BY <4>5, <4>1, <3>2, <1>2
        <5>2. ~ \E t \in sections : t.last = current
          BY <4>5, <4>4, <1>2
        <5>. QED
          BY <5>1, <5>2, <4>3 DEF TakenForEmpty
      <4>6. ASSUME NEW s \in asked, s.first <= passed, passed <= s.last, ~ \E t \in asked : t.last = passed
            PROVE  \E u \in sections : u.last > current /\ u.first <= current
        <5>1. ~TakenForEmpty(passed)
          BY <4>6 DEF TakenForEmpty
        <5>2. PICK u \in sections : u.first <= current /\ current <= u.last
          BY <5>1, <4>6, <4>1, <3>2
        <5>3. u.last # current
          BY <4>6, <4>3
        <5>. QED
          BY <5>2, <5>3, <1>2
      <4>7. TakenAfter(passed) <=> \E s \in asked : s.last = passed
        BY <1>6 DEF TakenForEmpty
      <4>8. (\E s \in sections : s.last > current /\ s.first <= current)
               => (\E s \in asked : s.first <= passed /\ passed <= s.last)
        BY <4>1, <3>2, <1>2
      <4>. QED
        BY <4>1, <4>2, <4>5, <4>6, <4>7, <4>8
    <3>. QED
      BY <3>3, <3>4
  <2>. QED
    BY <2>1, <2>2, <1>5
<1>8. ASSUME NEW n \in Nat
      PROVE  (\E s \in sections' : s.last = n)
               <=> (\E s \in asked : s.last = passed + n) /\ passed + n \notin firsts'
  <2>1. CASE n = 0
    BY <2>1, <1>1, <1>2, <1>3
  <2>2. CASE n # 0
    <3>1. passed + n \in firsts' <=> passed + n \in firsts
      BY <2>2, <1>1, <1>2
    <3>2. passed + n \notin firsts
      BY <2>2, <1>2
    <3>3. CASE AllEnded
      <4>1. ~ \E s \in sections' : s.last = n
        BY <3>3, <1>2, <1>3 DEF AllEnded
      <4>2. (passed - base) + n \in Nat /\ base + ((passed - base) + n) = passed + n
        BY <1>2
      <4>3. ~ \E s \in sections : s.last = (passed - base) + n
        BY <3>3, <1>2 DEF AllEnded
      <4>. QED
        BY <4>1, <4>2, <4>3, <3>2 DEF SectionsFit
    <3>4. CASE passed = base + current
      <4>1. passed + n = base + (n + current) /\ n + current \in Nat /\ n > 0
        BY <3>4, <2>2, <1>2
      <4>. QED
        BY <4>1, <3>1, <3>2, <1>3 DEF SectionsFit
    <3>. QED
      BY <3>3, <3>4, <1>5
  <2>. QED
    BY <2>1, <2>2
<1>9. SectionsFit'
  <2>1. \A f \in firsts' : f <= passed
    BY <1>1, <1>2
  <2>. QED
    BY <1>1, <1>2, <1>3, <1>7, <1>8, <2>1 DEF SectionsFit, TakenForEmpty, TakenAfter, SectionsValid
<1>10. WrittenSoFar'
  BY <1>1, <1>2 DEF WrittenSoFar, TakenForEmpty
<1>. QED
  BY <1>1, <1>4, <1>9, <1>10 DEF SelectInv, RestInv, BetweenInv

LEMMA ExportsLemma ==
  ASSUME RawInv, Exports
  PROVE  RawInv'
BY OpensFileLemma, MovesOnLemma, ProducesBatchLemma, TakesItemLemma, EndsSectionLemma,
   EndsLastLemma, ReadsRestLemma, LeavesFileLemma
   DEF Exports

LEMMA RawStutters ==
  ASSUME RawInv, UNCHANGED rawVars
  PROVE  RawInv'
<1>1. UNCHANGED <<at, files, asked, cancelled, nth, sections, base, firsts, batch, items, ahead,
                  inside, current, out, passed>>
  BY DEF rawVars, input, file, loop
<1>. QED
  BY <1>1 DEF RawInv, RawTypeOK, SectionsFit, SectionsValid, TakenForEmpty, WrittenSoFar, SelectInv,
     First, RestInv, AllEnded, Batches, BetweenInv

LEMMA RawReturnsLemma ==
  ASSUME RawInv, RawReturns
  PROVE  RawInv'
<1>1. /\ at' = "idle" /\ files' = <<>> /\ asked' = {} /\ cancelled' = cancelled
      /\ nth' = 1 /\ sections' = {} /\ base' = 0 /\ firsts' = {}
      /\ batch' = 0 /\ items' = <<>> /\ ahead' = {} /\ inside' = FALSE /\ current' = 0
      /\ out' = {} /\ passed' = 0
  BY DEF RawReturns
<1>2. files' \in Seq(File)
  BY <1>1
<1>3. items' \in Seq(Items)
  BY <1>1
<1>4. RawTypeOK'
  <2>1. at' \in Places
    BY <1>1 DEF Places
  <2>2. asked' \subseteq Section /\ sections' \subseteq Section /\ ahead' \subseteq Section
        /\ firsts' \subseteq Nat /\ out' \subseteq Nat
    BY <1>1
  <2>3. nth' \in Nat \ {0} /\ base' \in Nat /\ batch' \in Nat /\ current' \in Nat /\ passed' \in Nat
    BY <1>1
  <2>4. cancelled' \in BOOLEAN /\ inside' \in BOOLEAN
    BY <1>1 DEF RawInv, RawTypeOK
  <2>. QED
    BY <1>2, <1>3, <2>1, <2>2, <2>3, <2>4 DEF RawTypeOK
<1>. QED
  BY <1>1, <1>4 DEF RawInv, SectionsFit, SectionsValid, WrittenSoFar, SelectInv, RestInv, BetweenInv

LEMMA StopsSessionLemma ==
  ASSUME RawInv, StopsSession
  PROVE  RawInv'
<1>1. /\ cancelled' = TRUE
      /\ UNCHANGED <<at, files, asked, nth, sections, base, firsts, batch, items, ahead,
                     inside, current, out, passed>>
  BY DEF StopsSession, file, loop
<1>. QED
  BY <1>1 DEF RawInv, RawTypeOK, SectionsFit, SectionsValid, TakenForEmpty, WrittenSoFar, SelectInv,
     First, RestInv, AllEnded, Batches, BetweenInv

LEMMA RawInitially ==
  ASSUME RawInit
  PROVE  RawInv
<1>1. files \in Seq(File) /\ items \in Seq(Items)
  BY DEF RawInit
<1>2. RawTypeOK
  <2>1. at \in Places
    BY DEF RawInit, Places
  <2>2. asked \subseteq Section /\ sections \subseteq Section /\ ahead \subseteq Section
        /\ firsts \subseteq Nat /\ out \subseteq Nat
    BY DEF RawInit
  <2>3. nth \in Nat \ {0} /\ base \in Nat /\ batch \in Nat /\ current \in Nat /\ passed \in Nat
    BY DEF RawInit
  <2>4. cancelled \in BOOLEAN /\ inside \in BOOLEAN
    BY DEF RawInit
  <2>. QED
    BY <1>1, <2>1, <2>2, <2>3, <2>4 DEF RawTypeOK
<1>. QED
  BY <1>2 DEF RawInit, RawInv, SectionsFit, SectionsValid, WrittenSoFar, SelectInv, RestInv, BetweenInv

LEMMA RawIsInductive ==
  ASSUME RawInv, [Next]_vars
  PROVE  RawInv'
<1>1. CASE UNCHANGED rawVars
  BY <1>1, RawStutters
<1>2. CASE ~ UNCHANGED rawVars
  <2>1. BeginsRaw \/ Exports \/ RawReturns \/ StopsSession
    BY <1>2 DEF Next, vars, OpensDialog, ConfirmsModal, Dismisses, SelectsDestination, OpensResults,
       HandlesPhase, ClosesTab, Serves, HandlesExport, HandlesDone, HandlesError, Drops, ChildCloses,
       Operates, BeginsExport, NotPossible, ExportsRaw, ExportsText
  <2>. QED
    BY <2>1, BeginsRawLemma, ExportsLemma, RawReturnsLemma, StopsSessionLemma
<1>. QED
  BY <1>1, <1>2

(* What a finished export has written is the selection. *)
LEMMA WrittenIsSelection ==
  ASSUME RawInv
  PROVE  ExportIsSelection
<1>. USE DEF RawInv
<1>1. /\ asked \subseteq Section /\ out \subseteq Nat /\ base \in Nat /\ passed \in Nat
      /\ \A s \in asked : s.first \in Nat /\ s.last \in Nat
  BY DEF RawTypeOK, Section
<1>2. \A r : r \in Covered(asked) <=> r \in Nat /\ \E s \in asked : s.first <= r /\ r <= s.last
  BY <1>1 DEF Covered
<1>3. out \subseteq Covered(asked)
  BY <1>1, <1>2 DEF WrittenSoFar
<1>4. ASSUME at = "done" PROVE out = Wanted
  <2>1. base = passed /\ (nth > Len(files) \/ sections = {})
    BY <1>4 DEF BetweenInv
  <2>2. ASSUME NEW r \in Nat, \E s \in asked : s.first <= r /\ r <= s.last, ~TakenForEmpty(r),
               sections = {}
        PROVE  r < passed
    <3>1. SUFFICES ASSUME passed <= r PROVE FALSE
      BY <1>1
    <3>2. RawTypeOK /\ SectionsFit /\ \A s \in sections : base + s.last < passed
      BY <2>2
    <3>. QED
      BY <2>2, <3>1, <3>2, NothingMore
  <2>3. ASSUME NEW r \in Nat
        PROVE  r \in out <=> r \in Wanted
    BY <1>2, <2>1, <2>2 DEF WrittenSoFar, Wanted, InFiles
  <2>4. Wanted \subseteq Nat
    BY <1>2 DEF Wanted
  <2>. QED
    BY <1>1, <2>3, <2>4
<1>. QED
  BY <1>3, <1>4 DEF ExportIsSelection, BetweenInv

-----------------------------------------------------------------------------
(* Temporary files. *)

LEMMA OpsAreNumbers == Ops \subseteq Nat \ {0} /\ NoOp \notin Ops
BY SessionExportAssumption DEF Ops, NoOp

LEMMA OneOwnerIsCounted ==
  ASSUME OwnerTypeOK, OwnerInv
  PROVE  TempFilesHaveOneOwner
<1>1. /\ Cardinality({"parent"}) = 1 /\ Cardinality({"child"}) = 1
  BY FS_Singleton
<1>2. ASSUME NEW o \in temp PROVE Owners(o) = {"parent"} \/ Owners(o) = {"child"}
  <2>1. CASE child[o] = "open"
    <3>1. ~(service # "gone" /\ tracker = o)
      BY <2>1 DEF OwnerInv
    <3>. QED
      BY <2>1, <3>1 DEF Owners
  <2>2. CASE child[o] # "open"
    <3>1. service # "gone" /\ tracker = o
      BY <2>2 DEF OwnerInv
    <3>. QED
      BY <2>2, <3>1 DEF Owners
  <2>. QED
    BY <2>1, <2>2
<1>. QED
  BY <1>1, <1>2 DEF TempFilesHaveOneOwner

LEMMA FilesInitially ==
  ASSUME Init
  PROVE  FilesInv
<1>1. cmds \in Seq(Ops) /\ news \in Seq(Ops) /\ events \in Seq([is : {"done", "error"}, op : Ops])
  BY DEF Init
<1>2. OwnerTypeOK
  BY <1>1 DEF Init, OwnerTypeOK
<1>. QED
  BY <1>2 DEF Init, FilesInv, FlightInv, OwnerInv, NoOp

LEMMA FilesStutter ==
  ASSUME FilesInv, UNCHANGED <<kind, pending, view, channels, serviceVars, temp>>
  PROVE  FilesInv'
<1>1. UNCHANGED <<kind, pending, view, cmds, news, events, service, tracker, running, child, temp>>
  BY DEF channels, serviceVars
<1>. QED
  BY <1>1 DEF FilesInv, OwnerTypeOK, FlightInv, Awaited, Known, OwnerInv

(* An export that is asked for is the only one, as the tab waits for none.  *)
LEMMA AsksLemma ==
  ASSUME FilesInv, view = "open", pending = NoOp,
         NEW o \in Fresh, NEW k \in Kinds, Tracks(o, k), Sends(o),
         UNCHANGED <<view, news, events, serviceVars, temp>>
  PROVE  FilesInv'
<1>. USE DEF FilesInv
<1>1. /\ UNCHANGED <<view, news, events, service, tracker, running, child, temp>>
      /\ o \in Ops /\ kind[o] = "none" /\ kind' = [kind EXCEPT ![o] = k]
      /\ kind \in [Ops -> Kinds \cup {"none"}]
      /\ k # "none" /\ child[o] = "none"
  BY DEF Tracks, Fresh, serviceVars, OwnerTypeOK, OwnerInv, Kinds
<1>2. cmds = <<>> /\ events = <<>> /\ running = NoOp
  BY OpsAreNumbers DEF FlightInv, Awaited, Known
<1>3. \A p \in Ops : kind[p] # "none" => kind'[p] = kind[p]
  BY <1>1
<1>4. kind'[o] = k
  BY <1>1
<1>5. \A i \in 1 .. Len(news) : news[i] # o /\ news[i] \in Ops /\ kind'[news[i]] # "none"
  BY <1>1, <1>3 DEF OwnerInv, Known
<1>6. CASE cmds' = Append(cmds, o) /\ pending' = o
  <2>1. cmds' \in Seq(Ops) /\ Len(cmds') = 1 /\ Head(cmds') = o
    BY <1>1, <1>2, <1>6 DEF OwnerTypeOK
  <2>2. OwnerTypeOK'
    BY <1>1, <1>6, <2>1 DEF OwnerTypeOK
  <2>3. FlightInv'
    BY <1>1, <1>2, <1>4, <1>5, <1>6, <2>1 DEF FlightInv, Awaited, Known
  <2>4. OwnerInv'
    BY <1>1, <1>2, <1>3, <1>4, <1>5 DEF OwnerInv, Known
  <2>. QED
    BY <2>2, <2>3, <2>4
<1>7. CASE UNCHANGED <<cmds, pending>>
  <2>1. OwnerTypeOK'
    BY <1>1, <1>7 DEF OwnerTypeOK
  <2>2. FlightInv'
    BY <1>1, <1>2, <1>7 DEF FlightInv
  <2>3. OwnerInv'
    BY <1>1, <1>2, <1>3, <1>4, <1>5 DEF OwnerInv, Known
  <2>. QED
    BY <2>1, <2>2, <2>3
<1>. QED
  BY <1>6, <1>7 DEF Sends

LEMMA ViewLemma ==
  ASSUME FilesInv, HandlesPhase \/ ClosesTab
  PROVE  FilesInv'
<1>. USE DEF FilesInv
<1>1. UNCHANGED <<kind, cmds, events, service, tracker, running, child, temp>>
  BY DEF HandlesPhase, ClosesTab, channels, serviceVars
<1>2. CASE HandlesPhase
  <2>1. /\ news # <<>> /\ news' = Tail(news) /\ UNCHANGED view
        /\ pending' = IF Head(news) = pending THEN NoOp ELSE pending
        /\ news \in Seq(Ops)
    BY <1>2 DEF HandlesPhase, OwnerTypeOK
  <2>2. /\ news' \in Seq(Ops) /\ Len(news') = Len(news) - 1 /\ Len(news) >= 1
        /\ \A i \in 1 .. Len(news') : i + 1 \in 1 .. Len(news) /\ news'[i] = news[i + 1]
        /\ Head(news) = news[1]
    BY <2>1
  <2>3. ASSUME NEW o, Awaited(o) PROVE Awaited(o)'
    BY <2>1, <2>2, <2>3, <1>1 DEF Awaited, Known
  <2>4. OwnerTypeOK'
    BY <1>1, <2>1, <2>2 DEF OwnerTypeOK
  <2>5. FlightInv'
    BY <1>1, <2>3 DEF FlightInv, Awaited, Known
  <2>6. OwnerInv'
    BY <1>1, <2>1, <2>2 DEF OwnerInv, Known
  <2>. QED
    BY <2>4, <2>5, <2>6
<1>3. CASE ClosesTab
  <2>1. view' = "closed" /\ pending' = NoOp /\ UNCHANGED news
    BY <1>3 DEF ClosesTab, channels
  <2>2. OwnerTypeOK' /\ OwnerInv'
    BY <1>1, <2>1 DEF OwnerTypeOK, OwnerInv, Known
  <2>3. FlightInv'
    BY <1>1, <2>1 DEF FlightInv, Awaited, Known
  <2>. QED
    BY <2>2, <2>3
<1>. QED
  BY <1>2, <1>3

(* A command is handled when nothing runs; then no file is waited for by    *)
(* the service, or the export is not for a tab. *)
LEMMA HandlesExportLemma ==
  ASSUME FilesInv, HandlesExport
  PROVE  FilesInv'
<1>. USE DEF FilesInv
<1>. DEFINE o == Head(cmds)
<1>1. /\ service = "runs" /\ cmds # <<>> /\ cmds' = Tail(cmds)
      /\ UNCHANGED <<kind, pending, view, events, service, child, temp>>
      /\ (~(OfTab(kind[o]) /\ tracker # NoOp) /\ Starts(o)) \/ EndsAtOnce(o)
  BY DEF HandlesExport, viewVars
<1>2. /\ o \in Ops /\ cmds' = <<>> /\ cmds' \in Seq(Ops)
      /\ running = NoOp /\ events = <<>> /\ Awaited(o)
  BY <1>1 DEF FlightInv, OwnerTypeOK
<1>3. child[o] = "none" /\ kind[o] # "none"
  BY <1>2 DEF Awaited, Known
<1>4. CASE ~(OfTab(kind[o]) /\ tracker # NoOp) /\ Starts(o)
  <2>1. /\ running' = o /\ UNCHANGED news
        /\ tracker' = IF OfTab(kind[o]) THEN o ELSE tracker
    BY <1>4 DEF Starts
  <2>2. OwnerTypeOK'
    BY <1>1, <1>2, <2>1 DEF OwnerTypeOK
  <2>3. Awaited(running)'
    BY <1>1, <1>2, <2>1 DEF Awaited, Known
  <2>4. FlightInv'
    BY <1>1, <1>2, <2>1, <2>3 DEF FlightInv
  <2>5. \A p \in temp : (service # "gone" /\ tracker' = p) <=> child[p] # "open"
    BY <1>1, <1>2, <1>3, <1>4, <2>1, OpsAreNumbers DEF OwnerInv, OwnerTypeOK
  <2>6. OwnerInv'
    BY <1>1, <1>2, <1>3, <2>1, <2>5 DEF OwnerInv, Known
  <2>. QED
    BY <2>2, <2>4, <2>6
<1>5. CASE EndsAtOnce(o)
  <2>1. /\ news' = Append(news, o) /\ UNCHANGED <<running, tracker>>
    BY <1>5 DEF EndsAtOnce, Says
  <2>2. news' \in Seq(Ops) /\ \A i \in 1 .. Len(news') : news'[i] = o \/ \E j \in 1 .. Len(news) : news'[i] = news[j]
    BY <1>2, <2>1 DEF OwnerTypeOK
  <2>3. OwnerTypeOK'
    BY <1>1, <1>2, <2>1, <2>2 DEF OwnerTypeOK
  <2>4. FlightInv'
    BY <1>1, <1>2, <2>1 DEF FlightInv
  <2>5. OwnerInv'
    BY <1>1, <1>2, <1>3, <2>1, <2>2 DEF OwnerInv, Known
  <2>. QED
    BY <2>3, <2>4, <2>5
<1>. QED
  BY <1>1, <1>4, <1>5

LEMMA OnlyElement ==
  ASSUME NEW S, NEW q \in Seq(S), q # <<>>, Len(q) <= 1
  PROVE  Head(q) \in S /\ Len(q) = 1 /\ Tail(q) = <<>> /\ Tail(q) \in Seq(S)
<1>1. Len(q) = 1
  <2>1. Len(q) \in Nat /\ Len(q) # 0
    OBVIOUS
  <2>. QED
    BY <2>1
<1>4. q[1] \in S
  BY <1>1
<1>5. Head(q) = q[1]
  BY <1>1
<1>2. Tail(q) \in Seq(S) /\ Len(Tail(q)) = 0
  BY <1>1
<1>3. Tail(q) = <<>>
  BY <1>2
<1>. QED
  BY <1>1, <1>2, <1>3, <1>4, <1>5

(* An event ends the wait of the service; the file goes to the session that *)
(* is opened, or is removed. *)
LEMMA HandlesEventLemma ==
  ASSUME FilesInv, HandlesDone \/ HandlesError
  PROVE  FilesInv'
<1>. USE DEF FilesInv
<1>. DEFINE o == Head(events).op
<1>1. /\ service = "runs" /\ events # <<>> /\ events' = Tail(events)
      /\ news' = Append(news, o)
      /\ UNCHANGED <<kind, pending, view, cmds, service, running>>
  BY DEF HandlesDone, HandlesError, Says, viewVars
<1>2. /\ o \in Ops /\ events' = <<>> /\ events' \in Seq([is : {"done", "error"}, op : Ops])
      /\ cmds = <<>> /\ running = NoOp /\ Awaited(o)
  <2>1. Head(events) \in [is : {"done", "error"}, op : Ops] /\ Len(events) = 1
        /\ Tail(events) = <<>> /\ Tail(events) \in Seq([is : {"done", "error"}, op : Ops])
    <3>1. events \in Seq([is : {"done", "error"}, op : Ops]) /\ events # <<>> /\ Len(events) <= 1
      BY <1>1 DEF FlightInv, OwnerTypeOK
    <3>. QED
      BY <3>1, OnlyElement
  <2>2. o \in Ops
    BY <2>1
  <2>3. cmds = <<>> /\ running = NoOp /\ Awaited(o)
    BY <1>1 DEF FlightInv
  <2>4. events' = <<>> /\ events' \in Seq([is : {"done", "error"}, op : Ops])
    BY <1>1, <2>1
  <2>. QED
    BY <2>2, <2>3, <2>4
<1>3. child[o] = "none" /\ kind[o] # "none"
  BY <1>2 DEF Awaited, Known
<1>4. news' \in Seq(Ops) /\ \A i \in 1 .. Len(news') : news'[i] = o \/ \E j \in 1 .. Len(news) : news'[i] = news[j]
  BY <1>1, <1>2 DEF OwnerTypeOK
<1>5. \/ UNCHANGED <<tracker, child, temp>> /\ tracker # o
      \/ tracker = o /\ tracker' = NoOp /\ child' = [child EXCEPT ![o] = "open"] /\ UNCHANGED temp
      \/ tracker = o /\ tracker' = NoOp /\ temp' = temp \ {o} /\ UNCHANGED child
  BY DEF HandlesDone, HandlesError, OpensChild, Cleaned
<1>6. /\ tracker' \in Ops \cup {NoOp} /\ temp' \subseteq temp
      /\ child' \in [Ops -> {"none", "open", "gone"}]
      /\ \A p \in Ops : p # o => child'[p] = child[p]
  BY <1>2, <1>5 DEF OwnerTypeOK
<1>7. OwnerTypeOK'
  BY <1>1, <1>2, <1>4, <1>6 DEF OwnerTypeOK
<1>8. FlightInv'
  BY <1>1, <1>2 DEF FlightInv
<1>9. \A p \in temp' : (service # "gone" /\ tracker' = p) <=> child'[p] # "open"
  <2>1. ASSUME NEW p \in temp' PROVE (service # "gone" /\ tracker' = p) <=> child'[p] # "open"
    <3>1. p \in temp /\ p \in Ops /\ p # NoOp
      BY <1>6, OpsAreNumbers DEF OwnerTypeOK
    <3>2. (service # "gone" /\ tracker = p) <=> child[p] # "open"
      BY <3>1 DEF OwnerInv
    <3>3. CASE UNCHANGED <<tracker, child, temp>>
      BY <3>2, <3>3
    <3>4. CASE tracker = o /\ tracker' = NoOp /\ p # o
      BY <1>6, <3>1, <3>2, <3>4
    <3>5. CASE tracker' = NoOp /\ child' = [child EXCEPT ![o] = "open"] /\ p = o
      BY <3>1, <3>5 DEF OwnerTypeOK
    <3>. QED
      BY <1>5, <3>3, <3>4, <3>5
  <2>. QED
    BY <2>1
<1>10. tracker' # NoOp => child'[tracker'] = "none"
  BY <1>5 DEF OwnerInv
<1>11. \A p \in Ops : kind[p] = "none" => child'[p] = "none"
  BY <1>3, <1>6 DEF OwnerInv
<1>12. \A i \in 1 .. Len(news') : Known(news'[i])
  BY <1>2, <1>3, <1>4 DEF OwnerInv, Known
<1>13. OwnerInv'
  BY <1>1, <1>2, <1>9, <1>10, <1>11, <1>12 DEF OwnerInv, Known
<1>. QED
  BY <1>7, <1>8, <1>13

(* The service goes when nothing runs, and takes the file with it that it   *)
(* waits for; a session that closes takes the one it reads.                 *)
LEMMA ClosesLemma ==
  ASSUME FilesInv, StopsSession \/ Drops \/ \E o \in Ops : ChildCloses(o)
  PROVE  FilesInv'
<1>. USE DEF FilesInv
<1>1. CASE StopsSession
  <2>1. /\ service = "runs" /\ service' = "stops"
        /\ UNCHANGED <<kind, pending, view, cmds, news, events, tracker, running, child, temp>>
    BY <1>1 DEF StopsSession, viewVars, channels
  <2>. QED
    BY <2>1 DEF OwnerTypeOK, FlightInv, Awaited, Known, OwnerInv
<1>2. CASE Drops
  <2>1. /\ service = "stops" /\ running = NoOp /\ service' = "gone"
        /\ temp' = temp \ {tracker} /\ tracker' = NoOp
        /\ UNCHANGED <<kind, pending, view, cmds, news, events, running, child>>
    BY <1>2 DEF Drops, Cleaned, viewVars, channels
  <2>2. OwnerTypeOK'
    BY <2>1 DEF OwnerTypeOK
  <2>3. FlightInv'
    BY <2>1 DEF FlightInv, Awaited, Known
  <2>4. OwnerInv'
    BY <2>1 DEF OwnerInv, Known
  <2>. QED
    BY <2>2, <2>3, <2>4
<1>3. ASSUME NEW o \in Ops, ChildCloses(o) PROVE FilesInv'
  <2>1. /\ child[o] = "open" /\ child' = [child EXCEPT ![o] = "gone"] /\ temp' = temp \ {o}
        /\ UNCHANGED <<kind, pending, view, cmds, news, events, service, tracker, running>>
    BY <1>3 DEF ChildCloses, Cleaned, viewVars, channels
  <2>2. child \in [Ops -> {"none", "open", "gone"}]
    BY DEF OwnerTypeOK
  <2>3. child' \in [Ops -> {"none", "open", "gone"}] /\ \A p \in Ops : p # o => child'[p] = child[p]
    BY <2>1, <2>2
  <2>4. OwnerTypeOK'
    BY <2>1, <2>3 DEF OwnerTypeOK
  <2>5. ASSUME NEW p, Awaited(p) PROVE Awaited(p)'
    BY <2>1, <2>3, <2>5 DEF Awaited, Known
  <2>6. FlightInv'
    BY <2>1, <2>5 DEF FlightInv
  <2>7. tracker # o /\ kind[o] # "none"
    BY <2>1, OpsAreNumbers DEF OwnerInv
  <2>8. OwnerInv'
    BY <2>1, <2>3, <2>7 DEF OwnerInv, Known, OwnerTypeOK
  <2>. QED
    BY <2>4, <2>6, <2>8
<1>. QED
  BY <1>1, <1>2, <1>3

(* A temporary file appears only while the service waits for it. *)
LEMMA WritesLemma ==
  ASSUME FilesInv, running # NoOp, temp' \in {temp, Written},
         UNCHANGED <<kind, pending, view, cmds, news, service, tracker, child>>,
         \/ UNCHANGED <<events, running>>
         \/ \E is \in {"done", "error"} : Ends(is)
  PROVE  FilesInv'
<1>. USE DEF FilesInv
<1>1. running \in Ops /\ events = <<>> /\ cmds = <<>> /\ Awaited(running) /\ Known(running)
  BY DEF OwnerTypeOK, FlightInv, Awaited
<1>2. temp' \subseteq Ops /\ \A p \in temp' : p \in temp \/ (p = running /\ OfTab(kind[running]))
  BY <1>1 DEF Written, OwnerTypeOK
<1>3. \A p \in temp' : (service # "gone" /\ tracker = p) <=> child[p] # "open"
  BY <1>1, <1>2 DEF OwnerInv, Awaited
<1>4. CASE UNCHANGED <<events, running>>
  <2>1. OwnerTypeOK' /\ FlightInv'
    BY <1>2, <1>4 DEF OwnerTypeOK, FlightInv, Awaited, Known
  <2>2. OwnerInv'
    BY <1>3, <1>4 DEF OwnerInv, Known
  <2>. QED
    BY <2>1, <2>2
<1>5. ASSUME NEW is \in {"done", "error"}, Ends(is) PROVE FilesInv'
  <2>. DEFINE e == [is |-> is, op |-> running]
  <2>1. running' = NoOp /\ events' = Append(events, e)
    BY <1>5 DEF Ends
  <2>2. events' = <<e>> /\ e \in [is : {"done", "error"}, op : Ops]
    BY <1>1, <2>1
  <2>3. events' \in Seq([is : {"done", "error"}, op : Ops]) /\ Len(events') = 1
        /\ Head(events').op = running
    BY <2>2
  <2>4. OwnerTypeOK'
    BY <1>2, <2>1, <2>3 DEF OwnerTypeOK
  <2>5. Awaited(Head(events).op)'
    BY <1>1, <2>3 DEF Awaited, Known
  <2>6. FlightInv'
    BY <1>1, <2>1, <2>3, <2>5 DEF FlightInv, Awaited, Known
  <2>7. OwnerInv'
    BY <1>3, <2>1 DEF OwnerInv, Known
  <2>. QED
    BY <2>4, <2>6, <2>7
<1>. QED
  BY <1>4, <1>5

LEMMA DialogIsInductive ==
  ASSUME DialogInv, [Next]_vars
  PROVE  DialogInv'
<1>1. CASE UNCHANGED <<dialog, pending>>
  BY <1>1 DEF DialogInv
<1>2. CASE ~ UNCHANGED <<dialog, pending>>
  <2>1. \/ OpensDialog \/ ConfirmsModal \/ Dismisses \/ HandlesPhase \/ ClosesTab
        \/ \E o \in Fresh : SelectsDestination(o) \/ OpensResults(o)
    BY <1>2 DEF Next, vars, viewVars, Serves, HandlesExport, HandlesDone, HandlesError, StopsSession,
       Drops, ChildCloses, Operates, BeginsExport, NotPossible, ExportsRaw, RawReturns, ExportsText
  <2>. QED
    BY <2>1 DEF DialogInv, OpensDialog, ConfirmsModal, Dismisses, HandlesPhase, ClosesTab, CanStart,
       SelectsDestination, OpensResults
<1>. QED
  BY <1>1, <1>2

LEMMA FilesIsInductive ==
  ASSUME FilesInv, DialogInv, [Next]_vars
  PROVE  FilesInv'
<1>. USE DEF FilesInv
<1>1. CASE OpensDialog \/ ConfirmsModal \/ Dismisses \/ BeginsExport \/ UNCHANGED vars
  <2>1. UNCHANGED <<kind, pending, view, channels, serviceVars, temp>>
    BY <1>1 DEF OpensDialog, ConfirmsModal, Dismisses, BeginsExport, viewVars, vars
  <2>. QED
    BY <2>1, FilesStutter
<1>2. ASSUME NEW o \in Fresh, SelectsDestination(o) \/ OpensResults(o) PROVE FilesInv'
  <2>1. CASE SelectsDestination(o)
    <3>1. dialog \in Kinds /\ Tracks(o, dialog) /\ Sends(o) /\ view = "open"
          /\ UNCHANGED <<view, news, events, serviceVars, temp>>
      BY <2>1 DEF SelectsDestination, Kinds
    <3>2. pending = NoOp
      BY <2>1 DEF SelectsDestination, DialogInv
    <3>. QED
      BY <3>1, <3>2, AsksLemma
  <2>2. CASE OpensResults(o)
    <3>1. /\ \E k \in Kinds : Tracks(o, k)
          /\ Sends(o) /\ view = "open" /\ pending = NoOp
          /\ UNCHANGED <<view, news, events, serviceVars, temp>>
      BY <2>2 DEF OpensResults, CanStart, Kinds
    <3>. QED
      BY <3>1, AsksLemma
  <2>. QED
    BY <1>2, <2>1, <2>2
<1>3. CASE HandlesPhase \/ ClosesTab
  BY <1>3, ViewLemma
<1>4. CASE HandlesExport
  BY <1>4, HandlesExportLemma
<1>5. CASE HandlesDone \/ HandlesError
  BY <1>5, HandlesEventLemma
<1>6. CASE StopsSession \/ Drops \/ \E o \in Ops : ChildCloses(o)
  BY <1>6, ClosesLemma
<1>7. CASE NotPossible \/ ExportsRaw \/ RawReturns \/ ExportsText
  <2>1. running # NoOp /\ temp' \in {temp, Written}
        /\ UNCHANGED <<kind, pending, view, cmds, news, service, tracker, child>>
    BY <1>7 DEF NotPossible, ExportsRaw, RawReturns, ExportsText, viewVars, channels, serviceVars
  <2>2. UNCHANGED <<events, running>> \/ \E is \in {"done", "error"} : Ends(is)
    BY <1>7 DEF NotPossible, ExportsRaw, RawReturns, ExportsText, channels, serviceVars
  <2>. QED
    BY <2>1, <2>2, WritesLemma
<1>. QED
  BY <1>1, <1>2, <1>3, <1>4, <1>5, <1>6, <1>7 DEF Next, Serves, Operates

-----------------------------------------------------------------------------
(* A raw export that is done has written the rows that were asked for and   *)
(* that the files hold, and no other, however the rows lie in files and      *)
(* batches and however the selection is cut.  It leaves out only what        *)
(* move_left takes for an empty section.                                     *)
THEOREM SelectionCorrect == Spec => []ExportIsSelection
<1>1. Init => RawInv
  BY RawInitially DEF Init
<1>2. RawInv /\ [Next]_vars => RawInv'
  BY RawIsInductive
<1>3. RawInv => ExportIsSelection
  BY WrittenIsSelection
<1>. QED
  BY <1>1, <1>2, <1>3, PTL DEF Spec

(* The temporary file of search results has one owner at any time, the       *)
(* service that waits for its export or the session that was opened for it:  *)
(* whatever fails and whichever tab is closed, none is left behind.          *)
THEOREM TempFilesCorrect == Spec => []TempFilesHaveOneOwner
<1>1. Init => FilesInv /\ DialogInv
  BY FilesInitially DEF Init, DialogInv
<1>2. FilesInv /\ DialogInv /\ [Next]_vars => (FilesInv /\ DialogInv)'
  BY FilesIsInductive, DialogIsInductive
<1>3. FilesInv => TempFilesHaveOneOwner
  BY OneOwnerIsCounted DEF FilesInv
<1>. QED
  BY <1>1, <1>2, <1>3, PTL DEF Spec
=============================================================================
