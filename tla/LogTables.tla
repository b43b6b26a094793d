------------------------------- MODULE LogTables -------------------------------
(***************************************************************************)
(* The tables of rows in the view of a session: the main one and the one   *)
(* of the indexed rows (app: session/ui/logs_table, search_table.rs).      *)
(*                                                                         *)
(* A table has the rows of one page.  In each frame it compares the rows   *)
(* that are visible with those it asked for last; when they differ it asks *)
(* the service and blocks for up to 50 ms.  An answer that is later than   *)
(* that is waited for again in the next frame.  The main table takes each  *)
(* row for the position it says it has, the search table takes an answer   *)
(* for the rows that are visible when it takes it.                         *)
(*                                                                         *)
(* The view only draws a frame when it is woken: by an input, a message, a *)
(* notification or by itself.  The two tables share nothing but the queue  *)
(* to the service, so one of them is modelled at a time; and what the core *)
(* has is a number of rows: which rows, and whether a drop is refused, is  *)
(* the matter of IndexedMap and SearchView.                                *)
(***************************************************************************)
EXTENDS Naturals, FiniteSets, Sequences, FiniteSetsExt, SequencesExt

CONSTANTS
  TableKinds,  \* the tables: "main" and "search"
  Page,        \* how many rows are visible
  Marks,       \* how many indexed rows are left when a search is dropped
  Capacity,    \* CHANNELS_CAPACITY
  MaxLen,      \* bound: rows
  MaxInputs    \* bound: frames with an input

ASSUME TablesAssumption ==
  /\ TableKinds \subseteq {"main", "search"}
  /\ Page \in Nat \ {0} /\ Capacity \in Nat \ {0} /\ MaxLen \in Nat \ {0}
  /\ Marks \subseteq 0 .. MaxLen /\ MaxInputs \in Nat

VARIABLES
  kind,       \* which table it is
  table,      \* LogsTable or SearchTable
  ui,         \* the frame that is drawn and what it knows
  channel,    \* the channels on which answers come
  commands,   \* from the view to the service
  inbox,      \* from the service to the view: numbers of rows
  core        \* the rows that the core has

tableVars == <<kind, table, ui, channel, commands, inbox, core>>

NoChannel == 0
Drop == 0                       \* the command that is not for a channel
Channels == 1 .. Capacity + 2   \* those in the queue and two in the table
Unused == [rows |-> {}, is |-> "none", lines |-> << >>, late |-> FALSE]

Smaller(a, b) == IF a < b THEN a ELSE b

(* `cleared`, `late` and `drops` remember for the properties: the drops that *)
(* were sent before the table was cleared, whether the rows came with an     *)
(* answer to an earlier frame that had been replaced by other rows by then,  *)
(* and the drops that were served before a row was read. *)
NoRows == [last |-> {}, pending |-> NoChannel, logs |-> << >>, late |-> FALSE]

TablesInit ==
  /\ kind \in TableKinds
  /\ table = NoRows
  /\ \E sticks \in BOOLEAN :
       ui = [at |-> "idle", first |-> 1, count |-> 0, waits |-> NoChannel,
             dropped |-> FALSE, awake |-> TRUE, sticks |-> sticks,
             inputs |-> 0, sent |-> 0, cleared |-> 0]
  /\ channel = [c \in Channels |-> Unused]
  /\ commands = << >>
  /\ \E n \in Marks : core = [len |-> n, marks |-> n, drops |-> 0]
  /\ inbox = <<core.len>>

-------------------------------------------------------------------------------
(* The service                                                              *)

Line(row) == [row |-> row, drops |-> core.drops]

(* grab, or grab_indexed, which refuses rows beyond the index: the view may  *)
(* have counted them before a drop. *)
AnswerTo(rows) ==
  IF Max(rows) > core.len THEN [is |-> "refused", lines |-> << >>]
  ELSE [is |-> "lines", lines |-> [i \in 1 .. Cardinality(rows) |->
                                     Line(Min(rows) + i - 1)]]

IsHeard(c) == c \in {table.pending, ui.waits}

ServesGrab(c) ==
  /\ channel' = IF ~IsHeard(c) THEN channel
       ELSE [channel EXCEPT ![c].is = AnswerTo(channel[c].rows).is,
                            ![c].lines = AnswerTo(channel[c].rows).lines]
  /\ UNCHANGED <<core, inbox, ui>>

Tells(len) == inbox' = Append(inbox, len) /\ ui' = [ui EXCEPT !.awake = TRUE]

ServesDrop ==
  /\ core' = [core EXCEPT !.len = core.marks, !.drops = @ + 1]
  /\ Tells(core'.len)
  /\ UNCHANGED channel

Service ==
  /\ commands # << >>
  /\ commands' = Tail(commands)
  /\ IF Head(commands) = Drop THEN ServesDrop ELSE ServesGrab(Head(commands))
  /\ UNCHANGED <<kind, table>>

(* Rows are read, or found. *)
Grows ==
  /\ core.len < MaxLen
  /\ core' = [core EXCEPT !.len = @ + 1]
  /\ Tells(core'.len)
  /\ UNCHANGED <<kind, table, channel, commands>>

-------------------------------------------------------------------------------
(* The frame                                                                *)

Visible == {row \in ui.first .. ui.first + Page - 1 : row <= ui.count}

Counted == IF inbox = << >> THEN ui.count ELSE Last(inbox)

(* The first visible row stays among the rows. *)
Scrolled(row, count) == Smaller(row, IF count < Page THEN 1 ELSE count - Page + 1)

(* should_stick_to_bottom: a table at its end follows it. *)
Followed(count) ==
  IF ui.sticks /\ ui.first = Scrolled(MaxLen, ui.count)
  THEN Scrolled(MaxLen, count) ELSE Scrolled(ui.first, count)

Frame(first, inputs) ==
  ui' = [ui EXCEPT !.at = "prepares", !.awake = FALSE, !.first = first,
                   !.count = Counted, !.inputs = inputs]

(* Messages are handled before a frame is drawn. *)
FrameStarts ==
  /\ ui.at = "idle" /\ ui.awake
  /\ Frame(Followed(Counted), ui.inputs)
  /\ inbox' = << >>
  /\ UNCHANGED <<kind, table, channel, commands, core>>

(* The user scrolls. *)
Scrolls ==
  /\ ui.at = "idle" /\ ui.inputs < MaxInputs
  /\ \E row \in 1 .. MaxLen :
       /\ row # ui.first /\ row = Scrolled(row, Counted)
       /\ Frame(row, ui.inputs + 1)
  /\ inbox' = << >>
  /\ UNCHANGED <<kind, table, channel, commands, core>>

(* The search is dropped while the frame is drawn, and the table cleared at  *)
(* its end.  When the queue is full the command is lost, with a notification *)
(* that draws another frame. *)
DropsSearch ==
  /\ kind = "search"
  /\ ui.at = "idle" /\ ui.inputs < MaxInputs
  /\ LET left == Smaller(Counted, core.marks)
         fits == Len(commands) < Capacity
     IN  /\ ui' = [ui EXCEPT !.at = "prepares", !.awake = ~fits, !.count = left,
                   !.first = Followed(left), !.dropped = TRUE,
                   !.sent = IF fits THEN @ + 1 ELSE @, !.inputs = @ + 1]
         /\ commands' = IF fits THEN Append(commands, Drop) ELSE commands
  /\ inbox' = << >>
  /\ UNCHANGED <<kind, table, channel, core>>

-------------------------------------------------------------------------------
(* prepare                                                                  *)

Released(c) == [channel EXCEPT ![c] = Unused]

(* Nothing to show; the search table gives up what it waits for. *)
HasNoRows ==
  /\ ui.at = "prepares" /\ ui.count = 0
  /\ ui' = [ui EXCEPT !.at = "draws"]
  /\ IF kind = "search" /\ table.pending # NoChannel
     THEN channel' = Released(table.pending)
     ELSE UNCHANGED channel
  /\ table' = IF kind = "search"
              THEN [table EXCEPT !.last = {}, !.pending = NoChannel] ELSE table
  /\ UNCHANGED <<kind, commands, inbox, core>>

AskedForVisible == table.last = Visible

(* The rows were asked for: an answer that is out is waited for again. *)
WaitsAgain ==
  /\ ui.at = "prepares" /\ ui.count > 0 /\ AskedForVisible
  /\ IF table.pending = NoChannel
     THEN ui' = [ui EXCEPT !.at = "draws"] /\ UNCHANGED table
     ELSE /\ ui' = [ui EXCEPT !.at = "waits", !.waits = table.pending]
          /\ table' = [table EXCEPT !.pending = NoChannel]
  /\ UNCHANGED <<kind, channel, commands, inbox, core>>

Free == {c \in Channels : ~IsHeard(c) /\ ~Contains(commands, c)}

(* Other rows are asked for; a receiver that is pending is kept, and is late *)
(* from then on. *)
PendingLate ==
  [c \in Channels |->
     IF c = table.pending THEN [channel[c] EXCEPT !.late = TRUE] ELSE channel[c]]

Asks ==
  /\ ui.at = "prepares" /\ ui.count > 0 /\ ~AskedForVisible
  /\ Len(commands) < Capacity
  /\ LET c == Min(Free)
     IN  /\ commands' = Append(commands, c)
         /\ ui' = [ui EXCEPT !.at = "waits", !.waits = c]
         /\ channel' = [PendingLate EXCEPT ![c] = [Unused EXCEPT !.rows = Visible]]
  /\ table' = [table EXCEPT !.last = Visible]
  /\ UNCHANGED <<kind, inbox, core>>

(* send_command_with_retry finds the queue full until its attempts run out. *)
AskFails ==
  /\ ui.at = "prepares" /\ ui.count > 0 /\ ~AskedForVisible
  /\ Len(commands) = Capacity
  /\ ui' = [ui EXCEPT !.at = "draws", !.awake = TRUE]
  /\ table' = [table EXCEPT !.last = Visible]
  /\ channel' = PendingLate
  /\ UNCHANGED <<kind, commands, inbox, core>>

(* LogsMapped::append replaces what there is.  The main table goes by the    *)
(* position of an element, the search table counts from the first visible    *)
(* row. *)
Mapped(lines) ==
  IF kind = "main"
  THEN [row \in {lines[i].row : i \in DOMAIN lines} |->
          lines[CHOOSE i \in DOMAIN lines : lines[i].row = row]]
  ELSE [row \in {n \in Visible : n - Min(Visible) < Len(lines)} |->
          lines[row - Min(Visible) + 1]]

Receives ==
  /\ ui.at = "waits"
  /\ LET got == channel[ui.waits]
     IN  /\ got.is # "none"
         /\ table' = IF got.is = "refused" THEN table
              ELSE [table EXCEPT !.logs = Mapped(got.lines), !.late = got.late]
         /\ ui' = [ui EXCEPT !.at = "draws", !.waits = NoChannel,
                             !.awake = @ \/ got.is = "refused"]
  /\ channel' = Released(ui.waits)
  /\ UNCHANGED <<kind, commands, inbox, core>>

(* recv_timeout: the receiver takes the place of one that was pending. *)
TimesOut ==
  /\ ui.at = "waits" /\ channel[ui.waits].is = "none"
  /\ table' = [table EXCEPT !.pending = ui.waits]
  /\ channel' = IF table.pending = NoChannel THEN channel
                ELSE Released(table.pending)
  /\ ui' = [ui EXCEPT !.at = "draws", !.waits = NoChannel, !.awake = TRUE]
  /\ UNCHANGED <<kind, commands, inbox, core>>

-------------------------------------------------------------------------------
(* The cells                                                                *)

IsLoading == \E row \in Visible : row \notin DOMAIN table.logs

(* Slip: rows that are missing are not asked for again. *)
AfterCellsOnly == table

(* render_log_cell: rows that are missing are asked for in the next frame.   *)
AfterCells ==
  IF IsLoading /\ table.pending = NoChannel THEN [table EXCEPT !.last = {}]
  ELSE table

(* Slip: the receiver survives. *)
ClearedButPending == [NoRows EXCEPT !.pending = table.pending]

(* SearchTable::clear *)
Cleared == NoRows

(* handle_signals, at the end of a frame *)
Draws ==
  /\ ui.at = "draws"
  /\ ui' = [ui EXCEPT !.at = "idle", !.dropped = FALSE,
                      !.cleared = IF ui.dropped THEN ui.sent ELSE @]
  /\ table' = IF ui.dropped THEN Cleared ELSE AfterCells
  /\ channel' = IF table'.pending = table.pending THEN channel
                ELSE Released(table.pending)
  /\ UNCHANGED <<kind, commands, inbox, core>>

View ==
  \/ FrameStarts \/ HasNoRows \/ WaitsAgain \/ Asks \/ AskFails
  \/ Receives \/ TimesOut \/ Draws

TablesNext == View \/ Scrolls \/ DropsSearch \/ Service \/ Grows

(* The event loop draws a frame that was asked for, and the service takes    *)
(* its commands. *)
TablesSpec == TablesInit /\ [][TablesNext]_tableVars /\ WF_tableVars(View) /\ WF_tableVars(Service)

-------------------------------------------------------------------------------
(* A row is shown as the row it was read for ("their matching index (row     *)
(* number or log position) as the keys", logs_mapped.rs), whenever answers    *)
(* come in time or late while the user scrolls on; and once a search was      *)
(* dropped and its table cleared nothing is shown that was read before, not   *)
(* by the answer to an earlier frame and not by one that was under way.  The  *)
(* exception are rows of the search table whose answer was taken after other  *)
(* rows had been asked for. *)
RowsAreCurrent ==
  \A row \in DOMAIN table.logs :
    /\ ~(kind = "search" /\ table.late) => table.logs[row].row = row
    /\ kind = "search" => table.logs[row].drops >= ui.cleared

(* When the user leaves it alone the table comes to rest with all visible    *)
(* rows loaded, whatever was late, refused or not sent before, and although  *)
(* frames are only drawn when somebody asks for one; unless the last answer  *)
(* was overtaken. *)
RowsLoad ==
  <>[](ui.at = "idle" /\ ~ui.awake /\ (IsLoading => table.late))
===============================================================================
