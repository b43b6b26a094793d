# A verification development for chipmunk

chipmunk is a log viewer. A desktop application and a command line tool sit on
a core (`src/crates/core`) that reads files and streams, parses messages, keeps
their text in a session file, searches it while it grows, and hands events to
whoever shows them. This directory holds TLA+ modules for the parts of the core
and of the application where order matters, configurations that check them with
TLC, and proofs that TLAPS checks for every value of the constants.

Paths are relative to `src/crates/core`, those that begin with `app/` or `cli/`
to `src/crates`, and those that begin with `src/` to the repository.
`PROJECT.json` maps every definition to the lines it stands for.

1. [The system](#1-the-system)
2. [The modules](#2-the-modules)
3. [The runs](#3-the-runs)
4. [The proofs](#4-the-proofs)
5. [Where code and words differ](#5-where-code-and-words-differ)
6. [Not modelled](#6-not-modelled)
7. [Plan](#7-plan)

## 1. The system

### 1.1 Components

A *session* is one tokio task that joins three loops and a watchdog. The loops
talk over channels only: every request carries a oneshot channel for its
answer, so a request whose sender goes away is an error at the one who answers.
The *application* is one thread that draws frames and handles messages between
them, and one service task for the host and for each session.

| component | state it keeps | operations | correct when |
|---|---|---|---|
| operations loop, `session/src/operations.rs` | queue of `Operation`s; per operation a cancellation token and a done token | register with the tracker, spawn the handler, emit `started`, finish | each accepted operation runs once and reports one final event |
| tracker, `session/src/tracker.rs` | map id -> tokens | add, remove, cancel, cancel all, shutdown | a running operation can be found and cancelled by its id; an answered cancellation is final |
| session, `session/src/session.rs` | `destroying`, `destroyed`, handle of the task | submit, abort, stop, drop; watchdog of 2 s | stop returns, and only after the loops ended or were forced to |
| state loop, `session/src/state/mod.rs`, `api.rs` | session file, search map, index, attachments, values, statistics | some forty requests, one at a time; responses of the searchers | each view (rows, matches, index) agrees with the others once nothing is under way |
| searchers, `session/src/state/searchers.rs` | for each kind a slot: not inited, available, in use | search an update, lend, take back, drop | a holder has one owner; no row is searched twice or left out |
| search handlers, `handlers/search.rs`, `search_values.rs` | the holder they borrowed | drop the old search with retries, borrow, search in the background, tick, give back, show | every search ends, with its holder back |
| base searcher, `processor/src/search/searchers` | filters, rows and bytes read | search a part of the session file | reports each row that matches once, under its number |
| search map, `processor/src/map.rs` | matches, statistics | set, append, reset, scaled views | |
| index, `session/src/state/indexes` | hash map row -> natures; vector of rows, sorted lazily | bookmarks, search results, frames, neighbours, ranges | both halves agree; rows come in file order |
| observe handlers, `handlers/observing` | collected rows and attachments, time of the last flush | loop over the producer, write, flush, wake up when the file grows | the rows of the session are the messages of the source, in order, and are shown eventually |
| tail, `session/src/tail/mod.rs` | last known length | poll once a second, send an update | growth is noticed |
| producer, `processor/src/producer` | bytes skipped, done | load, parse, drop a byte and try again | no message is skipped for bytes that are none |
| buffered reader, `src/crates/bufread`, `sources/src/binary/raw.rs` | a buffer with a start and an end, a file | make room, fill, consume | the window is the part of the file behind what was consumed |
| session file, `state/session_file.rs`, `processor/src/text_source.rs`, `grabber` | slots of bytes and lines, a buffered writer | write, flush, update from file, grab | a range of rows gives the lines with those numbers |
| source ids, `state/source_ids.rs` | ranges of rows per source, the recent writer | add a range, look up | a row is credited to the source that wrote it |
| streams, `sources/src/socket`, `serial`, `command`, `handlers/observing/stream.rs`, `cli/src/session/socket.rs` | a buffer, a reconnecting task and its handle, two pipes of a process | load, reconnect, send | no byte twice, none lost when a call is dropped, no task left behind |
| parsers, `parsers/src` | per format; attachments being collected | parse | each call consumes something or says what it needs |
| filters of the application, `app/src/host/ui/registry/filters.rs`, `app/src/session/ui` | definitions with their users; rows, a temporary search, what the backend was asked for | add, edit, toggle, move, convert, remove, presets, restore | users are known, nobody loses a definition, the backend is asked for what is shown |
| view of a search, `app/src/session/ui/shared/searching`, `app/src/session/service` | matches, counts, the running operation, a nested search and its anchor | apply, drop, hear callbacks, go to the next hit | the view shows what the core has once all is heard |
| tables of rows, `app/src/session/ui/logs_table`, `bottom_panel/search/search_table.rs`, `common/logs_mapped.rs` | the visible rows asked for last, a receiver that waits, the rows there are | prepare a frame, ask, wait, draw, clear | a row is shown as what it was read as; what is visible is loaded in the end |
| storage of the application, `app/src/host/ui/storage`, `app/src/host/service/storage` | favourites, recent sessions, settings; what is dirty; a pending save | load, import, change, save, wait at the exit | no change is forgotten, no file overwritten before it was read |
| export, `processor/src/export`, `handlers/export_raw.rs`, `app/src/session/service/export.rs`, `app/src/session/ui/shared/export` | sections, the current row; the dialog, the pending operation, a temporary file | export sections over several files, to a file or into a new tab | the exported rows are those selected; a temporary file has one owner; the tab is not blocked for ever |
| plugins host, `plugins_host/src` | installed and invalid plugins, a cache, a counter of errors | add, remove, reload | |
| values, `state/values` | series per filter | append, reduce to candles | |
| merging, command line, tools | | sequential passes over files | |

### 1.2 How they interact

```
 user --> view, filters (application) --commands--> service --Operation--> session
      <--                             <--messages--         <--callbacks--

 Operation --> operations loop --Add/Remove/CancelAll/Shutdown--> tracker
                  |   spawns                                        |
                  v                                     cancels, awaits done
               handler task  <--------------------------------------+
                  |  Api + oneshot
                  v
              state loop  --SearchRequest (32 slots)-->  searchers
                          <--SearchResponse (32 slots)--
```

An observing handler of a file also joins `tail::track`, which wakes it at the
end of the file through a channel of one slot; one of a stream also hears
requests to the source. The registry of filters is shared by all sessions of
the application. Storage is read at the start by the host's service, changed
by the user interface, and written by blocking tasks.

### 1.3 What is hard

* **Interleavings.** An operation finishes while it is cancelled; two
  operations use one id; several callers stop a session; an update of the file
  is searched while a search is set up, cancelled or replaced; an answer
  overtakes news.
* **Dropped calls.** Most futures sit in a `select!`. What is dropped there
  takes its oneshot receiver along, and whoever answers gets an error, which
  several loops treat as fatal; a dropped `produce_next` must not lose bytes.
* **Two views of one thing**, updated by separate messages or under lazy flags:
  search map and index, hash map and keys, rows and attachments, slots and
  ranges of sources, rows of filters and the users of a definition, the core's
  matches and the view's.
* **Bounded channels** in both directions between the state loop and the
  searchers, from the tracker of a file to its loop, to the host's service.
* **Boundaries**: incomplete messages, bytes that are no message, a full
  buffer, a file that grows, slots that end at any line, inclusive and
  exclusive ends.
* **Timeouts** that race a late answer: 2 s of the watchdog against 3 s for
  each operation in the tracker, 500 ms flushes, 250 ms ticks, 1 s polling,
  the wait for a save at the exit.
* **Crashes** between creating a file and writing it, and between an import
  and its marker.

`PROJECT.json` lists these at their lines under "hazards", with the properties
that watch each of them.

## 2. The modules

```
SessionLifecycle  <- MCSessionLifecycle, SessionLifecycleProofs
HolderHandover    <- (implemented by) SearchProtocol <- MCSearchProtocol, SearchProtocolProofs
IndexedRows       <- (implemented by) IndexedMap     <- MCIndexedMap, IndexAndViewProofs
BufferedFile <- MessageProducer <- ObserveFile       <- MCObserveFile, ObserveFileProofs
                                <- StreamSource <- ObserveStream <- MCStreams, ObserveStreamProofs
SessionFile                     <- MCSessionFile, SessionFileProofs
SearchView                      <- MCSearchView, IndexAndViewProofs
FilterRegistry <- SessionFilters <- MCSessionFilters, ApplicationProofs
LogTables                       <- MCLogTables, ApplicationProofs
HostStorage                     <- MCHostStorage, ApplicationProofs
RawExport <- SessionExport      <- MCSessionExport, SessionExportProofs
```

A module extends those it builds on; an abstract specification is instantiated
by the one that implements it. `ObserveStreamProofs` also instantiates
`ObserveFileProofs`, for the lemmas about the buffer, the parser and the order
of messages. Components whose proofs share a module have names of their own for
`Init`, `Next` and `Spec` (`ViewSpec`, `StorageSpec`, `TablesSpec`). `MC...` modules only give constants their values. Definitions whose comments call them a slip stand next to the
definition they vary: a property is worth keeping when such a slip breaks it.

### 2.1 SessionLifecycle: operations, tracker, stop

Requests, their ids, kinds and targets are constants, so ids may be shared.
`task[r]` is where the request is, from the queue to its last step;
`rxOps`, `rxTracker` are the unbounded channels; `reply[r]` is the oneshot
response `r` waits for. One action is what a task does between two awaits:

* `OperationAPI::execute` is `OpsRecv`, `OpsSpawn`, `OpsReject`, with the
  request of the session file that may reject an Extract *after* it was added;
* `OperationAPI::finish` is `FinishChecks` (is it cancelled?), `FinishLeaves`
  and `FinishRemoved` (RemoveOperation and its answer), `FinishEmits` and
  `FinishConfirms` (the done token);
* `tracker::run` is one action per command; `CancelOperation` takes the entry,
  cancels and then waits (`TrackerCancels`, `TrackerConfirms`), `CancelAll`
  visits the entries one by one, and may give up on each;
* `Session::stop` and `Drop` are separate steps for the flag, the End message
  and the wait; `Watchdog` aborts the session task and `TaskAborted` is what
  that leaves behind: handlers that were spawned go on.

`HandlerReturns` stands for every handler. A handler may return at any time; it
is only obliged to once its token is cancelled.

### 2.2 SearchProtocol: searches and updates

Requests are searches and drops, sent in the order `Script`; what they ask for,
of which kind of searcher, and whether reading the file may fail, is one of the
`Plans`, chosen at the start and kept in `plan`. A drop may abort the search it names, as the application's service does
(`src/crates/app/src/session/service/mod.rs`, external to the core's contract).
The state loop serves one message of `api` at a time. Some messages need the
searchers: it puts the request into the bounded `requests`, and for some waits
for the answer. Responses come back through `responses`, in `select!` with
`api`. A holder is `[by, upTo]`: whose filters it has and how many rows it has
read; every row matches, so that losing or repeating one is seen.

`Produces` is an observing operation that writes rows and triggers an update.
`ResultTaken`, `Ticks`, `CancelSeen` are the three ways out of the `select!` in
`execute_search`; `Orphan` and `ClearUnheard` are what happens at the other end
of a channel whose receiver was dropped. Retries are `Attempts`.

`HolderHandover` is the contract of a slot: somebody borrows, only the borrower
returns, a holder at home moves forward or is reset.

### 2.3 IndexedMap: the rows that are shown

`map` is the hash map `indexes`, the vector `keys` and its `sorted` flag;
`told` the length last announced. `import` from the hash map gives the keys in
any order (`Orders`). Each question (`Frame`, `NearestIndexedRow`,
`IndexedNeighbor`, ...) sorts first or does not, as the code does, and its
answer is `reply`. Removal cuts the keys by ranges up to two limits and
rebuilds them beyond; the limits are constants. `IndexedRows` is the table of
found and marked rows that the index implements.

### 2.4 BufferedFile, MessageProducer, ObserveFile: a file that grows

*BufferedFile* is `DeqBuffer`, `BufReader::fill_buf` and `BinaryByteSource`. A
slot of the buffer holds the offset of the file byte that was read into it, so
that a byte moved wrongly is seen; `consumed` is a history of what was taken.
Any read may fail (`ReadMayFail`). `fill_buf` swallows the error, so the load
succeeds with no new bytes, as at the end of the file; `readFailed` is the
history that tells the two apart, and `starved` in MessageProducer is the
history of the messages that lost a byte to such a read.

*MessageProducer* is `produce_next`. The file is described by its messages
`[at, len, kind]`; other bytes are no message. For the bytes it is given the
parser either yields the messages that begin there and are complete, or one of
the errors in `Errors`: `Incomplete` asks for more, `Parse` for dropping a
byte, `Eof` and `Unrecoverable` end it. `ErrorLimit` is the number of bytes that
may be skipped for parse errors before the first message; one more is fatal.
The totals of skipped and loaded bytes only reach the log.

*ObserveFile* is `run_source` and `run_producer` with the `LogsWriter` and the
tracker of the length. `session` is what was written (`rows`), what was flushed
and announced (`shown`) and the attachments. The environment lets the file
grow, lets the length be unreadable, aborts the operation, closes the session
or ends the state loop, each at any step.

A file never makes `load` wait, so the 500 ms timeout around `produce_next` and
the requests to the source cannot fire here; they are in ObserveStream. This operation is the
only one that writes, so a request and its answer are one step.

### 2.5 StreamSource, ObserveStream: a load that waits

*StreamSource* is the `load` of TCP, TCP with a reconnecter, UDP, a serial port
and a process. Its bytes come in chunks the peers chose; one chunk is what one
read returns. A step that waits is one action, and `CallIsDropped` drops the
call of `produce_next` there, with everything that lives in its future: what a
load keeps in its source survives, what it holds itself does not. `handle` is
`TcpReconnecter::task_handle`, `task` the reconnecting task with its attempts,
`watch` the channel it reports on. The two pipes of a process are two queues
read in any order; the end of the standard output ends the source. A read that
fails ends the loop with an error (`ReadFails`), at any load of any transport.

*ObserveStream* is both loops over such a source. `client = "session"` is
`run_producer` with its timeout, its requests to the source (SDE), its token
and the check whether the session closes; `client = "tool"` is `run_session` of
the command line tool with its two tickers and the news of the reconnecting
task. The branch a `select!` takes among those that are ready is a choice.

### 2.6 SessionFile: rows, sources, searches

A file is a sequence of bytes that end a line, match the filters, or neither,
each with the source that wrote it. Writes go through the buffered writer; a
switch of the source flushes what the other one wrote and credits the rows that
this adds (`SourceIDs::source_update`, `add_range`). `Updates` is
`update_session` and `TextFileSource::from_file`: the new part is cut into slots
that may end at any line (the chunks of the reader), and its rows are the next
ones; it may fail, which leaves no metadata (`ReadFails` is that of taking the
length, opening or seeking; a read that fails later is swallowed by `fill_buf`
like those of 2.4, and is not a step here). A linked file is the same without
the writer, and grows by itself. A search asks for the rows and bytes there
are, and the holder searches from where it stopped to there, and gives its
matches their numbers. `Grabbed` is the range of rows a client gets, by the
arithmetic of `SessionFile::grab` and the grabber.

### 2.7 FilterRegistry, SessionFilters: shared definitions

The registry is a record and its operations are operators, as handlers combine
several of them in a step: `Created`/`Same` for `add_filter` (an equal definition
is used again), `Applied`, `Unapplied`, `Removed`, `Edited`. A session keeps rows
`[id, enabled]` for filters and for search values, the temporary search, what
the backend was last asked for, and what a restored session still waits for.
Every handler of the side panel, the library, the search bar, presets, the
restore and the closing of a tab is one action.

### 2.8 SearchView: what is shown, and nested matches

The view sends commands (`commands`), the core's callbacks and the service's
answers wait in `inbox`. A callback says what changed, so it has to fit the
state it meets: matches are appended, counts replaced, "stopped" belongs to an
operation. `missed` is a history: a search was left without a drop although it
still ran. The searches of the core are those of `SearchProtocol` with fewer
steps. An answer to a nested search may overtake callbacks that are not yet
forwarded, which is why it is put at any place it could have had. `NestedMatch`
is the order in which `handle_search_nested_match` visits its candidates.

### 2.9 HostStorage: favourites, recent sessions, settings

A domain's contents are a number that every change makes anew; a file is absent,
broken (created and not written) or holds one. The start is a sequence of steps
(import, marker, recent sessions, their normalization, settings), then the user
interface runs, the favourites being read in the background; a save takes a
snapshot and a task writes one file after the other, first creating (which
empties) and then writing it. The process may be killed at every step, `Faults`
says what may fail, and a start after that finds the files as they are.

### 2.10 RawExport, SessionExport: from the menu to the file

*RawExport* is `execute_export` and `export_raw`. A file is the batches the
producer yields, each of rows and of items that are none, and whether the parser
gets to its end. `sections` is what is left of the selection, in rows of the file
that is read; it is moved by `current`, the code's `current_index`, when a file
is left. The loop over sections is three actions: an item is taken, a section
ends and another follows, the last one ends. `passed`, `base` and `firsts` are
histories: they number the rows as the session does. An error of the writer ends
the operation as `ParserFails` does and is no step of its own.

*SessionExport* composes it with the tab that asks (`dialog`, `pending`), the
service of the session (`tracker` is `OperationTracker.search_results_tab`), the
operation in the core and its events. A temporary file is in `temp` from when the
core creates it until somebody removes it; `child` is the session that was
opened to read it. A text export is one step, as it is one turn of the state
loop. Phases `Initializing` and `Processing` change nothing and are left out.

### 2.11 LogTables: the rows of a frame

A frame is drawn when somebody asks for one (`ui.awake`): it begins with the
messages (`FrameStarts`, `Scrolls`, or `DropsSearch`, which drops the search in
the filters' panel), goes through `prepare` of the table (`HasNoRows`,
`WaitsAgain`, `Asks` or `AskFails`), which blocks until the answer or its timeout
(`Receives`, `TimesOut`), and ends with the cells and the signals (`Draws`).
`channel` holds the oneshot channels of the requests; one nobody listens to is
free again. The tables share nothing but the queue of commands, so `kind` is one
of them at a time. What the core has is a number of rows, each of which
remembers how many drops came before it was read: which rows they are is
IndexedMap, and whether a drop succeeds is SearchView. `late`, `cleared` and
`drops` are histories.

## 3. The runs

Deadlock is not checked where the system may stop: sessions end, and searches,
files, streams and the counters that bound a run are finite. `index_map` checks
it.

| run | question | bounds and why they are enough | expected |
|---|---|---|---|
| `lifecycle_cancel` | tracking, cancelling, stopping in every interleaving | two operations with one id, one of them an Extract, an abort, one caller of stop and a drop: the smallest case in which one operation can be taken for another while the session ends; 1.2 million states | pass |
| `lifecycle_ends` | does stop return, are requests served, results delivered | one operation, its abort, stop and drop, with fairness; properties over time cost more, so one operation less | pass |
| `search_reapply` | search, drop, search while the file grows twice, over time | two plans: a search that is applied again, and one for values whose second filters are refused while reading may fail; two rows: one before and one after the holder was lent; two slots per channel, two attempts | pass |
| `index_map` | is the index the table it stands for, are questions answered by it | four rows, so that ranges can split, join and lie at both ends; limits 2 and 1 so that both ways of removal happen | pass |
| `observe_tail` | no message skipped, rows in order, growth shown, cancellation answered | seven bytes: two that are no message, a message with an attachment, a filtered one, a text; a buffer of three, so that it wraps and fills; every error of the parser; a read, a request, the tracker and the state loop may each fail at any step; 582 thousand states | pass |
| `stream_calls` | what a dropped call, a lost connection or a request to the source costs | six bytes in three messages of which one does not fit the buffer; datagrams of up to two bytes, an empty one, one lost connection, two attempts, one request, a read that fails at any load: each transport meets each drop, a second loss would begin where the first one ended | pass |
| `session_file` | rows, sources and matches while writes, flushes, failures and searches mix | two sources (alike), five bytes, so that a row of each and one that comes later fit; lines that match and lines that do not; one request may wait; a failure at any of the first two ranges | pass |
| `filters_shared` | who uses a definition, what the backend was asked for, what is saved | two sessions (alike), two definitions of which one may become a chart, three presets: what one session does to the other's definitions needs no third | pass |
| `view_search` | is a search that is left dropped, does the view catch up, does nested navigation | two searches, the first matching rows 1, 2 and 4 and the second one only row 4, three rows to begin with and one that comes, one tick or bookmark, one nested search to either of two filters: an answer about the old results is wrong in the new ones, and with bookmarks there are up to four rows to navigate, so that the nearest one, the direction and the wrap at the end differ; 4.1 million states | pass |
| `tables_frames` | is a row shown as itself, is everything visible loaded | pages of two of four rows, three frames with an input, a queue of two commands, none or one row left by a drop: two answers under way and a third request meet, the queue fills, and a drop overtakes an answer | pass |
| `storage_saves` | is a change forgotten, a file overwritten, a list imported again | three starts (one that imports, one that crashes, one after it), four values, every failure that shows itself | pass |
| `export_rows` | is what is exported what was selected, who removes the temporary file, does the tab go on | two exports, five rows in one to three files: a file without rows, items that are no rows, batches that end where sections do, files that break off; each of the 31 selections of rows, and one of two sections that touch: a section ends in a batch, at its end, at the end of a file or in a later one | pass |

What the properties say:

* *Lifecycle.* `RunningIsTracked`: an operation nobody cancelled can be found.
  `CancelAnswerIsFinal`: no event comes after the answer to a cancellation.
  `GracefulStopReachesAll`: a shutdown that was not forced has cancelled all.
  `StopMeansStopped`: stop returns after the loops ended. `StopReturnsAlways`;
  `ServedUnlessStuck` holds on condition that the tracker does not wait for
  ever, which it may (section 5).
* *Search.* `HolderHasOneOwner`: two operations never have the holder, none
  loses it, and none that brings it back is refused. `RegularHandover`: the
  slot keeps the contract of `HolderHandover`. `NoRowTwice`: full searches and
  updates read disjoint parts. `IndexFollowsMap`: once nothing is under way the
  index shows the matches, if the commands so far were drops and searches with
  good filters. `CommandsEnd`: every command ends, and the holder it
  was lent is home by then.
* *Index.* `IsTheTable`, and `AnswersAreRight`: each answer is the one the sorted
  table gives. That both halves agree (`MapIsConsistent`) is proved.
* *Observe.* `NoMessageSkipped`: what was passed was parsed, if
  the file grows by whole messages that fit the minimum, but for a message the
  rest of which could not be read (`starved`); `RowsFollowTheFile`:
  in file order, once, and attachments after their row; `GrowthIsShown`: what
  was in the file when it was opened, and what is in it when growth is
  announced, is shown, unless the loop is stopped or a read fails that no later
  growth makes up for (`StopsShort`); `CancelReturns`. That the buffer is a window of the file
  (`WindowIsFile`) is proved.
* *Streams.* `RowsFollowTheStream`: no message that was sent whole is lost or
  repeated by a dropped call, unless it does not fit the buffer (`Fits`: a socket
  needs room for one more datagram, and a line is a message). `EveryTaskIsHeld`: a reconnecting task always has
  a handle that somebody awaits, so `spawn_reconnect` never meets one left
  behind. `SentIsShown`: what was sent is shown by the next timeout or
  tick at the latest, unless the loop was cancelled or an error of the source
  ended it; `LoopReturns`: after a cancellation, an error or the end of the
  stream; `RequestsAnswered`.
* *Session file.* `EntriesAreRows`: whatever slots a range begins and ends in,
  it gives those lines. `SourcesAreRight`: a row is credited to its writer.
  `FoundAreMatches`: a searcher that goes on where it stopped reports each
  match once, under its number. `NothingUnannounced`: the client hears of all
  rows, also after a failed update.
* *Filters.* `UsageIsRows`: the registry's users are those with a row, and no
  row has lost its definition. `AskedIsEffective`: the backend was asked for
  what is shown, in its order. `ChangesAreNoted`: what would be saved is marked
  when it changes, also by another session.
* *View.* `ViewFollowsCore`: a search that was left is over or cancelled once the
  commands are taken (`LeftIsDropped`), and at rest the view has the core's
  matches and counts, and waits for nothing.
  `NestedIsCurrent`: no answer about other results was taken.
  `NestedFindsNearest`: the order of candidates finds the next hit around the
  results.
* *Tables.* `RowsAreCurrent`: a row is shown as what it was read as, and nothing
  from before a drop once the table was cleared. `RowsLoad`: left alone, the
  table comes to rest with all visible rows, although frames are drawn on demand.
* *Storage.* `NothingForgotten`: what differs from its file is dirty, on its
  way, or was reported. `LoadedFirst`: favourites are not written before they
  were read. `ImportsOnce`: the old list is not imported over one in use.
* *Export.* `ExportIsSelection`: a finished export has written the rows that were
  asked for and are in the files, no other, and a valid selection is not refused
  in a later file. `TempFilesHaveOneOwner`: while a temporary file exists either
  the service that waits for it or the session that reads it will remove it.
  `NothingStaysBusy`: a tab that waits for an export stops waiting.

### Fairness

Tokio polls a task again once what it waits for is there, so each task, loop
and the tracker of a file has weak fairness on its own steps, never on the
choice of a branch. A `select!` without `biased` polls its branches in random
order, so a branch that is ready again and again is taken in the end: that is
the strong fairness on the branches of the two loops over a stream, and why the
call of `produce_next` is not dropped for ever while there is something to load.
Not assumed: that a handler returns before it is cancelled, that a client acts,
that rows are written, that a timer fires before an answer, that reading a file
fails or succeeds, that a file grows, that a peer sends or closes. Weak fairness
on the watchdog, and on the timeout of a stream, is the timer. The one
assumption about somebody else is that a peer takes what it is sent
(`AnswersRequest`). In SessionExport the service, the operation in the core and
the frames of an open tab go on (`FairSpec`). In LogTables the event loop draws a
frame that was asked for and the service takes its commands; no frame is assumed
that nobody asked for. `Fairness` in each module says this action by action.

### Limits of what the runs show

Channels that are unbounded in the code are unbounded in the models; they are
finite because requests are. With room for one message in the channels between
the state loop and the searchers TLC finds them waiting for each other;
`CommandsEnd` holds in the run because there is room. `IndexFollowsMap` is
stated while no search was refused for its filters: such a one can keep another
one's drop from clearing the index, which then differs from the map (section 5). Three runs leave out a case that section 5 tells of, by a constant that
can be changed to see it: `EditsMayMeet = FALSE` (`filters_shared`), whole lines
in `WholeLines` (`session_file`), and no silent failure in `MCFaults`
(`storage_saves`). `ExportIsSelection` and `HolderHasOneOwner` exempt a case of
section 5 in their text (`TakenForEmpty`, a failed state loop), and so do
`RowsAreCurrent` and `RowsLoad` (`late`), `ViewFollowsCore` and `NestedIsCurrent` (`missed`: `LeftIsDropped` needs
it from two searches on, what is shown at rest from three). That
exemption ends with the next search that is applied, or dropped, when none is
under way and no command waits. An export in a
session that is stopped by force is left out, and one whose core ends by itself,
which leaves the tab blocked.

## 4. The proofs

| module | theorems | assumptions |
|---|---|---|
| `SessionLifecycleProofs` | `Invariance`, `TypeCorrect`, `TrackingCorrect`, `CancelCorrect`, `GracefulCorrect`, `StopCorrect`, `AnnouncedCorrect` | `ConstantsAssumption`: ids, kinds and targets are functions |
| `SearchProtocolProofs` | `Invariant`, `HolderOwned`, `Handover`, `RowsOnce`, `IndexFollows` | those of `SearchProtocol`: a finite set of commands, plans and a script of them; rows, attempts and slots are numbers |
| `IndexAndViewProofs` | `Invariance`, `Consistency`, `TypeCorrect`, `Implementation`, `AnswersHold` | rows are a finite set of numbers, limits are numbers |
| | `LeftIsDroppedHolds`, `ViewFollowsCoreHolds`, `NestedIsCurrentHolds`, `NestedFindsNearestHolds` | `ViewAssumption`: numbers of searches, rows (those there are at first among them), retries and requests; each search matches some rows, each nested filter some |
| `ObserveFileProofs` | `WindowCorrect`; `RowsFollow`; `NoMessageIsSkipped` | sizes are numbers and the minimum fits the capacity, messages do not overlap; for the last, `WellBehaved`: whole writes, no message longer than the minimum |
| `ObserveStreamProofs` | `TaskHeld`; `RowsFollow` | the same of buffer and messages, `ChunksFit`; for the second, `LinesFit`: a source of lines sends no more than its buffer takes |
| `SessionFileProofs` | `EntriesAreServed`, `RowsAreCredited`, `MatchesAreFound`, `RowsAreAnnounced` | `WholeTexts`: what is written at once is not empty and ends a line, as what `ObserveFile` and `ObserveStream` write to the session file |
| `ApplicationProofs` | `UsageIsRowsHolds`, `AskedIsEffectiveHolds`, `ChangesAreNotedHolds` | `FiltersAssumption`, and `EditsMayMeet = FALSE`: no edit gives two rows of a session one definition |
| | `SavedCorrect`, `OneWriterCorrect`, `LoadedCorrect`, `ImportCorrect` | `StorageAssumption`, and `NothingIsSilent`: no failure that hides |
| | `TablesAreCurrent` | `TablesAssumption`: a page, a queue and a log of any size |
| `SessionExportProofs` | `SelectionCorrect`, `TempFilesCorrect` | `RawExportAssumption`: files are sequences of batches of rows, a selection is one `sections_valid` takes; `SessionExportAssumption` |

**Lifecycle, for any number of requests, ids and callers.** `RunningIsTracked`
alone is not inductive: a removal behind another operation's add could take the
wrong entry. The invariant `IInv` of `SessionLifecycle` adds what the channels
hold: whoever has a command in the tracker's queue still waits for its answer
(`QueueIsSound`), so a removal is only in flight for an operation that is still
registered; an operation that was cancelled and has not confirmed its end
keeps the tracker from adding anything (`CanceledIsPending`); events are those
of the task's step (`EventsFollowTask`); and how far a shutdown has come
(`ShutdownOrder`). Each action is a lemma, with one step per conjunct it
disturbs.

**Search, for any number of commands and any channels.** That a holder has one
owner (`HolderOwned`) depends on every answer reaching who waits for it. The
messages on their way to the searchers form one line, through the state loop's
queue, what it is about to send and the bounded channel; each has its sender,
who waits for just that answer, and nobody has two (`LineInv`). What the state
loop waits for is the one such message that has left the line, or its answer
(`ServiceInv`). So an answer is lost only to the end of the state loop
(`ReplyInv`), and the holder is away exactly while one command has it
(`OwnerInv`). `Handover` maps every step to one of `HolderHandover` or a
stutter.

That no row is reported twice (`RowsOnce`) compares what was found with where
the holder is, be it at home, in an answer, with a command or on its way back
(`Located`): it has passed every match of its search that is shown or waits to
be, and whatever an update finds lies beyond what the full search reported
(`PositionInv`). A tick that clears the map, or a late response, can only take
matches away or add new ones. For `IndexFollows` the map and the index may
differ as long as there is a command that will set or clear both (`SyncInv`):
one that has the holder, or gave it back and was not refused yet
(`Restores`). A search refused for its filters is not one, which is how the
exception in section 5 was found.

**Index, for any set of rows and any limits.** The invariant is that keys are
an enumeration of the shown rows, sorted when the flag says so, every shown row
has a nature, and the announced length is their number. The lemmas say what
inserting, removing one nature and cleaning do to such a map. `Implementation`
maps every step to a step of `IndexedRows` or a stutter. `AnswersHold` needs that
sorted keys split at a row: the places of the smaller ones are an initial
segment, as long as there are smaller rows in the table (`SplitAt`). So the place
a binary search stops at, its neighbours and the ends of a frame are the
nearest, the next, the one before and the n-th row of the table.

**Buffer and producer, for any capacity, minimum, file and short reads.**
`WindowInv` is the type of the file's state, `WindowIsFile`, that no more was
read than is there, and that a byte is only dropped when there is one; all of it
holds however many reads fail.
`NoMessageIsSkipped` adds `ResyncInv`: the file ends with a whole message; when
more is asked for, what is in the buffer holds no complete message at its
front; and no byte is dropped where a message begins, unless the read of its
rest failed. The step that needs
`WellBehaved` is the one that drops a byte after nothing was loaded: below the
minimum there is always room, so nothing to load means the end of the file or a
failed read.
`RowsFollow` needs no such assumption: the items of the current call lie behind
all that was parsed, and collecting and writing them moves them from one
sequence to the next. "In the order of the file" is by the number of parsed
messages that begin before a message; adding messages behind all others leaves
these ranks alone, so no induction is needed.

**Streams, for any transport, stream and dropped call.** `TaskHeld` is inductive
with the type of the task. For `RowsFollow`, what waits on the pipes adds up to
what was sent and not read (`UnreadInv`): for sockets by the partial sums of
the chunks, for lines because all have one length. So what is read next is the
next part of the stream, whatever future was dropped, and the buffer is again
a window (`WindowInv`). `ResyncInv` says what became of each message that was
passed: it was parsed, or it did not fit, or a datagram of no bytes was there,
or its peer had closed before it was whole. `LinesFit` is needed because the
sources of lines make no room in their buffer (section 5); without it bytes are
cut off, which no order of calls prevents. The lemmas about filling, consuming
and parsing are those of `ObserveFileProofs`.

**Session file, for any sources, flushes and failed updates of whole lines.** A row
is named by the number of newlines before the one that ends it, and everything is
said with that count, which stays when the file grows. The slots that were read
are whole lines, know the number of their first row, and cover the file up to
the next byte (`SlotsInv`), however it was cut; so the position a range of rows is
taken from, in the slots it meets, is that of its first row (`GrabIs`). The first
of the credited ranges that contains a row names its writer, and rows behind all
of them are of the one source whose bytes may still wait (`SourcesInv`): an update
that fails forgets the slots but not the ranges, and the ranges that are added
when it is repeated are found behind the right ones. A searcher leaves out the
newline of the last line it was told of and takes up behind it, so it always
stands at the beginning of the row it counts next, and has found what matches
before (`HasFound`). As a text of whole lines always adds rows, the number of rows
tells whether there is something to announce (`AnnounceInv`). A line that is not
ended is counted differently by the slots and the searcher, as section 5 tells
of a linked file; the proofs say nothing of such lines.

**Storage, for any number of starts and changes.** `NothingForgotten` needs to
know who writes: `SavedInv` adds that there is one task at most, that it is the
awaited one unless a wait was given up, which left everything dirty
(`TaskIsSound`), that what it is going to write is what the user interface holds
or will be saved again, and that what was read of the favourites is still in
their file (`LoaderInv`). A task that fails keeps its domains on their way until
its result is taken, which makes everything dirty; one that ends has written
all. `LoadedCorrect` follows because no task has the favourites to write before
they are loaded. `ImportInv` says where the imported list can be found at all,
and that the marker is set before such a list is loaded. `NothingIsSilent`
excludes the failures of section 5 that the code does not see.

**Export, for any files, batches, selections and number of exports.**
`SelectionCorrect` rests on what is left of the sections after every file:
moved to the left they cover exactly the rows from `base` on that were asked
for, and they end where those end, except for a first row that counts as empty
(`SectionsFit`). Within a file, sections behind the current row have ended and
those ahead begin later, but for the one the row before was in (`SelectInv`).
The count of rows may fall short only once all sections have ended
(`RestInv`): that is why a file that is not read to its end does no harm. What
is written follows from these (`WrittenSoFar`). `TempFilesCorrect` needs that
there is one export at a time and that its command, its operation or its event
is the one the tab waits for, unless it was closed (`FlightInv`, `DialogInv`);
so a file that exists is the one the tracker has, or one whose session is open
(`OwnerInv`).

**Shared filters, for any number of sessions, texts and definitions.** A session
*fits* the registry (`Fits`) when its rows name different definitions, the
registry lists it as a user of exactly those, and what the backend was asked for
is what its rows say. One session's handler changes the registry under all
others, so each operation of the registry has a lemma about the session that
calls it and one about the others: what others use stays as it is (`Others`).
A handler is a sequence of such operations; it leads a pair of registry and
session that fits to one that fits (`Leads`), also a preset or a restore, which
applies row after row. What is searched and what would be saved depend only on
the rows and the definitions they name, so the handlers that leave both alone
need not note a change, and an edit of a shared definition is noted by all who
have a row for it. `EditsMayMeet = FALSE` is needed where an edit gives a row the
text of another row of the same session (section 5).

**Tables, for any page, queue and log.** What an answer holds was read when its
command was served, and its table may have been cleared since. The invariant
`TablesInv` says that an answer which is not marked as late is for the rows that
were asked for last, which are the visible ones while the frame waits
(`AnswerIsSound`, `FrameInv`), and that each command in the queue has a stamp, the
number of drops that are served before its turn; one that is still listened for
is behind all drops the table was cleared for (`QueueInv`). There is always a
channel that nobody uses, as the queue and the table hold fewer than there are.

**The view of a search, for any number of searches, rows and nested searches.**
At rest nothing is on its way; before, the view is behind, so `SyncInv` speaks of
what it will show when it has heard the box to its end: matches that are cleared
and found there lead from what is shown to the map (`Tracks`), and the last
count told is the map's, or that of the view if none is (`CountTracks`,
`IndexedTracks`), unless a clear or a result of the search is still to come. That
this does not fail when one search clears what another one found needs that
searches take turns: those before the one that has the holder are over or
cancelled, and each that was left has its drop in the queue before its
successor (`OrderInv`, `MapInv`). This is where the proof failed at first: a
search that is left without a drop, the first case of section 5, breaks the
order, hence `missed`; `LeftIsDropped` is what `OrderInv` says of
an empty queue. That a search shown as running will
be heard of is `RunInv`: it has not ended, or its end or its matches are in the
box (`HearsEnd`). The same for nested requests is `PendingInv`. An answer about other
results is harmless because whatever clears the matches has a count of zero
with it (`ClosesInv`), which closes the nested search when it is heard; until
then the anchor is not held against the map (`NestedInv`). `NestedFindsNearest`
says of every list of matches, so of the core's, what the order of candidates
finds.

Every safety property of the passing runs is stated by a theorem, the abstract
contracts `HolderHandover` and `IndexedRows` among them. Only model-checked is
what is over time: `StopReturnsAlways`, `ServedUnlessStuck`, `CommandsEnd`,
`GrowthIsShown`, `CancelReturns`, `SentIsShown`, `LoopReturns`,
`RequestsAnswered`, `RowsLoad` and `NothingStaysBusy` need fairness and
ENABLED, which are out of the prover's reach, as is what a recursive definition
computes. No module that is proved about declares a recursive operator.

## 5. Where code and words differ

"findings" in `PROJECT.json` quotes the lines that promise otherwise for the
first four. The runs pass because a property exempts the case; without the
exemption TLC shows it.

* The view takes any matches it hears of for those of the search it shows
  (`search.rs:220-239`). Matches of an earlier search that come late end the phase
  of the next one while that still runs; when it is replaced or dropped no drop
  is sent for it, against the comment at `shared/mod.rs:254`. It keeps the holder,
  so that its successor asks for it 30 times at 15 ms and fails, or its results
  are shown as those of the successor.
* Cancelling a search while its tick waits for the state loop ends the session:
  the answer cannot be delivered, which is an error of the loop
  (`handlers/search.rs:142`, `state/mod.rs:897`).
* A raw export does not write the first row of a file after the first when its
  section ends there: moved to that file it is the section 0..0, which counts as
  empty (`indexer_base/src/config.rs:30`). The operation ends with success.
* The search table keeps the receiver of an answer that was late when it asks for
  other rows. If the new answer comes first, or the new request finds the queue
  full, the next frame takes the old answer for the rows that are visible now
  (`app/src/session/ui/bottom_panel/search/search_table.rs:533-558`). In the main
  table, which goes by positions, such an answer replaces the rows there are, and
  nothing asks for the frame that would load them again.

Met while modelling, and told here instead of in a run. In the core:

* `tracker.rs:187` and `operations.rs:214`: the tracker waits for an operation
  that waits for the tracker; nothing is served until the session is stopped.
* `handlers/search.rs:161`: rows that arrive between the return of the holder
  and the results of the search are lost to the search; and results that come
  after a drop show a dropped search again.
* `state/indexes/keys.rs:24`: exported ranges are taken from keys that may not
  be sorted, and are then not compact.
* `src/crates/bufread/src/lib.rs:58`: a full buffer counts as the end of the
  file, and a message longer than the minimum is dropped byte by byte.
* `src/crates/bufread/src/lib.rs:63`: a read that fails counts as the end of the
  file. If a message is only half in the buffer its first byte is dropped
  (`processor/src/producer/mod.rs:169-171`); else the loop flushes and waits for
  growth, and what is in the file already is not shown before it grows again.
  `NoMessageSkipped` and `GrowthIsShown` exempt just these two; without the
  exemption TLC shows each.
* `tail/mod.rs:28`: growth before the tracker's first look is not announced, and
  is shown only with the next growth.
* `processor/src/producer/mod.rs:161-179`: a message that is written in two
  parts while the file is tailed loses its first byte at the first part.
* A cancellation or an error of the source ends the loop without a flush, so
  rows of the last half second are written and not shown; after such an error
  the operation still waits for the tracker of the file.
* A rejected Extract leaves its entry in the tracker; so does an observe that
  failed, as `run_source` cancels its own token and `finish` then does not
  remove it (`handlers/observing/mod.rs:74`).
* The watchdog (2 s) fires before `CancelAll` gives up on an operation (3 s);
  a forced end leaves handlers running without a cancelled token, and confirms
  before the loops are dropped (`session.rs:96-97`).
* `sources/src/command/process.rs:137-156`: the end of the standard output of a
  process ends the source, with what the other pipe still holds.
* `sources/src/command/process.rs:162`, `sources/src/serial/serialport.rs:141`:
  these sources write into what is left behind the unread bytes of their buffer
  of 8192 and never move those to its front, so a line that does not fit there is
  cut off, and reported with its full length.
* `handlers/search.rs:142`, `state/mod.rs:862-884`: the tick of a search clears
  the search map and leaves the index, which a result or a drop then brings in
  line. If three searches overlap, the first one shows its results, a second one
  ticks and fails, and a third one, whose filters are refused, borrows the holder
  before the second one's drop: then that drop is refused, the third one only
  puts the holder back, and the index keeps the rows of the first one.
* `parsers/src/dlt/attachment.rs:172-235`: an attachment names its messages by
  their place among those its parser has yielded, and every file of a
  concatenation, like every source, has a parser of its own; the application
  takes these places for rows of the session and jumps to the wrong ones
  (`app/src/session/ui/side_panel/attachments.rs:611`).
* `processor/src/text_source.rs`: an unterminated last line of a linked file
  counts as a row, and what is later added to it as another one; a searcher
  counts lines by their ends, so its numbers then differ from those of the
  rows, and `read_bytes` is the inclusive end, so the last byte that was read
  is not searched until more comes.

In the application:

* `app/src/host/ui/registry/filters.rs:179-181`: an edit can give two rows one
  text under two ids, or one session two rows of one definition.
* `app/src/session/ui/shared/searching/search.rs:69`,
  `shared/mod.rs:257`: results that come late show for a search that was
  dropped.
* The search table compares row numbers of the index only: a row that is inserted
  among or above the visible ones, by a bookmark, leaves what was loaded until it
  is scrolled or cleared (`search_table.rs:520`).
* Presets are compared by ids; commands are sent with `try_send` to a channel
  of 32, and one that is lost leaves the backend behind what is shown; a source
  that fails to rebind its filters drops the restored searches that wait; two
  sessions with one source overwrite each other's recent state; a search whose
  drop retries run out leaves the old results under the new filters.
* An error of a text export is turned into a result that is absent
  (`operations.rs:288-311`), so the client hears of success; the tab of results
  may then open on a file that does not exist.
* A raw export parses the files again and fails where observing shows the rows
  before a broken end; it counts rows file by file while the rows of two sources
  that are observed at once interleave; it refuses ranges that come unsorted
  from the index; it appends to a file that exists; and its `BufWriter` is
  dropped without a flush, so a full disk is not seen.
* The files of storage are written through a `BufWriter` that is dropped
  without a flush: a failed write reports success (`save_to_path`). A list that
  was normalized and could not be saved is not dirty (`recent/mod.rs:131`). A
  file that could not be read is overwritten with the default after any failed
  save made all dirty. What changes while a save is pending is not saved at the
  exit (`app/src/host/ui/storage/mod.rs:89-105`). `prepare_add_scan` drops the
  chosen folders when a scan is under way.

## 6. Not modelled

"components" in `PROJECT.json` gives a reason for each. Decoding of formats,
regular expressions, WASM and the layout of the GUI are data or external.
Merging is not reached from a session. Pcap sources deliver blocks of an
external crate into the buffer that is modelled. A concatenation is one
observe after another without a tail and is not composed. `GetSdeSender`, the
statistics of cancelled operations and the Sleep operation change nothing the
properties tell apart. DLT file transfer, the plugin manager, search values as
series, and the charts and other panels of the application are left to the
plan.

## 7. Plan

| step | modules | about | checks and proofs |
|---|---|---|---|
| 1 done | `SessionLifecycle` | operations, tracker, stop | runs, proved |
| 2 done | `SearchProtocol`, `HolderHandover` | search and updates | run, five theorems, refinement proved |
| 3 done | `IndexedMap`, `IndexedRows` | index | run, answers and refinement proved |
| 4 done | `BufferedFile`, `MessageProducer`, `ObserveFile` | files that grow | run, three theorems |
| 5 done | `StreamSource`, `ObserveStream` | loads that wait and calls that are dropped | run with liveness, two theorems |
| 6 done | `SessionFile` | slots, sources, the range of a search | run, four theorems |
| 7 done | `FilterRegistry`, `SessionFilters` | definitions shared by sessions | run, three theorems |
| 8 done | `SearchView` | what the view shows, nested matches | run, four theorems |
| 9 done | `HostStorage` | what is kept on disk | run, four theorems |
| 10 done | `RawExport`, `SessionExport` | sections over several files, from the dialog to the tab of results | run with liveness, two theorems |
| 11 done | `LogTables` | rows of a frame, late answers | run with liveness, one theorem |
| 12 | `FileTransfer`, `PluginManager` | files in pieces; add, remove, reload | against reference definitions |
| 13 | `OperationContract` | abstract life of an operation, implemented by `SessionLifecycle` | refinement proved |
