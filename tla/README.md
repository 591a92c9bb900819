# A TLA+ model of mcp-language-server

mcp-language-server is a bridge. An LLM client speaks the Model Context Protocol to it over stdin and stdout, and it
speaks the Language Server Protocol to one process per language: it starts these processes, restarts them when they
crash, keeps their view of the open files in step with the disk, collects the diagnostics they publish, and turns all
of this into MCP tools. Most of what can go wrong happens between goroutines: tool handlers, the goroutine that reads
from a server, the goroutines it starts for notifications, the timers of the file watcher, health monitors and the
signal handler work on the same tables and write to the same pipes.

This directory holds TLA+ modules for those parts, the configurations that TLC runs on small instances, and proofs
that TLAPS checks for all instances. `PROJECT.json` lists runs, theorems, the lines each definition translates, a
plausible mutation for each property, the hazards, and the places where the code and its comments disagree.

- [Inventory of the system](#inventory-of-the-system)
- [Modules](#modules)
- [Runs](#runs)
- [Where the code differs from what it says](#where-the-code-differs-from-what-it-says)
- [Fairness](#fairness)
- [Proofs](#proofs)
- [What is not modelled](#what-is-not-modelled)
- [Plan](#plan)

## Inventory of the system

Paths are relative to the root of the repository, `lsp/` stands for `internal/lsp/`.

| Component | State | Operations | Who calls it | What is hard | What makes it correct |
|---|---|---|---|---|---|
| **RestartableClient** (`lsp/restartable.go`) | current client, `restarting` flag, backoff count, context | Start, GetClient, Restart, crash recovery, Close, the methods of Client | router, watcher timers, one health monitor per client | monitors and configuration restarts race for the flag; the server dies at any moment, also while it is being started; Close meets a restart | one restart at a time, one server at a time, no leaked flag, only initialized clients handed out, a crash is recovered from |
| **Connection** (`lsp/transport.go`, `protocol.go`, `methods.go`) | next id, map of waiting calls, pipes, `done` | Call, Notify, handleMessages, WriteMessage, ReadMessage | everything that talks to a server | late and missing answers, cancellation, death, requests of the server, concurrent writes | a call returns once, with its own answer or a true error; the reader never blocks; frames stay whole |
| **Client: open files** (`lsp/client.go:367-572`) | table of open files with version and hash | OpenFile, SyncFileFromDisk, NotifyChange, CloseFile, CloseAllFiles | tool handlers, timers of the watcher | the file is read outside the lock and the server is written to after it; reads and writes fail | the server has what the table vouches for; versions grow; no change before the open |
| **Client: diagnostics** (`lsp/client.go:574-762`) | cache, previous cache, a signal channel per file | HandleDiagnostics, WaitForDiagnostics, SignalDiagnostics, difference | reader's goroutines, tool handlers | publications handled out of order, or computed for an older text; a channel replaced under a waiter | who is woken reads diagnostics of its text; no signal is lost |
| **Watcher** (`internal/watcher/watcher.go`) | registrations, debounce map of timers | event loop, timers, AddRegistrations | fsnotify, registration requests of a server | the disk changes between an event and each look; timers fire while they are replaced | every change is reported, a configuration change restarts the server |
| **Router** (`lsp/router.go`) | table language → RestartableClient | getOrStartClient, ActiveClients, RestartServer, DidChangeWatchedFiles, Close | tool handlers, watcher, cleanup | two lookups start one server; groups of languages; a server is started under the lock | one server per group, none lost, nobody gets a server too early |
| **Process** (`main.go`) | `done` channel, router pointer | start, signal handler, parent monitor, cleanup | operating system, MCP library | two cleanups at a time, cleanup during a start | the process ends, with the servers closed |
| **Life of a client** (`lsp/client.go:80-366`, `server-request-handlers.go`) | pipes, handlers, progress tokens | NewClient, InitializeLSPClient, the handlers of requests and notifications, Close | RestartableClient, reader | the server talks before its handlers are registered; notifications overtake one another; the server hangs, both pipes are full | Close returns and leaves no process; what was lost was lost early; progress ends |
| **Tools that edit** (`internal/tools/edit_file.go`, `rename-symbol.go`, `apply_fix.go`, `format.go`, `internal/utilities/edit.go`) | the files | apply edits of lines, of texts, of a workspace; tell the server | MCP clients, the reader (applyEdit) | the text changes between the answer and the edit; order and overlap of edits, boundaries, several files of which one fails | what is written is what the edits say, and the server is told |
| **Tool diagnostics** (`internal/tools/diagnostics.go`) | none of its own | sync, wait, read, filter, limit, diff, format | MCP clients | the sequence over several files; eight copies of one view; limits at their boundary | see Client: diagnostics; the views agree |
| **Tools that read** (definition, references, hover, symbols, call hierarchy, dependency graph, ...) | none | calls whose answers are formatted; batch_hover and synthetic outgoing calls make five at a time | MCP clients | names with containers, answers that fail in part, pages, recursion over a graph with cycles, concurrent calls | nothing that was found is hidden or shown twice; the right place is asked for |
| **LSP types** (`internal/protocol`) | none | decoding of unions, accessors | everything that reads an answer | the first alternative that decodes wins | an answer is read as it was meant |
| **Languages** (`lsp/languages.go`, `detect-language.go`, `autodetect.go`, flags in `main.go`) | tables | detect, scan, choose a server | start-up, router | ties, fallbacks and groups | a file has the server installed for it |
| **Watch patterns and exclusions** (`internal/watcher`) | none | match, exclude | watcher | special cases for the beginning of a pattern | a file asked for is watched |
| **Generator, logging, tests** | | | | | |

They interact as follows. A **tool handler** asks the *router* for the client of a file, which may start the server
under the router's lock; it fetches the inner *client* from the *RestartableClient* (refused while a restart is under
way), opens or synchronises the file, makes one or more *calls*, and formats what it gets. The **reader** goroutine of a
client hands answers to the waiting calls, answers the server's requests itself, and starts a goroutine for each
notification; the one for `publishDiagnostics` fills the cache and signals. When the reader stops, it closes `done`,
which ends all calls and wakes the **health monitor**, which restarts the server with a backoff. The **watcher** loop
turns events into timers; a timer's goroutine tells the router, hence the clients, that a file has changed (didChange
for an open one, didChangeWatchedFiles for the rest), or restarts the server of a configuration file. At the end, the
**signal handler** or **main** closes the router, which closes every server.

## Modules

| Module | Models | Composed of / related to |
|---|---|---|
| `RestartableClient` | `lsp/restartable.go` and the parts of NewClient, InitializeLSPClient and Close it depends on | implements `SingleServer` |
| `SingleServer` | the promise of the supervisor: generations of servers that never overlap | |
| `Rpc` | `lsp/transport.go`: Call, handleMessages | implements `AbstractCalls` |
| `AbstractCalls` | the promise of Call: each call ends once, with its own answer or an error with a true cause | |
| `Wire` | WriteMessage: the two writes of a frame, made by several goroutines | opens up the atomic send of `Rpc` |
| `DocumentSync` | OpenFile, SyncFileFromDisk, NotifyChange, CloseFile and the server's copy of one document | |
| `Diagnostics` | HandleDiagnostics, WaitForDiagnostics, SignalDiagnostics, the reset in NotifyChange, syncAndFetchDiagnostics | takes the state of a document from `DocumentSync` as a revision |
| `Watcher` | the event loop, debouncing, timers, registrations, configuration restarts | |
| `Router` | getOrStartClient and the other users of the table, Close; main and cleanup | abstracts a RestartableClient to started and closed |
| `RestartHistory` | `RestartableClient` with two history variables: the files the old client had | extends `RestartableClient` |
| `ClientLife` | one Client from NewClient over InitializeLSPClient to Close, with its pipes, its reader, the handlers of what the server sends, and the goroutine that kills it | opens up a generation of `RestartableClient`; abstracts calls to those of initialize and files |
| `EditTools` | edit_file, rename_symbol, format_file, apply_fix and the reader's applyEdit, next to the watcher and other writers | a text is a number; what edits do to one is in `TextEdits` |
| `TextEdits` | the application of edits of places and of lines to a text, overlap, the identity filter | reference definitions `Meaning`, `LinesReplaced`; loops are recursive functions, so that theorems reach them |
| `FileChanges` | workspace edits: texts, files created, deleted and renamed | extends `TextEdits`; reference `Meant` |
| `Fixes` | the diagnostics and the code action that apply_fix chooses | |
| `SourceRanges` | the lines of a definition, and the lines shown around places | |
| `SymbolTools` | definition, type definition, implementation, references, hover, symbols, overview, status | |
| `CallGraph` | dependency_graph, and outgoing calls made from semantic tokens | |
| `DiagnosticViews` | filters, limits, differences and the eight views of diagnostics | |
| `Selections` | elements of a sequence selected by their places, sequences joined: loops that append what they keep to a new slice, said without recursion or a fold, so that theorems reach them | used by `TextEdits`, `DiagnosticViews`, `SymbolTools`, `SourceRanges`, `Fixes`, `Languages` |
| `ToolCalls` | every tool that is registered: arguments and their defaults, whom it asks, kind of answer | uses the modules above |
| `LspTypes`, `LspUnions` | the unions of tsjson.go and the structures told apart in them; how a value is decoded and read | |
| `WatchPatterns` | patterns, registrations, exclusions | reference `Asked` |
| `Languages` | detection, auto-detection, flags, routing of a language | extends `WatchPatterns` for names and exclusions |
| `Tools` | `EditTools` running, and the questions put to the modules that compute | composes the modules above, except `LspUnions` |
| `Meanings` | the questions about unions and about patterns, whose decoding is recursive | extends `Tools` with `LspUnions` |
| `MC...` | definitions the configurations need | |
| `...Proofs` | theorems about the module they extend | |

### How state and actions correspond to the code

A goroutine is a value of `pc` (or a record) and moves from one label to the next; one action is what a goroutine does
between two points where another one can intervene: a mutex taken and given back, a channel operation, a read of the
disk, a write to a pipe, an atomic operation. A section under a mutex that does not block is one action; where the code
blocks while it holds a mutex (the crash recovery closes the old client under `rc.mu`, the router starts and closes
servers under `r.mu`), the holder is a variable. Data are reduced to what can be told apart: a content is the number
of the write that made it, a message is what it is about, a diagnostic set is the revision it was computed for.

- **RestartableClient.** A client is named by its *generation*, the order of the calls of NewClient. `client`,
  `restarting`, `restartCount`, `cancelled` are the fields of the struct; `proc[g]`, `done[g]`, `ready[g]`, `open[g]`
  are the state of client `g`: its process, its channel, whether initialize succeeded, its open files. The actors are
  Starter (Start), Callers (Restart, from a watcher timer), one monitor per generation (monitorHealth and restart),
  Users (GetClient and a use of it) and Closer. Every failure path of the two restarts has its action: the command does
  not start, initialize fails, the context is done in a wait, a file cannot be opened on the new client and is skipped.
  At any of these points a server may die, may send what its reader refuses (`done` is closed while the process lives),
  or may hang: it then answers nothing and takes nothing, so that initialize, a write and Close wait for it. A server
  whose stdin was closed leaves, or is killed, which makes the program panic.
- **Rpc.** `handlers` is the map from ids to calls, `box[c]` the channel of capacity one, `inbox` what the server has
  been asked, `out` the pipe from the server, `reader` the loop of handleMessages with the response it holds between the
  lock and the send. The server answers in any order, at most once, or never; it makes requests, sends notifications,
  sends what cannot be read (the reader ends and closes `done`), stops reading (a write may then stay in the pipe for
  ever, also the reader's own reply, which is a step of its own) and dies. Close closes stdin while calls are under way.
  A call is cancelled at any time.
- **Wire.** `pipe` is the sequence of headers and contents that were written. The server reads a header and then the
  content it announces, and is *lost* when it finds something else there.
- **DocumentSync.** `infos` are the OpenFileInfo objects (SyncFileFromDisk keeps a pointer to one after the unlock, and
  the model keeps it too), `entry` the one in the table, `doc` the copy of the server as it has been sent. Every
  operation reads the disk, takes the lock, gives it back and sends, in this order. Each read may fail. Each send fails
  from the moment the connection is broken (`link`), and then takes the error return of its operation: OpenFile makes
  no entry (client.go:398), CloseFile leaves it (512), and NotifyChange returns the error with version and hash already
  stored (461-462, 493), which `link = "behind"` records. `mixed` records that two operations have overlapped. Both are
  there for the properties that only hold before.
- **Diagnostics.** `pubs` are the publications with the stage of the goroutine that handles each (rotate the cache,
  then signal), `chan` is the map of channels, `tokens` the channels with a signal in their buffer. A checker is
  syncAndFetchDiagnostics; a timer makes changes of its own.
- **Watcher.** `queue` are fsnotify's events, `loop` the event at hand and the look that is due, `debounce` the map,
  `timers` the armed timers and the goroutines they become. `told`, `deleted`, `restarted`, `shown` record what the
  server has been told since the last change of a file; `lost` and `refused`, of which file the last report or restart
  failed, which the code only logs. The server dies, stops reading, is recovered by its monitor and restarted for a
  configuration file; a report to a dead or restarting server fails, and RestartServer refuses while the flag is set.
  A registration is the set of kinds it asks for.
- **ClientLife.** `inPipe` and `outPipe` are the two pipes with their bounds, `registered` how far the registrations of
  handlers have come, `heard` what the server has read of the handshake; each message in `outPipe` carries what the
  server had heard when it wrote it. `handling` are the goroutines of notifications. `closer` and `killer` are Close and
  the goroutine that it starts; the server may hang, crash, and write what is no message. `lost` and `overtaken` are
  history.
- **EditTools.** A text is the number of its write, `held` what the server has of an open file. A tool call opens or
  synchronises its file, asks, applies the edit file by file -- each read, then written, with everybody else in between --
  and tells the server of the files whose text it has edited. Files that the edit creates, renames or deletes
  (`Operate`) nobody tells of. The reader applies edits of its own, the watcher tells the server of what others wrote; a
  write fails, half way or before, and so does a notification.
- **Tools.** Handlers that only compute have no steps that anybody could intervene in. A *question* is a value of their
  inputs; the initial states of `MCTools` have one question each, and the properties compare the answers of the code's
  operators with reference definitions. Texts are sequences of lines of words, names sequences of words with `.` and
  `::` of their own, JSON values tagged pairs; the wording of an answer is left out, its kind and its items are kept.
  Outlines have one level of children, where symbols.go:58 and api_overview.go:120 recurse; no option tells the deeper
  ones apart. Long answers are cut (`TrimResponse`, 20000 characters in the code) where they have pages; the size of an
  answer is there the number of places it shows (`ResponseSize`).
- **Router.** `clients` is the table, `writer` the holder of the write lock, `servers` the RestartableClients made.
  Look-ups under the read lock are one step and need `writer = NoOne`. `cpc` is where the two possible cleanups are.
  A server may hang (`deaf`): its start then never returns, under the lock, and its Close panics or never returns.

## Runs

`tlc -config <run>.cfg <module>.tla` runs each; every one takes less than three minutes on two cores, `Tools` the longest. Deadlock is not
checked in any of them, since in every model the system may stop: a supervisor whose Start failed or that was closed,
goroutines that have all returned, a process that has exited, or a bound that is reached.

| Run | Module | Question | Bounds, and why they are enough |
|---|---|---|---|
| `RestartableClientSafety` | `RestartHistory` | A configuration restart, the health monitors and a tool handler race across a fault. | Three generations, so that a restart follows a restart and two restarting goroutines meet; one fault nobody asked for - a crash, a message that cannot be read, or a hang - and on top of it servers that do not start or do not initialize; two of the six backoffs, so that the last one is repeated. |
| `RestartableClientLive` | `MCRestartableClient` | Does a restart give the flag back, does Close return, do monitors end, is a crash recovered from? | One fault, where a hang and the end of the hung server are one, so that what waits for it goes on; servers that do not start or do not initialize come on top of it; one backoff; one file, which the restart reopens, and no users, who never change anything a restart waits for. |
| `RestartableClientLostMonitor` | `MCRestartableClient` | Is every crash recovered from? (No.) | Two crashes: of the old server and of the new one. |
| `Rpc` | `MCRpc` | Two concurrent calls, requests and notifications of the server, cancellations, a message that cannot be read, a server that stops reading, Close, death. | Two calls are enough for an answer to reach the wrong one; two requests for their order; a pipe of two messages for the reader to fall behind. |
| `WireConcurrent` | `Wire` | Do concurrent writers keep frames whole? (No.) | One frame each of two goroutines. |
| `DocumentSync` | `MCDocumentSync` | A tool handler in any sequence of open, sync, change and close, next to two timers, while the file is written, reads fail, and the connection breaks and fails every send after that. | Two writes of the file (three contents), two entries of the table, versions up to three. A broken connection stays broken: its client is replaced, with a new table. The timers are interchangeable (symmetry; no liveness is checked). |
| `Diagnostics` | `MCDiagnostics` | A check next to a timer that changes the document, publications in instalments and handled in any order. | Two revisions (an edit and the text before it), three publications, three channels: the first, the one of the edit, the one of the timer. |
| `Watcher` | `MCWatcher` | Every order of two changes of a source and of a configuration file, a new directory, a registration, and a server that dies, hangs, is recovered and restarted. | Two changes, so that a change or its undoing meets the timer or the restart of the first; one fault; three timers: one armed, one replaced while it fires, one for the restart. |
| `WatcherReplace` | `MCWatcher` | Does the server of an open file follow its changes? (Not when the file is replaced.) | Two changes. |
| `Router` | `MCRouter` | Two goroutines ask for three languages, two of which share a server, while servers hang and the signal handler and main clean up. | Two servers: one of each group, or one that failed or was closed and the one started after it. |
| `ClientLife` | `MCClientLife` | One server talks during initialize, hangs, dies, is closed and killed. | Pipes of one message, so that both are full; three messages of the server, so that a begin, an end and a request meet the handshake; one open file, so that Close writes. The methods of other requests are handled alike, and one of them is there. |
| `Tools` | `MCTools` | Tools that edit, next to others that change their files; and everything the tools compute against reference definitions. | Two files and four texts: an edit of two files of which one was changed. Of the questions: texts of up to three lines and two edits (three of lines), two changes of files; three diagnostics; outlines of two symbols with two children; three symbols deep; two servers; eight references on pages of five, in answers of four places; a graph of three items, four tokens; each union with every alternative; each head of a pattern with each tail; two files with every kind of directory, two flags. |

The properties, in words, with what would break them:

- `SlotSpec` (the refinement of `SingleServer`): two servers never live at the same time on the workspace, also across
  attempts that fail in the middle. `HandedOutReady`: GetClient, which reads the flag and the pointer in two steps,
  never returns a client that is not initialized. `FilesKept`: across a configuration restart the new server gets
  every file the old one had, except those a handler opens after they were captured and those whose opening failed:
  the file could not be read, or the new client was no longer usable.
- `NobodyWaitsForEver`: the flag is given back, Close returns and monitors end, except while somebody waits for a
  server that hangs, and after a panic. `CrashRecovered`: a crash, or a message that cannot be read, is recovered from,
  provided no other fault or configuration restart comes in between and the old server leaves before it is killed.
- `ReaderNeverBlocks`, `PromiseSpec` (the refinement of `AbstractCalls`), `CallsReturn`: late answers to cancelled calls
  reach nobody, the send outside the lock finds an empty channel, a call ends with a true cause - its answer, its
  context, a server that died or sent what cannot be read, a request that was not written because the server died or
  was being closed - and does end, unless the reader or the call itself is kept in a write by a server that reads no more.
  `RepliesInOrder`: each request of the server is answered once and in order.
- `LostOnlyEarly`: a message that finds no handler was written before the second "initialized". `ProgressSettles`: what
  IsIndexing says is what the server said last, unless an end overtook its begin or the begin was lost.
  `NoProcessLeft`, `CloseReturns`: Close ends whatever the server does, and its process with it; the exceptions are a
  pipe that is full while files are closed, and the panic below. `ReplyLeaves`: the reader gets rid of a reply, unless
  the server hangs or both wait for each other.
- `SyncEnsures`: the text that a sync has vouched for is the one the server has, while operations do not overlap and no
  change has failed to be sent. After such a failure it is not, on any path: the hash is in the table, and the next
  sync finds it equal to the disk's and succeeds (client.go:462, 493; the comment at 415 says that it ensures the latest
  content). `TableMatchesServer`: table and server agree on whether the file is open, while operations do not overlap,
  whatever reads and sends fail. `ChangeNeedsOpen`, `VersionsUnique`: what holds although
  they overlap, as long as nobody closes the file meanwhile and, for `VersionsUnique`, one tool handler works on it at a
  time.
- `FreshWhenWoken`: a check that is woken after its change reads diagnostics of its text, provided nothing older was
  under way when it replaced the channel. `NoLostWakeup`: it is not left to its timeout. `DiffStartsBefore`: the
  difference it reports starts from an older text.
- `NoChangeMissed`, `PresentIsTold`, `ConfigApplied`, `ChangesReported`: when the watcher has come to rest, the server
  has been told of the last change of each file, a file that is there was not reported as deleted last, and the last
  restart came after the last change of the configuration; and every change is reported in the end. The files whose
  report failed because the server was dead or restarting, and those whose restart was refused or failed, are excepted
  by name (`lost`, `refused`): watcher.go:493-495 and 532-541 log the error and never try again. A server that stops
  reading holds up the reports, and the event loop with them.
- `NoServerLost`: the double check under the lock and the groups of languages give one server per group, in the table,
  where Close finds it. `ShutdownEnds`: the process ends after a signal, unless the holder of the lock waits for a
  server that has hung, in initialize or in Close.
- `EditsFit`: an edit is applied to the text it was computed for, unless the server had an old one or somebody changed
  it meanwhile. `ServerTold`: after a call the server knows its changes, except those of rename_symbol, those of files
  that an edit creates, renames or deletes, and those of an edit that was given up or a notification that failed.
  `WholeOrAborted`: a workspace edit that fails in one file writes no other.
- `EditsExact`: edits of places do what the protocol says, all at once in the old text; edits of lines that are in the
  file replace them, exactly if no two share one; changes of files do what the protocol says, where they need no option
  that the code leaves out.
- `DiffBalances`, `ViewsAgree`: differences of diagnostics account for duplicates, and the eight views agree on what is
  shown, counted and cut; the same for outlines. `PlacesShown`: following the pages one sees every reference once, and in
  the lines that are shown, unless a page says that it was cut for its size. `NamesResolve`: a symbol that fails hides no other. `PlacesAsked`: one-based lines and columns
  reach the server zero-based, a missing one reaches no place. `FixChosen`, `GraphRight`: the fix and the nodes and edges
  of a graph are those asked for.
- `MeantIsRead`: an answer in any form of a union is read as it was meant, and a file that a pattern means is watched if
  the pattern is of those that the code reads in full (`ReadInFull`).
  `FilesAreServed`: a file that is followed is routed to the server installed for its language.

## Where the code differs from what it says

Each of these is a run that TLC ends with a counterexample.

1. `WireConcurrent`: WriteMessage writes header and content separately and nobody holds a lock. Two hovers of one
   `batch_hover` can write header, header, content, content; the server loses the frames. hover.go:117 says that the
   positions are asked for concurrently.
2. `RestartableClientLostMonitor`: the monitor of a new client is spawned before the flag is reset. When the new server
   is already dead by then, the monitor loses its compare-and-swap and returns, and nobody watches the client again,
   although README.md:250 promises a restart after every crash.
3. `WatcherReplace`: a file that is saved by renaming another onto it is a creation for fsnotify, and only changes are
   sent as didChange, while watcher.go:116-117 says that the watcher handles didChange for open files.

The models show more behaviours that a maintainer should know of; they are steps of the models, and no comment in the
repository denies them, or the properties carry a proviso for them:

- Versions and hashes are assigned under the lock and sent after it (client.go:493): version 3 can be sent before
  version 2, and the server keeps the older text for good, since each later sync finds the hash equal to the disk's.
  Any publication for the document ends the wait for diagnostics, also one for the text before the change (client.go:490).
- When Close has to kill a server, both it and the goroutine that kills close `forcedKill` (client.go:334, 348): the
  second panics. Close writes didClose before anybody is there to kill (client.go:319), so a server that does not read
  blocks it.
- A configuration restart that fails (restartable.go:204) leaves neither a server nor a monitor.
- A monitor that is late may act on the death of a client that was replaced since, and close its successor
  (restartable.go:239, 246).
- Close (restartable.go:79) takes no flag: a restart that is about to install a client installs it after Close, and
  its server outlives it.
- A file that a handler opens on the old client after Restart has captured the open files (restartable.go:189) is not
  opened on the new one.
- SyncFileFromDisk (client.go:437) can find the hash of a change that was registered and not yet sent, or that could
  not be sent at all (client.go:493): it then returns success, and the server keeps the older text.
- A server that sends what the reader cannot parse is lost to its client while the process runs on
  (transport.go:107-115). One that stops reading blocks who writes to it; if that is the reader, nothing else is read.
- A change of a file is reported to nobody when its server is dead or being restarted at that moment
  (watcher.go:532-541), and a configuration change during a restart is not applied (restartable.go:177, watcher.go:493).
- apply_fix tells the server of edited texts only (apply_fix.go:295-319), not of the files that the edit creates,
  renames or deletes.
- An answer with pages is cut at 20000 characters after its head has named offset+limit (references.go:186,
  utilities.go:71): what was cut is on no page. In the short form the line that names the next page is cut away too.
- Two publications handled in the other order (transport.go:175) leave the older one in the cache; a waiter whose
  channel is replaced by another change waits for its timeout; and a second change with nothing new in it makes the
  difference empty.
- Two timers may be armed for one key, since the goroutine of a timer deletes whatever is under its key
  (watcher.go:523), so one change may be reported twice. A file created and removed within the debounce time may be
  reported as created last. Files made in a new directory before it is watched are not seen (watcher.go:222). The
  removal of a configuration file does not restart its server.
- The signal handler and main may both find `done` open and close it twice, which panics (main.go:325); at the end of
  stdin main waits for `done`, which only a signal or the death of the parent closes; and cleanup waits for a server
  that is being started, whatever its own timeout (router.go:104). A look-up after Close starts a server nobody closes.
- RestartServer looks for the key of the language only (router.go:232): with a server configured and started as `cpp`,
  a change of `.clangd`, which asks for `c`, does nothing.

The computing parts differ from the protocol, or from one another, in these ways; the properties name the exceptions,
and each is what the operators do:

- *Edits.* Deleting all of a line drops the line; edits that touch are refused as overlapping; an end beyond the file is
  clamped to its last line with the column given; in edit_file a line beyond the end replaces the last; columns are
  counted in bytes; the newline at the end is given back even when an edit deletes it; the
  identity filter of format_file may make a set of edits acceptable that was refused.
- *Files.* createFile without options empties a file that is there; a deletion of a missing file fails although
  ignoreIfNotExists, unless it is recursive; a rename onto a file fails although ignoreIfExists, and overwrites it without
  options.
- *Diagnostics.* The JSON difference has no count and no mark of what was cut; the text difference counts after it has
  cut; GetAllDiagnostics says that it sorts and does not; the JSON view of several files looks at the indexing before it
  synchronises; the JSON view of one file has its error inside; answers in JSON are not cut.
- *Symbols and places.* A name is matched at its end, not at a boundary of components; `ns::A::B` is not found for
  `A::B::m`; references end at the first error where the others go on; get_definition and get_implementation may answer
  with an empty text; the fallback of hover is empty on the last line; a server that has crashed is shown as RUNNING;
  unknown kinds of symbols filter nothing; a line or column of 0 becomes 2^32-1.
- *Fixes.* A fix is found by its line even when the column is missing; applyAll looks at neither; a diagnostic at the
  exact position hides one on the line, also when it has another code than asked for. rename_symbol tells the server
  nothing.
- *Graph.* Nodes are keyed by file and name, so methods of one name fall together; a node first seen at the last depth
  is not expanded when it is met again nearer to the root.
- *Unions.* An answer with a field that no alternative knows is refused whole; an "unchanged" report is read as a full
  one without items; a TextEdit as an annotated one; a WorkspaceSymbol as a SymbolInformation, its location without a
  range as 0:0; SnippetTextEdit and a RelativePattern of a WorkspaceFolder cannot be read; a LocationLink whose selection
  is 0:0 gives its target range; numbers of free form are floating.
- *Patterns.* `**/*.{go,mod}` matches nothing; `**` in the midst (`a/**/*.go`) misses; any other pattern that begins with
  `**/` matches everything, whatever its base; `*.go` matches below its directory too; a second star is taken literally
  where a pattern begins with `*.` or `**/*.` (`**/*.*`), and a star before `**` too (`*/**`); a pattern without a base
  that has a slash but does not begin with one matches nothing; only the first registration that matches decides on the kinds of change.
- *Languages.* JavaScript has no server under auto-detection, although autodetect.go:119-120 and a test speak of it; a
  workspace that is itself named like a directory to skip (`build`) is scanned as empty, and followed by the watcher; the
  scan reads dot directories that the watcher skips; in `python:pyright-langserver --stdio` (main.go:123) all after the
  colon is the command, which is not found; a server named by its command alone has no default arguments; of two flags
  with one language the second is never used.

## Fairness

Safety runs use `Spec`, without fairness. The liveness runs use `FairSpec`:

- *RestartableClient*: weak fairness of each goroutine that can take a step (Go's scheduler is preemptive), strong
  fairness of the steps that need `rc.mu` (a writer that leaves lets waiting readers in, and a mutex that is waited for
  is handed over). Nothing is asked of a goroutine that waits for a server that hangs: initialize has no timeout, and
  Close writes before anybody is there to kill. A process whose stdin was closed exits or is killed after two seconds -
  the kill is a panic -, and its reader sees the end of the pipe. The environment is asked for one thing only: a
  command that is run again and again starts and initializes at some time.
- *ClientLife*: weak fairness of the steps of Close together, of the killer (its timer runs out) and of the reader; a
  server that is not hung reads its input and finishes a write for which there is room. Nothing else is asked of it.
- *Rpc*: weak fairness of callers and of the reader, but not of a write to a server that has stopped reading. Nothing is
  asked of the server; `CallsReturn` speaks of calls whose answer, or what ends the reader, was sent, whose context is
  done or whose server has died.
- *Watcher*: weak fairness of the loop and of each timer, including the debounce time running out, but not of a report to
  a server that has stopped reading.
- *Router*: weak fairness of a start under way and strong fairness of cleanup, which competes for the mutex, both only
  while the server that is waited for has not hung; and serving that ends after a signal (the MCP library watches
  signals as well).

A run whose property is a liveness property and that ends with a counterexample (`RestartableClientLostMonitor`) uses
the same fairness.

## Proofs

TLAPS checks the following for every value of the constants that satisfies the assumptions of the modules. The
assumptions say only that bounds are natural numbers, that the names of actors differ from one another, and, in
`Router`, that a group has two languages or one that leans on another (`GroupsAssumption`, true of `languageGroups`),
and that an answer has room for one place (`ResponseSizeAssumption`).

| Module | Theorems | Inductive invariant and argument |
|---|---|---|
| `RestartableClientProofs` | `TypeCorrect`, `Exclusion`, `FlagDiscipline`, `AtMostOneServer`, `HandsOutReady`, `BackoffDiscipline`, `ImplementsSlot`, `RestartKeepsFiles` | `IInv`. Exclusion and the flag are inductive only together. That one server lives needs to know where a live one can be: it is the current client or the one a restarting goroutine brings up, and the current one has stopped before another is created (`ServerInv`); this rests on what a goroutine knows of its local client (`LocalInv`), on generations born in order (`GenInv`), on the one place where `rc.mu` is held while the code blocks (`LockInv`) and on nothing moving before Start has returned (`StartInv`). The refinement maps each step to Launch, Stop, TakeOver or a stutter. `KeptInv` follows the captured files through a restart: which of them the new client has, which were skipped, and which are still to be opened, step by step; nothing but the restart itself touches a client that is still being brought up. |
| `RpcProofs` | `TypeCorrect`, `AnswersAreOwn`, `ReaderIsFree`, `NoLeak`, `ImplementsPromise`, `RepliesOrdered` | `IInv`. Ids are fresh (`IdsDistinct`); the answer of a call is in one place at a time, in the pipe, with the reader or in the channel (`AtMostOnce`), and carries the id of its call (`Provenance`). So the channel that the reader finds in the map is that of the right call, and it is empty. `AsksInv`: while the server lives, its requests that are not answered are in its stdout, each once and in their order. |
| `DocumentSyncProofs` | `TypeCorrect`, `NeedsOpen`, `SyncSerially`, `HashSerially`, `TableSerially`, `VersionsGrowSerially`, `VersionsOnce` | `OpenInv` holds until a file is closed. `SerialInv` describes table, server and disk by the label of the one goroutine that is inside an operation; it is an invariant as long as operations do not overlap, with what it says of texts only until a change could not be sent, and `UntilMixed` carries such a fact through the temporal argument. `UniqueInv`: until a file is closed, a version that is about to be sent was taken from the entry, after all that have been sent; it needs that one tool handler at a time works on the file (`OneTool`, the hypothesis of `VersionsOnce`, and the instance of the run), since a second OpenFile starts again at version one. |
| `ClientProofs`, of `Diagnostics` | `DiagnosticsTypeCorrect`, `WokenIsFresh`, `NoSignalLost`, `DiffIsFresh` | `FreshInv`: from the moment a check replaces the channel with nothing older under way, each publication that can still reach its channel, and the cache once one has, is as new as its change. `WakeInv`: while a check waits on the channel in the map and no signal is in it, a publication or a change is still on its way; it needs one tool handler at a time (the hypothesis of `NoSignalLost`). `DiffInv`: the cache holds what a publication left there, so as long as one publication for the new text has been rotated in, it has replaced an older one. |
| `WatcherProofs` | `TypeCorrect`, `NothingMissed`, `PresentFilesTold`, `ConfigurationApplied` | `IInv`: the last change of a file that was not reported, and whose report has not failed, is due (`ChangesDue`): its event is queued, or the loop has it in hand, or a timer is armed for it; `RestartDue` is the same for configuration files, where a restart may be refused. They rest on the map naming the armed timers (`MapTrue`) and on events agreeing with the disk unless a later one follows (`EventsAgree`, `QueueFollows`, `LoopFollows`). |
| `RouterProofs` | `TypeCorrect`, `NothingLost`, `OnlyStartedHandedOut`, `OneServerPerGroup` | `IInv`: who starts or closes holds the lock; the server that is being started is the last one, and both languages it will be stored under have no entry (`StartsAlone`), so no entry is overwritten; an entry is for a started server of the language or its group, and the configured language has the same entry (`EntriesFollow`), from which `AliasesAgree` follows; Close has closed each server of the table or has still to (`CloseCovers`). |
| `ClientProofs`, of `ClientLife` | `TypeCorrect`, `EarlyOnly`, `CloseLeavesNone`, `ProgressSettled` | `IInv`: how far the handshake has come bounds what the server can have heard, and what it has heard bounds what is registered, so a message written after the second "initialized" meets all handlers (`HandlersFirst`); Close has waited for the process before it is through (`ExitSeen`). `ProgressInv`: where the begin and the end of a progress are (in the pipe, in that order; with a goroutine; lost; handled) and what the client's map then says; the handler of `$/progress` is registered last, so an end is lost only when its begin is. |
| `ToolsProofs` | `TypeCorrect`, `EditsFitTheirText`, `ServerIsTold`, `EditIsWhole`; of what is computed: `DifferenceBalances`, `ViewsAreOne`, `FixIsTheBest`, `PlaceIsAskedFor`, `NamesAreResolved`, `FilesGetTheirServer`, `PlacesAreShown`; `ToolsRunEditTools`, `AskedWell` | `IInv`: from the moment the tool has opened its file, the text that the server has, that the edit was computed for and that is at hand is the one on disk, or is excused by a change from elsewhere (`FitInv`); a change the server has not been told of is made by somebody who tells nobody, an operation on files included, or the tool has it still to tell (`ToldInv`); what the tool has written is newer than what its edit was computed for (`NewerInv`). What is computed is proved of `ToolsSpec`, below. |
| `AnswersProofs` | `GraphsAreRight`, `EditsAreExact` | What is put together step by step, call graphs and edited texts: what is asked stays as it is (`AnswersAsked`), and the steps are recursive functions, about which an induction over sets of numbers shows what holds after each, below. |

*What the tools compute.* `Tools` has a run of `EditTools`, or one question, which stays; `ToolsSpec` begins with any
question that is `WellFormed`, of any size, where `MCTools` has small ones: any number of files, diagnostics, symbols,
servers, fixes and children, any limit, any position. `AskedWell` says that the question stays well-formed, since it
stays, and each theorem then shows that whatever is asked the answers agree.

- Loops that keep some elements are sets of places (`Selections`): `Rank` counts the places up to one, `Nth` is the
  place with a rank. The lemmas say that `Nth` exists, is unique and grows, so that a selection of a selection, a prefix
  of one, or the number of elements with a key in one can be computed. They go by induction over sets of natural
  numbers (`Induction`), which needs no operator as a parameter. `PairRank` and `NthPair` do the same for sequences that
  are joined.
- `DifferenceBalances`: by key, a difference takes away what pairs with an element of the other snapshot, and what is
  left on one side has no partner left on the other.
- `ViewsAreOne`: each view is the same selection, cut at the same limit, and the flags are those of what was cut; the
  outline of a file is a sequence joined from one part for each symbol, and the overview of a kind chooses among the
  parts what the symbol of the top level chooses.
- `FixIsTheBest`: the choice is by a rank that the order of the list does not change, since titles differ
  (`FixAsked`), and the range that is asked for grows over the matches.
- `PlaceIsAskedFor`: a number of an argument counted from 1, with 0 and a missing one beyond any line (`Beyond`).
- `NamesAreResolved`: what is left out by a filter cannot be the first element that a later filter finds.
- `FilesGetTheirServer`: no two languages have a server in common (`ServersKnown`), so the first of its servers that is
  installed is free for each language that was found; what the watcher follows, the scan comes to (`FollowedIsFound`);
  and a language finds its own configuration before that of its group.
- `PlacesAreShown`: the lines to be shown are cut into runs, each the longest without a gap, so that every line stands in
  one run and dots stand for what is between two; of the symbols around a place, the last that the search comes to is the
  innermost; the references of a file stand together, and each is there once, whatever their order (`SeenOnceOf`); an
  answer that is not cut shows its page whole (`NotTrimmed`); the pages at the offsets one turns to do not overlap, and none is left out, since the offset that would leave one out first
  has one before it.
- `GraphsAreRight`: a walk only adds to a graph (`Grown`), edges between its nodes (`Between`) that are calls
  (`Runs`, `MadeBy`), and stays within the calls that are left of its depth (`Stays`); without cut-off, what it has marked
  it has also expanded (`Expands`), so a walk deeper than there are items has all that can be reached, since the sets
  `near` stop growing by then. A walk that begins with more in the graph makes the same of it, on top (`Overlays`): the
  walks of the two directions do not disturb each other. What is sent of tokens is decoded as these tokens
  (`DecodedRight`).
- `EditsAreExact`: the meaning of edits is the old row of characters read backwards, `Tails`: from each place on, what is
  new there, then the next character unless it goes. Edits of a text are edits of its row (`CutsOfEdits`), and if they do
  not overlap they are apart in it (`EditsApart`); so the k-th edit that is applied, the last first (`LastComesFirst`),
  finds the text up to its end as it was and rewrites the row at the offsets of the old text, and what is then to the
  right is the tail there (`EditInTurn`, `AppliedAsMeant`). An edit that empties its lines is what this needs to exclude
  (`NoneEmpties`). The edits that `filterIdentityEdits` drops put back the row they take out (`PutBack`), so from one
  bound to the next nothing changes without them (`IdentitiesDropped`). Lines are edited in the same way, where the
  overlaps of neighbours in the order are all the overlaps (`OverlapOfLines`, `LinesExact`). Of changes of files each is
  compared with its meaning, and so are all in turn (`OneChange`, `FilesExact`).

Each invariant was an INVARIANT of a TLC run before it was proved. The proof that a step keeps it has a step per action;
lemmas say what appending to and taking from a sequence and changing a field of a record in a function do.

Some theorems state what no run has as a property of its own, because it is implied by one that a run has, or is part of
the invariant that was checked before it was proved: `RestartExclusion`, `FlagMatchesSection`, `OneServer`,
`BackoffOnlyWhileRecovering`, `HandedOutStarted`, `OwnAnswer`, `HandlersExact`, `HashIsSentSerially`, `VersionsGrow`,
`AliasesAgree`.

Only model-checked:

- all liveness (`NobodyWaitsForEver`, `CrashRecovered`, `CallsReturn`, `ChangesReported`, `ShutdownEnds`,
  `CloseReturns`, `ReplyLeaves`): it is out of the prover's reach;
- `MeantIsRead`: it decodes unions by recursive operators, which no module with a theorem may reach; patterns are split
  and matched by folds and by tables in two indices, of which the provers have no theory.

## What is not modelled

- **The text of things**: formatted answers, log lines, JSON, URIs. No property is about them, except the length that
  a header announces (`Wire`).
- **Timeouts as durations**. The wait for diagnostics, the debounce time, the backoff and the two seconds before a kill
  are steps that may happen at any moment from when the code allows them.
- **Capabilities and initialization options.** A client is ready when initialize has succeeded. What `typescript.go`
  opens after initialize is any set of files (`OpensFiles`).
- **Line ends.** A text is a sequence of lines. The code keeps the line end of a file: it splits at `\r\n` if there is
  one and at `\n` otherwise, and joins with the same (edit.go:34-45, 75-82). The text of an edit is split at `\n`, so a
  `\r\n` it brings becomes `\r\r\n` in a file with `\r\n`; a lone `\n` in such a file is no line end; and the identity
  filter of format_file splits at `\n` in any file.
- **Characters.** Names, patterns and lines are sequences of words. So a suffix is one of words: that `AB::m` is found
  for `B::m`, or that a column counts bytes where the protocol counts UTF-16 units, is described above, not modelled.
- **Structures of the protocol** that no union tells apart: they are plain declarations.
- **The typed methods** (`methods.go`): each is a Call or a Notify of `Rpc` with other types.
- **mcp-go**, the MCP library: external; its part is that handlers run, and that serving ends.
- **Language servers**: external; they answer in any order or not at all, publish when they like, and die.
- **Memory races.** Fields that are read without their lock (for example `router` in cleanup, main.go:320) are modelled
  as if the read saw a value that was written.
- **The generator of the protocol types, logging, tests.** The first is a program of its own, on the second nothing
  depends.

Two abstractions matter for reading the results. `Rpc`, `DocumentSync` and `Diagnostics` send a message in one step;
`Wire` shows that the code does not guarantee this when goroutines write at the same time, so their results describe
connections whose frames are whole. And each module has one document, one server or one router; a tool that works on
several files is a sequence of what is modelled for one.

## Plan

Done, in this order, the most shared state first: `RestartableClient` with `SingleServer`, `Rpc` with `AbstractCalls`,
`DocumentSync`, `Diagnostics`, `Watcher`, `Router`, `Wire`, each with its runs and, except `Wire`, its proofs; then
`ClientLife` with its proofs, the tools with the proofs of `EditTools`, the unions, the patterns and the languages. Every
invariant that a run of one of these modules checks is proved, except those listed under "Only model-checked".

What is left is smaller than what is there:

1. **Composition** of `RestartableClient` with the table of `DocumentSync`: a new client starts with an empty table, and
   what it vouches for must hold for the new server. `FilesKept` is the part of it that concerns the set of open files.
2. **Wire** with a lock, as the specification a repair has to meet, and the atomic send of `Rpc` shown to be implemented
   by it.
3. **Abstract specifications**: a document that the server sees as a sequence of ever newer contents, and a watcher that
   eventually reports the last state of each file.
