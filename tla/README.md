# SQLTerminal for Windows: a TLA+ verification project

TLA+ models of SQLTerminal, a Win32 terminal for SQLite and PostgreSQL: its
concurrent core, its text algorithms, its stores and its stateful controls, with TLC configurations that check them on
small instances and TLAPS proofs that hold for every instance. Paths below are
relative to the repository's `src/` directory unless they start with a module's
name.

## 1. Inventory

### Parts and how they interact

| Part | State it keeps | Operations | Talks to |
|---|---|---|---|
| `db/DatabaseSession` | job queue, `stop_`, `provider_`, two mutexes, a worker thread | connect, disconnect, execute (two names for one operation), cancel, three state queries, the destructor | UI thread calls in; worker calls providers and completion callbacks |
| `db/SqliteProvider`, `db/PostgresProvider` | native handle, connected flag, status | connect, disconnect, execute (statement by statement), cancel (from another thread) | SQLite, libpq |
| `ui/MainWindow` | `AppState`: busy, cancelRequested, currentConnection, pendingConn, inTransaction, readOnly, lastRunStatements, the schema tree | commands (run, cancel, open, `.use`, refresh, transactions, history), handlers of four posted messages | posts jobs to its session; the callbacks post `WM_APP_*` messages back |
| `ui/*Dialog` | a result and a done flag | a nested message loop each: disable the owner, dispatch until done, enable the owner | dispatch the window's messages inside the handler that opened them |
| `app/TerminalLogic` | command history cursor and draft | guard decision, transaction tracking, schema SQL, history | the splitter and classifier |
| `app/DotCommandHandler` | none | text to SQL, message or reconnect | terminal logic |
| `editor/EditorModel` | text, caret, selection, undo and redo stacks, typing run | edits, movements, undo, redo | editor control |
| `core/Sql*` | none | split, scan literals, classify, highlight, statement at the caret | guard, editor, PostgreSQL provider |
| `persistence/Stores` | JSON files: recents, saved profiles, history, snippets | read, change and rewrite of a whole file | main window, dialogs |
| `ui/SqlGridControl`, `app/ResultFormat` | rows, row order, filter, sort, selection, scroll | set result, filter, sort, select | main window |
| `security/CredentialStore`, `platform/*`, `ui/Theme`, `ui/SqlEditorControl` | none of their own, or drawing | external calls | Windows, WinSparkle, Direct2D |

One process may have several windows. Each has one session, so one worker
thread and one connection; all windows share the UI thread. The only shared
memory between the UI thread and a worker is the session's queue and
`provider_`; everything else crosses as a posted message.

### What is hard in it

* **Two threads on one connection.** `execute` and `connect` run without
  `connMutex_`, on a raw pointer copied out under it, while the UI thread calls
  `cancel`, `isConnected` or the destructor (`db/DatabaseSession.h:8-20`).
* **Cancellation.** An interrupt acts on whatever statement runs at that
  moment: perhaps another job's, perhaps none.
* **Completions out of step with the window's state.** Connecting does not set
  `busy`; `pendingConn` and `lastRunStatements` are single slots read when a
  message is handled, not when its job was posted.
* **Nested message loops.** A handler that opens a dialog is suspended while
  the window's messages are handled; each dialog enables the window when it
  closes, even if another is open below.
* **One text read five times.** The splitter, the literal scanner, the
  classifier, the PostgreSQL provider and the database engine each decide what is
  a statement, a string or a comment; the guard is only as good as their
  agreement, and the engines know quoted names, which `core/` does not.
* **Files without a lock.** A store is loaded, truncated and written in three
  steps that another process, or a crash, may come between.
* **Answers that name a control's item by a handle** which may be gone or given
  to another item when they arrive.
* **Sequences of legal edits, sorts, filters, drags and selections** in the
  editor and the grid, whose state is indexes into each other.

### What makes each part correct

* Session: no call into a freed provider, no provider leaked, none touched by
  two threads while it is being connected or closed; the UI thread never waits
  for a query except in the destructor's join; every posted job completes;
  jobs run one at a time in order on the connection of the last connect.
* Window: at most one of the user's statements in flight and `busy` tells it
  exactly; nothing runs on a database other than the one last asked for;
  nothing the guard calls a write is started in read-only mode; what is shown, recorded and tracked is
  that of the connection in use.
* Editor: caret and selection inside the text and off the middle of a surrogate
  pair, undo and redo inverse, the stacks within their cap.
* SQL text: pieces concatenate to the text; split, scan and classify agree on
  what is a literal or comment; what is executed is what the guard judged,
  wherever the engine reads the text as `core/` does.
* Stores: caps, no duplicates, order; what a crash or a second process can lose,
  and that nothing else can.
* Grid: exactly the matching rows, in order, each once; the selection never
  moves to another row by itself.
* Schema tree: no node fetched twice or left loading; columns below their table.

`PROJECT.json` lists the hazards line by line with the properties that cover
them.

## 2. Plan

| Step | Module | What for | State |
|---|---|---|---|
| 1 | `ConnectionService`, `DatabaseSession` | the two threads, refinement of the abstract service | done |
| 2 | `DatabaseSession_proofs` | safety and refinement for every instance | done |
| 3 | `TerminalWindow` | commands, messages, nested dialogs over the service | done |
| 4 | `EditorModel` | edits, selection and undo | done |
| 5 | `SchemaTree` | tree nodes and column fetches, recreated under a fetch in flight | done |
| 6 | `Lists`, `StoreLists`, `Stores` | read-modify-write with crashes and two processes | done |
| 7 | `SqlText`, `ServerText`, `SqlSplitter`, `ScriptRun` | splitter, scanners, classifier, guard and execute loops over one text, and the engines' own reading of it | done |
| 8 | `ResultsGrid` | row order, filter, selection, geometry | done |
| 9 | `SequenceLemmas`, `EditorModel_proofs`, `TerminalWindow_proofs`, `SchemaTree_proofs`, `Stores_proofs`, `ResultsGrid_proofs` | every safety property of those runs, for every instance | done |
| 10 | `ScriptRun_proofs` | the split as a partition; what is judged, run and reported | done |
| 11 | | that the window's session steps are `ConnectionService` steps | to do |
| 12 | | statements with semicolons of their own in `ServerText`; a message that cannot be posted | to do |

Abstract specifications worth stating: the service (done, as a refinement), the
undo history as one timeline of texts (done, a history variable), a store as the
list its changes leave when each is one step (done, `ideal`), the split as a
partition of the text (done, proved).

## 3. The models

### ConnectionService

What the session promises, in six variables: jobs accepted, pending, running
and completed, the connection in use and whether the service is closed. A
connection is named by the connect job that made it. `Complete` records each
job with the connection it completed under, so the refinement says that a query
starts and ends on one connection.

### DatabaseSession

Steps are as fine as the critical sections of `db/DatabaseSession.cpp`.

| Model | Code |
|---|---|
| `jobs`, `stop`, `provider`, `connMutex` | the fields of the class; `connMutex` is its holder |
| `live` | the provider objects allocated and not destroyed |
| `worker`, `job`, `p`, `next` | program counter and locals of the worker: the job, the raw pointer of an execute job, the `unique_ptr` of a connect job |
| `ui` | program counter of the UI thread inside a call |
| `interrupted`, `stmts` | the interrupt flag of the running statement, and the statement loop of a provider's `execute` |
| `posted`, `done`, `asked` | history: how many jobs were posted, which completed and on what connection, which job `cancel()` last met |

Every lock, each thing done under it and every blocking call is a step of its
own. The condition variable may wake spuriously. `queueMutex_` is not a
variable: each of its critical sections is one step, and nothing blocks inside
one. `cancel()` sets `interrupted` only while a statement runs, which is what
`sqlite3_interrupt` and `PQcancel` do. `PQcancel` is a network round trip made by
the UI thread under `connMutex_`, so it is two steps: the request (`Interrupt`),
which may fail to arrive, and the server's hanging up (`CancelReturns`), which
nothing in the code makes happen. Between them the worker finds the mutex held. A
provider is torn down under `connMutex_` too, by the worker or the destructor;
closing a connection waits for no answer of a server and is one step.
`makeProvider` knows two engines and there are only two, so its null result is not
modelled.

### TerminalWindow

The session's jobs are taken, run and completed in the coarse steps
`ConnectionService` allows; the model's subject is the window.

| Model | Code |
|---|---|
| `busy` ... `lastRun` | the `AppState` fields of those names (`current` is `currentConnection`, `pending` is `pendingConn`, `lastRun` is `lastRunStatements`) |
| `tree`, `recents` | whose tables the tree shows; what was recorded as recent |
| `inbox` | `WM_APP_*` messages: also one whose callback is just about to post it |
| `frames`, `enabled` | the handlers suspended in a dialog, innermost first; `EnableWindow` on the window |
| `jobs`, `running`, `provider`, `serverTxn`, `interrupted` | the session and the server's transaction state |
| `requests`, `reached`, `reentered` | history: commands given, configurations a connect succeeded for, whether the window was enabled under an open dialog |

Statements are told apart by what the guard, the transaction flag and the server
do with them: `select`, `drop` (a write, destructive), `begin`, `commit`. A
configuration is a server and a database, so `.use` changes one and keeps the
other. Both are PostgreSQL, the engine that has `.use`. Early returns that only
set the status line are not steps. Cancelling is one step here, so what is checked
of the window takes `PQcancel` as returning, and a `PostMessage` that fails, whose
answer is lost, is left out. A user's command may come while messages are
in `inbox`: the UI thread has taken the click out of the queue, and the worker
posts before the handler runs.

Not in this model: column nodes, sorting and display of results, several
windows, closing the window, SSL status. Saved profiles and passwords are written
at the same point as `recents`, from the same variable, and are in `Stores`.

### EditorModel

`text`, `sel`, `undo`, `redo` and `typingRun` are the class's fields, with
offsets counted from 0 in UTF-16 units as in the code; `pendingHigh` is the
control's half of a typed pair. `Normalize` goes through a pasted text unit by
unit, as `normalizeNewlines` does. A unit is one of seven: a word character,
another, a blank, a line feed, a carriage return and the two surrogate halves,
which is all the code asks of one. Actions are the events the control
translates: `WM_CHAR`, paste, `WM_SETTEXT`, the keys, the mouse (any offset).
Visual navigation by word wrap is `PlaceCaret`. Loops over the text are written
as the first or last offset with a property. The clipboard brings well-formed
UTF-16; ill-formed text is left out, since deleting between two stray halves
makes a pair around the caret.

`recordPreEdit` does not clear the redo stack when a typing run goes on,
although its comment (`editor/EditorModel.h:112-114`) says always;
`RunIsOneStretch` shows that there is nothing to clear then.

`EditorModelMC` gives the strings and units of the run.

### SqlText, SqlSplitter and ScriptRun

A text is a sequence of units: a mark (quote, semicolon, dash, slash, star,
dollar, ...) stands for itself, a word unit for a stretch of word characters.
That is what the readers of a text tell apart; a keyword's spelling is not.

`SqlText` holds the pure functions, each from its own source: the scanner
(`literalAndCommentRanges`), the classifier with its blanking of literals, the
keyword colouring. Scanner and classifier share a definition because their code
differs in one place only: where the search for a block comment's closer begins.

`SqlSplitter` is `segments()`, one turn of its loop an action, with the loop's
locals as variables and the flags as `mode`. `plain` is history: the offsets at
which the loop found code. `SplitSpec` is one call alone, on any text, for the
proofs.

`ScriptRun` is a whole command. `pc` says how far it has come and so who has
called the splitter: `doRunStatement` for the statement under the cursor, the
guard for each text of the batch, the PostgreSQL provider for the joined script.
A dot command is what `handleDotCommand` does with it, with the shape of its SQL
around the argument as typed, quotes included. A statement's outcome is chosen
freely: rows, a command tag or an error. `CommandWordsAssumption`: the words of the dot commands' own SQL are words.

`ServerText` is external: how SQLite and PostgreSQL read the text they are handed.
It has what `core/` does not: quoted names (in double quotes; on SQLite also in
backquotes and brackets), PostgreSQL's comments that nest, its E strings with
backslashes and its names with dollar signs in them, SQLite's want of dollar
quotes. `ServerStatements` is what the engine makes of a text: of the joined batch
for SQLite, of each piece given to `PQexec` for PostgreSQL (`Received` in
`ScriptRun`). Statements with semicolons of their own (triggers, rules,
`BEGIN ATOMIC`) would need the engines' parsers and are left out:
`NestedStatementsAssumption` says that their words are none of the texts'.

Where the readers differ is written into the properties, not hidden by the
inputs:

* `Alike` says that an engine finds in a text the strings and comments that
  `core/` finds, and no semicolon in a quoted name. `GuardSawAll` is about the
  texts handed over for which it holds. It fails for an apostrophe, a semicolon or
  a comment's delimiter in a quoted name, a dollar quote on SQLite, and on
  PostgreSQL a dollar sign in a name or after a digit, an E string with a backslash
  and a comment that nests or overlaps its own opener. The run's texts have them
  all. What may happen there is `script_quoted_names`.
* `/*/` opens a block comment for the scanner and the engines, and is a whole one for
  the splitter and the classifier. `LexersAgree` leaves such texts out of its
  part about colours.
* The statement under the cursor is cut before typographic quotes and dashes are
  replaced, and may fall apart afterwards; and a dot command is run as its own
  statements. `picked`, a history variable, is true where neither is the case:
  the batch is the statement as it was cut. `PickedIsOne` is about those.

Two more observations, modelled as the code has them but no property: for a
cursor just past a semicolon `statementAtOffset` takes the segment that begins
there, or finds nothing if that is blank, although the comment at
`core/SqlStatementSplitter.cpp:152-154` says it targets the statement just
finished; and a segment that holds only a comment is a statement, although
`core/SqlStatementSplitter.h:31-32` says there is none between statements.

### StoreLists and Stores

`StoreLists` is what each store does to its list, as the set of lists that may
come out (`std::sort` leaves equal names in any order), and the JSON form of a
profile. Names are a letter and a case, so two may differ and compare equal.

`Lists` has what several components' vectors share: the entries of a list, and a
list without some of them.

`Stores` is several processes over one set of files.

| Model | Code |
|---|---|
| `files` | the JSON files; missing, truncated or unreadable is the empty list, as `loadVec` has it |
| `creds` | the Credential Manager |
| `work`, `stage`, `changed` | what the running handler has still to do, and how far the change at its head is: list loaded, file truncated, file written |
| `dialog`, `needle`, `shown`, `form` | the open dialog, its search, its list box with the index kept for each row, the connection form |
| `ideal`, `disturbed`, `outdated`, `lastConn`, `aim` | history: the lists if every change were one step, the files where changes overlapped or were cut short, the lists another process has made outdated, the last connection recorded, the last deletion |

`g_mutex` excludes only threads of one process, and one thread uses the stores,
so it is not a variable. A process dies by `Crash` at any point and starts again
with what the files hold. The application calls neither
`SavedProfilesStore::remove` nor `RecentConnectionsStore::clear`. What an earlier
session left (`Kept`) obeys the caps and orders the stores' header promises; a
profile of an older version has no SSL mode, and one is read as `prefer`.

### ResultsGrid

The control's fields with their names, plus the search field and row count the
main window keeps beside it. A result is posted by the worker, so it may arrive
during a column drag or inside the context menu's loop. The filter takes the rows that do
not match out of the order (`Without`). Cells are sequences of
units (minus sign, digits, letters in two cases), enough for numeric, natural
and NULL order. `smartCompare` is not always an order (`-3 < -3a < -5 < -3`):
`std::stable_sort` then promises nothing of the order, and the model takes any
permutation. `RowsShown` claims an order of the rows only where the comparison is
one; that the user sees none elsewhere is a hazard without a property.
Mouse positions are enumerated, so dividers, columns and rows are hit by the
control's own arithmetic. Lengths are multiples of the least that matters.

### SchemaTree

The tree's table nodes by handle, the session's queue and the window's messages.
`populateTables` deletes every node, and the new ones may get the old handles,
which is the tree view's freedom. `generation` and `misplaced` are history: which
filling of the tree a column fetch was made for, and whether an answer has been
given to a node that did not ask. A connect job is one step, from the old
connection's teardown to its answer. The model shows the code's one exception: a
node expanded while a refresh is under way can have its answer given to another
node. A fetch that fails leaves its node loaded with "(no columns)"; it is not
tried again until the tree is refreshed.

## 4. The runs

| Run | Bounds | Shows |
|---|---|---|
| `session` | 3 jobs, scripts of up to 2 statements | provider lifetime, mutex discipline, refinement, no lost wakeup, the UI thread waits for no query, the destructor returns |
| `window` | 1 server, 2 databases, 4 commands | busy flag, guard, agreement of window and connection, a busy window becomes free |
| `editor` | 3 units of text, 2 undo steps, 5 edits and movements since the text was set | whole characters and valid selections in the document and every snapshot, the undo cap, contiguous typing runs, one timeline of texts |
| `script` | both engines, texts of up to three chunks of 10, longer ones around each kind of literal and quoted name, the dot commands | the split as a partition, agreement of the scanners, the guard sees what runs where the engine reads alike, a result tells what happened |
| `stores` | 2 processes, 2 changing commands, 1 crash, caps of 2, empty or full stores | lists stay sound; what is lost, and only when; what Delete and the connection dialog hit |
| `grid` | 2 results of 3 rows, 1 and 2 columns, 3 filters, 2 resolutions, 2 sizes | rows shown, selection, geometry |
| `tree` | 2 databases that share a table name, 3 handles, 6 commands | loading marks and column answers |
| `session_destructor` | 2 jobs | **violated**: closing waits for a script whose interrupt was lost |
| `session_ui_blocks` | 1 job | **violated**: a cancel waits on the UI thread for a server that does not answer |
| `script_quoted_names` | both engines, texts of a quoted name between two statements | **violated**: a write runs in read-only mode |
| `window_double_execution` | 5 commands | **violated**: two statements in flight |
| `window_recents` | 3 commands | **violated**: a configuration is recorded that was never connected to |

**Bounds.** Three jobs are a connect, a query and the reconnect or disconnect
that could pull the connection from under it, with a cancel, a read or the
destructor at any point; two statements are the least that have a gap between
them. What the session's safety properties say is proved for any number of
both. In the window, four commands are two overlapping connects and two
statements, or a statement, its confirmation and a schema refresh between two
connects; two databases are the least that tell an old connection from a new.
Cancelling, answering dialogs and toggling read-only mode are not counted.
`reentered` is reachable within them; the double execution itself takes a fifth.

In the editor, five events are three edits in separate undo steps with
movements between, one more than the two steps kept, so the cap and the loss of
the oldest are reached; undoing and redoing are not counted. Three units hold a
pair beside another character.

Two chunks put every pair of delimiters next to each other, three close what the
first opened or follow a semicolon; the longer texts have a statement on both
sides of each literal, and of each quoted name and peculiarity of an engine, with
an apostrophe or a comment behind it that may close what an apostrophe opened. The
proofs cover the split of every text.

In the stores, two commands are the two changes that can overlap, or a change
and the dialog it makes outdated; one crash falls at every step of either. The
caps are 2 (10 and 200 in the code) with stores that start full, so an entry is
pushed out by the first addition. In the grid every variable but the result is
bounded by itself, so no command is counted. In the tree, six commands are two
connects, two refreshes and two expansions; three handles are one more than the
tables, so old handles are given again and also missed.

**Properties conditional on a history variable.** `NothingLostAlone` holds
outside `disturbed`, `DeleteHitsSelected` where the list is not `outdated`,
`ColumnsOfTheirTable` until `misplaced`. Each names the only circumstance in
which the code does otherwise, and each is reachable within the bounds.

**Properties conditional on `reentered`.** `SingleFlight`, `ResultIsOfLastRun`
and `ReadOnlyRespected` hold until the window has been enabled under an open
dialog. That condition is the finding of `window_double_execution`, and the
only one they need: they hold through every overlap of connects, failures and
late cancels, and with messages handled while a confirmation is open.

**Fairness.** The worker and the UI thread's calls are weakly fair: each is a
thread that runs on when it can. The worker's locking is strongly fair, since
the user may make the UI thread take `connMutex_` again and again, each time
for a pointer read. An interrupted statement returns; a statement or connect
that is not interrupted returns only where a property assumes `ServerAnswers`, and
`PQcancel` only under `CancelAnswered`, which is part of it. `UiWaitsForNoQuery`
assumes `CancelAnswered` and no more: the queries and connects may hang, the
window does not. `UiNeverBlocks` is what the header promises, without any
assumption on the server, and fails.
The user is never assumed to do anything. In the window, the message loops and
the worker's taking of jobs are weakly fair; `BusyEnds` assumes `ServerAnswers`
and no answer to any dialog.

**Findings.** Each violated run quotes in `PROJECT.json` the line it refutes.
How they come about:

1. *Destructor.* It calls `cancel()` before it sets `stop_`. Between two
   statements there is nothing to interrupt, so the join waits for the rest.
2. *Double execution.* A confirmation is open; a connect posted before fails and
   its error box closes, which enables the window; the user connects again and
   runs a statement; Yes in the first box starts a second.
3. *Recents.* A connect is on its way; another is asked for; the first
   succeeds and the window applies the second's configuration.
4. *Blocked window.* The user cancels; `PQcancel` has connected to a server that
   does not hang up. The UI thread waits in it, holding `connMutex_`, and the
   worker waits for the mutex at its next job.
5. *Quoted name.* A name in double quotes holds an apostrophe, and a `DELETE`
   follows the statement it is in. `core/` reads the rest of the text as a string,
   the guard sees one SELECT, and the engine runs both statements in read-only
   mode.

Two more disagreements are in the models as the code has them, without a run:

* `Cancel` of `TerminalWindow` interrupts a schema fetch that runs ahead of the
  user's queued statement. The fetch empties the tree; the statement runs to its
  end and its result is dropped as cancelled. `db/DatabaseSession.h:56-57` says a
  fetch is not affected by `cancel()`.
* `OnResult` follows the statements of a failed result too, and none of a cancelled
  one: a `BEGIN` that fails turns the in-transaction indicator (`README.md:30`) on,
  one that succeeds just before its cancel leaves it off.

## 5. The proofs

Every safety property of the passing runs is proved for every value of the
constants, each from an inductive invariant of its component, part by part and
action by action. `SequenceLemmas` is what
they share.

### SequenceLemmas

Sequences by their indices: what `Append`, `Tail`, `SubSeq`, concatenation and
the removal of an element do to each index. Induction over the naturals is stated
as "a set that contains 0 and is closed under successor contains all", proved by
a least counterexample; from it `IterationExists` and `DescentExists` show that a
function defined by recursion on its argument exists, after which each of the
models' recursive functions is known by its equations. On top of those, what
`Without` leaves of a list: its entries, in order, and that leaving out twice is
leaving out both.

### DatabaseSession_proofs

For any `MaxPosts` and `MaxStatements`, under `NoneAssumption` (the null value is
no number and no job) and `BoundsAssumption` (the bounds are natural numbers),
every safety property of the run `session` and the refinement.
`SessionMutexHeldBriefly` says where each thread may hold the mutex: the worker
never across connect, execute or a callback, the UI thread inside a call on the provider only. That one of
those, `cancel()`, waits for the server is `session_ui_blocks`. The safety
properties are not inductive. The invariant `IInv` adds:

* `MutexInv`: each thread holds `connMutex` exactly while its program counter
  is inside a critical section, which gives mutual exclusion.
* `JobInv`: the worker has a job exactly outside its wait loop, and is only at
  points of the code that jobs of that kind reach.
* `HeapInv`: `live` is exactly what `provider` and `next` name; `next` exists
  only inside a connect job, is named after it, and only while nothing is
  published. It gives `NoHandleLeak`.
* `PointerInv`: between `Fetch` and the end of `execute`, `p = provider` and is
  not null. Only the worker changes `provider` before the join, and it is busy
  executing. It gives `NoUseAfterFree`.
* `ShutdownInv`: `stop` is set exactly past that point of the destructor, and
  past the join the worker has exited.

`ServiceStep` then maps every step, from a state of `IInv`, to a step of the
service or a stutter: `Fetch`, the statements and the locks are stutters,
`Callback` is `Complete` because `p = provider`.

### TerminalWindow_proofs

For any servers, databases and number of requests (`WindowAssumption`: `None` is
none of the values it stands beside). Three groups, each with its own invariant:

* `TypeInv`: the types, and that a connect always has a configuration and the
  window one pending until its answer is handled.
* `StatementInv`. `FlightInv`: a statement is in one of three places (queue,
  worker, inbox), `busy` says exactly whether it is, and `lastRun` is its text.
  `ModalInv`: the window is disabled exactly while a dialog is open, and a
  statement that waits for its confirmation waits in an idle window and is one
  the mode allows. Both hold until `reentered`, and give `SingleFlight`,
  `ResultIsOfLastRun` and `ReadOnlyRespected`; `BusyHasQuery` needs no condition.
* `ConnectionInv`. `AskedInv`: what was posted after the last connect was posted
  under what that asks for. `QueueInv`: a query was posted under the same as the
  job before it, which gives `RunsWhereAsked`. `ShownInv` and `FetchInv`: where
  the window or its tree is behind the session, the message that will bring it
  up to date is already in the inbox or its job in the queue, after every older
  one.

### SchemaTree_proofs

For any connections, tables, handles and commands (`TreeAssumption`: there are
handles enough for any table set). The queue and the inbox are one line of work,
and the invariant speaks of positions in it: `OrderInv` (an answer of an older
filling, or one that a filling stands before in line, was asked for during a
refresh), `DueInv` (a loading node has exactly one answer due, an unloaded one
none), `TextInv` (what is asked of the present filling is asked for a node that is
there, and of its table), `ConnInv` (columns of an older connection are followed
by what removes them).

### EditorModel_proofs

For any cap, text and input (`EditorAssumption`: the cap is positive, what is
typed and pasted are well-formed units). First the stacks, of whose contents
nothing is assumed: `RunHasUndo` (an open typing run has something to undo and
nothing to redo) says why `recordPreEdit` may return early without clearing the
redo stack, and the bound is inductive because undo and redo only move a snapshot
from one stack to the other. Then the texts, with `DocInv`: the document and every
snapshot are sound (no carriage return, no half of a pair alone, a selection inside
the text and off the middle of a pair), and an open run is one stretch. The work
is in `ReplacedSound` (what replaces a selection leaves a sound text) and in
`Normalize` (`NormalizedSoFar`: the text is sound so far, but for a pair that is
half read). `EditorTimelineKept` is the action property: each step leaves the line
of texts alone, cuts it after the present and adds one, or empties it.

### Stores_proofs

For any processes, caps, crashes, commands and lists left by earlier sessions
(`StoresAssumption`, and `KeptAssumption`: those lists are sound and their ids
none that will be given). First each operation of `StoreLists` on a sound list;
then `IInv`: every file holds the JSON of a sound list (`FilesInv`), and so does
what a change is about to write (`ChangedInv`); what a process has left to do fits
its dialog (`ProcessInv`); ids that were given are given to nobody else (`IdInv`);
while the changes of a file have not overlapped, the list being written is what
its change makes of the list as it should be (`LostInv`, hence
`NothingLostAlone`); and the rows of a list box nobody has made outdated stand
where they say (`RowsInv`, hence `DeleteHitsSelected`).

### ResultsGrid_proofs

For all results, texts, sizes and resolutions (`GridAssumption`: lengths are
positive, a result has a column), and whatever the comparator says of two cells:
the sort is opaque, a permutation and, where the comparison is an order, an
ordered one. `ColumnsInv`, `OrderInv` (the grid's filter is the field's, and the
rows are its rows), `ViewInv` (nothing is scrolled out of range) and `SelectionInv`
are inductive together; `MulDivKeepsMinimum` is why a column never gets narrower
than the minimum when the resolution changes.

### ScriptRun_proofs

Under `WordsAssumption` (no word unit is a mark), `TextsAssumption` and
`CommandWordsAssumption`, for any text; of the texts that
`NestedStatementsAssumption` leaves out, `ServerText` says nothing. The module goes from one split to a whole
command:

* One split. `SplitPartition` and `SplitInBounds`: `SplitInv` adds to `Partition`
  that the reader is at or after the end of the last segment. Ten branches of the
  loop only read on (`ReadKeepsInvariant`); two emit (`EmitTiles`).
* The result. `ResultInv` is what the outcomes so far say of it
  (`ScriptResultTellsTruth`).
* Types (`ScriptTypeCorrect`), for which every scanning function must stay inside
  its text, and `ScriptPartition`: the partition in every call of a command.
* What the splitter reads. The *stops* of a text are the offsets at which a
  reader of whole literals arrives. `ReadInv`: in code the loop is at a stop, and
  `plain` is the stops where nothing opens. A text between two code stops is read
  alone as it is read in its place (`PieceStops`), so a split is determined by the
  text (`IsSplit` is unique), a segment's statement cut again is whole, and
  statements joined by newlines split into themselves where each ends in a
  semicolon. The batches a command can give are one text, or several SELECTs
  (`IsBatch`).
* The command. `ScriptRunInv = TypeInv /\ ReadInv /\ CommandInv`, whose parts say
  what each caller of the splitter has found: the guard has judged exactly what
  the joined batch splits into (`JudgedInv`), and the provider's script is that
  without what it does not send (`ScriptInv`). It gives `ScriptPickedIsOne` and half
  of `ScriptGuardSawAll`.
* The engines. In a text read alike, an engine's strings and comments are the
  stretches between the splitter's stops (`AlikeReads`), so its statements end at
  the code semicolons (`ServerReads`) and are the splitter's segments without those
  that hold no token (`ServerSegments`); a piece cut out by the splitter is one
  statement to PostgreSQL (`ServerOne`), and SQLite's script is what the guard has
  judged (`ServerScriptIs`). With `CommandInv` that is `ScriptGuardSawAll`. Its
  condition is needed: `script_quoted_names` is a text without it.
* The lexers. `LiteralsAre`: the literals a scanner finds are the stretches from a
  stop where something opens to the next stop, so what it leaves is the code stops
  (`OutsideIsCode`), for the classifier in every text and for the editor where no
  comment overlaps. `LiteralParts`: no literal ends in the middle of a word, so a
  keyword alone in the blanked text is alone in the text. It gives
  `ScriptLexersAgree`.

### Only model-checked

Liveness (`EveryJobSettles`, `DestructorReturns`, `UiWaitsForNoQuery`, `BusyEnds`)
needs fairness and ENABLED, which the prover does not have. Every other property
of the passing runs is proved.

## 6. Not modelled

Rendering, layout, themes and measuring of text, the clipboard and the updater:
external calls without state of their own. SQLite, libpq and the Credential
Manager are external, modelled by what the code relies on: a blocking connect,
statements that end by themselves or interrupted, an interrupt that reaches only
a running one, a password kept or not. Of the main window: closing it, several
windows of one process, `WM_QUIT` taken by a modal loop. Of the providers: row
counts, connection strings, the hint `PostgresHba` words about a refused
connection. Of the terminal logic: the command history, three methods over a
list. Of the stores: timestamps, ill-formed JSON other than a truncated file. Of
the grid: what CSV, TSV and JSON look like. Vendored code and build files are
left out.

## 7. Running

    tlc -config session.cfg DatabaseSession.tla
    tlc -config window.cfg TerminalWindow.tla
    tlc -config editor.cfg EditorModelMC.tla
    tlc -config script.cfg ScriptRunMC.tla
    tlc -config stores.cfg StoresMC.tla
    tlc -config grid.cfg ResultsGridMC.tla
    tlc -config tree.cfg SchemaTreeMC.tla
    tlapm SequenceLemmas.tla
    tlapm DatabaseSession_proofs.tla
    tlapm TerminalWindow_proofs.tla
    tlapm SchemaTree_proofs.tla
    tlapm EditorModel_proofs.tla
    tlapm Stores_proofs.tla
    tlapm ResultsGrid_proofs.tla
    tlapm ScriptRun_proofs.tla

`PROJECT.json` names every run, the mutant of the code each property detects,
and the source lines each definition stands for.
