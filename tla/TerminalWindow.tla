--------------------------- MODULE TerminalWindow ---------------------------
(***************************************************************************)
(* One window of src/ui/MainWindow.cpp: the commands that post jobs to its *)
(* DatabaseSession, the handlers of the messages the session's completion  *)
(* callbacks post back, and the nested message loops of its modal dialogs. *)
(* Here a job is taken, run and completed in the coarse steps that         *)
(* ConnectionService allows; DatabaseSession has the fine ones.            *)
(*                                                                         *)
(* A handler runs to its end in one step unless it opens a dialog.  A      *)
(* dialog runs a message loop of its own, in which the window's messages   *)
(* are dispatched again: the handler that opened it waits, as a frame, for *)
(* its dialog to be answered and for every loop above it to end.           *)
(*                                                                         *)
(* Both connections are to Postgres servers, the engine that has .use.     *)
(* The session's cancel() is one step here, so its wait for the server is  *)
(* taken as ending (DatabaseSession has it apart), and a message is always *)
(* posted.                                                                 *)
(***************************************************************************)
EXTENDS Naturals, Sequences

CONSTANTS
  None,          \* "no connection", "no job", "no statement"
  Servers,       \* what the connection dialog can name besides the database
  Dbs,           \* database names
  MaxRequests    \* bound: commands that post a job or open a dialog

Config == [server : Servers, db : Dbs]

\* Statements, by what the guard, the transaction flag and the server tell
\* apart.
Texts == {"select", "drop", "begin", "commit"}
Writes == {"drop"}          \* SqlStatementKind::Write
Destructive == {"drop"}     \* isDestructive

Kinds == {"connect", "execute", "tables"}
\* A job's configuration is the one a connect tries; for a query it is the one
\* last asked for when the query was posted.
Job == [kind : Kinds, text : Texts \cup {None}, config : Config \cup {None}]

ASSUME WindowAssumption ==
  /\ None \notin Config /\ None \notin Job /\ None \notin Texts
  /\ MaxRequests \in Nat

\* WM_APP_CONNECTED, WM_APP_RESULT, WM_APP_TABLES.  ok: connected, or no error.
\* Its configuration is the one the job tried or ran under.
Message == [kind : {"connected", "result", "tables"}, ok : BOOLEAN,
            text : Texts \cup {None}, config : Config \cup {None}]

\* A handler waiting for its dialog.
Frame == [kind : {"confirm", "open", "info", "error"},
          text : Texts \cup {None}, answer : {"none", "yes", "no"}]

VARIABLES
  \* DatabaseSession and the server behind it
  jobs,             \* posted, not begun
  running,          \* the job being run, or None
  provider,         \* the configuration connected to, or None
  serverTxn,        \* the connection has a transaction open
  interrupted,      \* the running statement has been told to stop
  \* AppState
  busy, cancelRequested, inTransaction, readOnly,
  current,          \* currentConnection
  pending,          \* pendingConn
  lastRun,          \* lastRunStatements
  tree,             \* the configuration whose tables the tree shows, or None
  recents,          \* what was recorded in the recent connections
  \* The UI thread's message loops
  inbox,            \* messages posted and not dispatched, oldest first
  frames,           \* handlers waiting for a dialog, innermost first
  enabled,          \* the window is enabled
  \* History
  requests,         \* how many bounded commands were given
  reached,          \* the configurations a connect has succeeded for
  reentered         \* the window was enabled while a dialog was still open

session == <<jobs, running, provider, serverTxn, interrupted>>
app == <<busy, cancelRequested, inTransaction, readOnly, current, pending,
         lastRun, tree, recents>>
loops == <<inbox, frames, enabled>>
vars == <<jobs, running, provider, serverTxn, interrupted, busy,
          cancelRequested, inTransaction, readOnly, current, pending, lastRun,
          tree, recents, inbox, frames, enabled, requests, reached, reentered>>

Init ==
  /\ jobs = <<>>
  /\ running = None
  /\ provider = None
  /\ serverTxn = FALSE
  /\ interrupted = FALSE
  /\ busy = FALSE
  /\ cancelRequested = FALSE
  /\ inTransaction = FALSE
  /\ readOnly = FALSE
  /\ current = None
  /\ pending = None
  /\ lastRun = None
  /\ tree = None
  /\ recents = {}
  /\ inbox = <<>>
  /\ frames = <<>>
  /\ enabled = TRUE
  /\ requests = 0
  /\ reached = {}
  /\ reentered = FALSE

-----------------------------------------------------------------------------
(* What the handlers call.                                                 *)

\* The innermost dialog has been answered: its loop ends before it dispatches
\* anything more.
TopAnswered == frames # <<>> /\ Head(frames).answer # "none"

\* A command of the window can be given.
UserFree == enabled /\ ~TopAnswered

Request == requests < MaxRequests /\ requests' = requests + 1

\* session.isConnected().
IsConnected == provider # None

\* session.connectAsync(c, ...), with c made the pending connection.
Connect(c) ==
  /\ pending' = c
  /\ jobs' = Append(jobs, [kind |-> "connect", text |-> None, config |-> c])

\* The end of guardAndRun, and startExecute.
StartExecute(text) ==
  /\ lastRun' = text
  /\ busy' = TRUE
  /\ cancelRequested' = FALSE
  /\ jobs' = Append(jobs, [kind |-> "execute", text |-> text,
                           config |-> pending])

\* Mutant of OpenDialog: the owner window is left enabled.
OpenDialogModeless(kind, text) ==
  /\ frames' = <<[kind |-> kind, text |-> text, answer |-> "none"]>> \o frames
  /\ UNCHANGED enabled

\* A dialog disables its owner and runs its loop.
OpenDialog(kind, text) ==
  /\ frames' = <<[kind |-> kind, text |-> text, answer |-> "none"]>> \o frames
  /\ enabled' = FALSE

\* fetchTablesAsync.
FetchTables ==
  jobs' = IF IsConnected
            THEN Append(jobs, [kind |-> "tables", text |-> None,
                               config |-> pending])
            ELSE jobs

-----------------------------------------------------------------------------
(* Commands of the user (WM_COMMAND).                                      *)

\* Mutant of Runnable: runText no longer looks at busy.
RunnableWhileBusy == UserFree /\ IsConnected

\* The checks of runText.
Runnable == UserFree /\ IsConnected /\ ~busy

\* runText and guardAndRun for SQL: what read-only mode blocks only sets the
\* status line; a destructive statement waits for confirmation.
Run(text) ==
  /\ Runnable
  /\ ~(readOnly /\ text \in Writes)
  /\ Request
  /\ IF text \in Destructive
       THEN /\ OpenDialog("confirm", text)
            /\ UNCHANGED <<jobs, lastRun, busy, cancelRequested>>
       ELSE /\ StartExecute(text)
            /\ UNCHANGED <<frames, enabled>>
  /\ UNCHANGED <<running, provider, serverTxn, interrupted, inTransaction,
                 readOnly, current, pending, tree, recents, inbox, reached,
                 reentered>>

\* Mutant of Reconnect: .use is taken before any connection was applied.
ReconnectUnapplied(db) ==
  /\ Runnable
  /\ Request
  /\ Connect(IF current = None THEN None ELSE [current EXCEPT !.db = db])
  /\ UNCHANGED <<running, provider, serverTxn, interrupted, busy,
                 cancelRequested, inTransaction, readOnly, current, lastRun,
                 tree, recents, inbox, frames, enabled, reached, reentered>>

\* .use db: understood once a Postgres connection has been applied.
Reconnect(db) ==
  /\ Runnable
  /\ current # None
  /\ Request
  /\ Connect([current EXCEPT !.db = db])
  /\ UNCHANGED <<running, provider, serverTxn, interrupted, busy,
                 cancelRequested, inTransaction, readOnly, current, lastRun,
                 tree, recents, inbox, frames, enabled, reached, reentered>>

\* doOpen up to the connection dialog; or any dialog that only informs.
Open ==
  /\ UserFree
  /\ Request
  /\ \/ ~busy /\ OpenDialog("open", None)
     \/ OpenDialog("info", None)
  /\ UNCHANGED <<inbox, reached, reentered>>
  /\ UNCHANGED session
  /\ UNCHANGED app

\* doCancel.  The session interrupts the statement that is running, if one is:
\* an execute or tables job may stand before, in, between or after its
\* statements.  What BusyEnds says therefore assumes that PQcancel returns.
Cancel ==
  /\ UserFree
  /\ busy
  /\ cancelRequested' = TRUE
  /\ interrupted' \in
       {interrupted,
        running # None /\ running.kind # "connect" /\ provider # None}
  /\ UNCHANGED <<jobs, running, provider, serverTxn, busy, inTransaction,
                 readOnly, current, pending, lastRun, tree, recents, requests,
                 reached, reentered>>
  /\ UNCHANGED loops

ToggleReadOnly ==
  /\ UserFree
  /\ readOnly' = ~readOnly
  /\ UNCHANGED <<jobs, running, provider, serverTxn, interrupted, busy,
                 cancelRequested, inTransaction, current, pending, lastRun,
                 tree, recents, requests, reached, reentered>>
  /\ UNCHANGED loops

RefreshSchema ==
  /\ UserFree
  /\ IsConnected
  /\ Request
  /\ FetchTables
  /\ UNCHANGED <<running, provider, serverTxn, interrupted, reached, reentered>>
  /\ UNCHANGED app
  /\ UNCHANGED loops

-----------------------------------------------------------------------------
(* Dialogs.                                                                *)

Answers(kind) == IF kind \in {"confirm", "open"} THEN {"yes", "no"} ELSE {"no"}

\* A button of any open dialog: dialogs disable the window, not each other.
Answer(i) ==
  /\ ~TopAnswered
  /\ frames[i].answer = "none"
  /\ \E a \in Answers(frames[i].kind) : frames' = [frames EXCEPT ![i].answer = a]
  /\ UNCHANGED <<inbox, enabled, requests, reached, reentered>>
  /\ UNCHANGED session
  /\ UNCHANGED app

\* What the handler does with the answer: guardAndRun starts the statement
\* that was confirmed, doOpen connects to what was chosen.
Continue(frame) ==
  \/ /\ frame.answer = "no"
     /\ UNCHANGED <<jobs, lastRun, busy, cancelRequested, pending>>
  \/ /\ frame.answer = "yes"
     /\ frame.kind = "confirm"
     /\ StartExecute(frame.text)
     /\ UNCHANGED pending
  \/ /\ frame.answer = "yes"
     /\ frame.kind = "open"
     /\ \E c \in Config : Connect(c)
     /\ UNCHANGED <<lastRun, busy, cancelRequested>>

\* The innermost loop ends, the window is enabled whatever else is open, and
\* the handler goes on.
Return ==
  /\ TopAnswered
  /\ frames' = Tail(frames)
  /\ enabled' = TRUE
  /\ reentered' = (reentered \/ Tail(frames) # <<>>)
  /\ Continue(Head(frames))
  /\ UNCHANGED <<running, provider, serverTxn, interrupted, inTransaction,
                 readOnly, current, tree, recents, inbox, requests, reached>>

-----------------------------------------------------------------------------
(* The session's worker and the server.                                    *)

\* Mutant of Take: the old connection is kept until the new one is made.
TakeKeepsConnection ==
  /\ running = None
  /\ jobs # <<>>
  /\ running' = Head(jobs)
  /\ jobs' = Tail(jobs)
  /\ UNCHANGED <<provider, serverTxn, interrupted, requests, reached,
                 reentered>>
  /\ UNCHANGED app
  /\ UNCHANGED loops

\* A connect job begins by tearing the old connection down.
Take ==
  /\ running = None
  /\ jobs # <<>>
  /\ running' = Head(jobs)
  /\ jobs' = Tail(jobs)
  /\ IF Head(jobs).kind = "connect"
       THEN provider' = None /\ serverTxn' = FALSE
       ELSE UNCHANGED <<provider, serverTxn>>
  /\ UNCHANGED <<interrupted, requests, reached, reentered>>
  /\ UNCHANGED app
  /\ UNCHANGED loops

\* The connect job completes; its callback posts WM_APP_CONNECTED.
ConnectReturns(ok) ==
  /\ running # None
  /\ running.kind = "connect"
  /\ IF ok THEN /\ provider' = running.config
                /\ reached' = reached \cup {running.config}
           ELSE UNCHANGED <<provider, reached>>
  /\ running' = None
  /\ inbox' = Append(inbox, [kind |-> "connected", ok |-> ok, text |-> None,
                             config |-> running.config])
  /\ UNCHANGED <<jobs, serverTxn, interrupted, frames, enabled, requests,
                 reentered>>
  /\ UNCHANGED app

\* The transaction a statement that succeeded leaves open or closes.
AfterStatement(txn, text) ==
  CASE text = "begin" -> TRUE
    [] text = "commit" -> FALSE
    [] OTHER -> txn

\* An execute or tables job completes; its callback posts WM_APP_RESULT or
\* WM_APP_TABLES.  Without a connection it fails; an interrupt may come too
\* late to stop it.
QueryReturns(ok) ==
  /\ running # None
  /\ running.kind # "connect"
  /\ ok => provider # None
  /\ serverTxn' = IF ok THEN AfterStatement(serverTxn, running.text)
                        ELSE serverTxn
  /\ interrupted' = FALSE
  /\ running' = None
  /\ inbox' = Append(inbox,
                [kind |-> IF running.kind = "execute" THEN "result"
                                                      ELSE "tables",
                 ok |-> ok, text |-> running.text, config |-> provider])
  /\ UNCHANGED <<jobs, provider, frames, enabled, requests, reached, reentered>>
  /\ UNCHANGED app

-----------------------------------------------------------------------------
(* Handlers of posted messages.                                            *)

\* Mutant of OnResult: a cancelled query returns before busy is cleared.
OnResultKeepsBusy(m) ==
  /\ busy' = (busy /\ cancelRequested)
  /\ cancelRequested' = FALSE
  /\ inTransaction' = IF cancelRequested
                        THEN inTransaction
                        ELSE AfterStatement(inTransaction, lastRun)
  /\ UNCHANGED <<jobs, current, tree, recents, frames, enabled>>

\* WM_APP_RESULT.  The transaction flag follows what was run, error or not,
\* unless a cancel was asked for.
OnResult(m) ==
  /\ busy' = FALSE
  /\ cancelRequested' = FALSE
  /\ inTransaction' = IF cancelRequested
                        THEN inTransaction
                        ELSE AfterStatement(inTransaction, lastRun)
  /\ UNCHANGED <<jobs, current, tree, recents, frames, enabled>>

\* WM_APP_TABLES: a failed fetch carries no tables, and empties the tree.
OnTables(m) ==
  /\ tree' = IF m.ok THEN m.config ELSE None
  /\ UNCHANGED <<jobs, busy, cancelRequested, inTransaction, current, recents,
                 frames, enabled>>

\* Mutant of OnConnected: the schema tree is not fetched again.
OnConnectedKeepsTree(m) ==
  IF m.ok
    THEN /\ current' = pending
         /\ recents' = recents \cup {pending}
         /\ inTransaction' = FALSE
         /\ UNCHANGED <<jobs, busy, cancelRequested, tree, frames, enabled>>
    ELSE /\ OpenDialog("error", None)
         /\ UNCHANGED <<jobs, busy, cancelRequested, inTransaction, current,
                        tree, recents>>

\* WM_APP_CONNECTED: applyConnectionPersistence of the pending connection and a
\* fetch of the tables, or an error dialog.
OnConnected(m) ==
  IF m.ok
    THEN /\ current' = pending
         /\ recents' = recents \cup {pending}
         /\ inTransaction' = FALSE
         /\ FetchTables
         /\ UNCHANGED <<busy, cancelRequested, tree, frames, enabled>>
    ELSE /\ OpenDialog("error", None)
         /\ UNCHANGED <<jobs, busy, cancelRequested, inTransaction, current,
                        tree, recents>>

\* Whichever loop is innermost dispatches the oldest message.
Dispatch ==
  /\ ~TopAnswered
  /\ inbox # <<>>
  /\ inbox' = Tail(inbox)
  /\ LET m == Head(inbox) IN
       \/ m.kind = "result" /\ OnResult(m)
       \/ m.kind = "tables" /\ OnTables(m)
       \/ m.kind = "connected" /\ OnConnected(m)
  /\ UNCHANGED <<running, provider, serverTxn, interrupted, readOnly, pending,
                 lastRun, requests, reached, reentered>>

-----------------------------------------------------------------------------
UserNext ==
  \/ \E t \in Texts : Run(t)
  \/ \E d \in Dbs : Reconnect(d)
  \/ Open \/ Cancel \/ ToggleReadOnly \/ RefreshSchema
  \/ \E i \in DOMAIN frames : Answer(i)

WorkerNext ==
  \/ Take
  \/ \E ok \in BOOLEAN : ConnectReturns(ok) \/ QueryReturns(ok)

LoopNext == Return \/ Dispatch

Next == UserNext \/ WorkerNext \/ LoopNext

Spec == Init /\ [][Next]_vars

\* The UI thread's loops and the worker go on; a call to the server returns
\* where ServerAnswers is assumed.  The user does as he likes.
FairSpec == Spec /\ WF_vars(LoopNext) /\ WF_vars(Take)

-----------------------------------------------------------------------------
(* Properties.                                                             *)

\* Every variable has its type.
TypeOK ==
  /\ jobs \in Seq(Job)
  /\ \A i \in DOMAIN jobs : jobs[i].kind = "connect" => jobs[i].config \in Config
  /\ running \in Job \cup {None}
  /\ provider \in Config \cup {None}
  /\ {serverTxn, interrupted, busy, cancelRequested, inTransaction, readOnly,
      enabled, reentered} \subseteq BOOLEAN
  /\ {current, pending, tree} \subseteq Config \cup {None}
  /\ lastRun \in Texts \cup {None}
  /\ recents \subseteq Config
  /\ reached \subseteq Config
  /\ inbox \in Seq(Message)
  /\ frames \in Seq(Frame)
  /\ requests \in 0..MaxRequests

\* The places where a statement of the user's can be on its way: queued, being
\* run, or answered by a message not yet handled.
InFlight ==
  {<<"jobs", i>> : i \in {n \in DOMAIN jobs : jobs[n].kind = "execute"}}
    \cup {<<"inbox", i>> : i \in {n \in DOMAIN inbox : inbox[n].kind = "result"}}
    \cup (IF running # None /\ running.kind = "execute"
            THEN {<<"running", 1>>} ELSE {})

Connecting ==
  \/ running # None /\ running.kind = "connect"
  \/ \E i \in DOMAIN jobs : jobs[i].kind = "connect"
  \/ \E i \in DOMAIN inbox : inbox[i].kind = "connected"

\* Nothing is on its way in either direction.
Quiet == jobs = <<>> /\ running = None /\ inbox = <<>>

\* The window says it is busy, or that it is cancelling, only while a
\* statement it started is still to be answered: it can never be left
\* refusing to run anything (runText and doOpen return early on busy).
BusyHasQuery ==
  /\ busy => InFlight # {}
  /\ cancelRequested => busy

\* Unless a dialog was re-entered, busy tells exactly whether a statement is on
\* its way, and there is one at most: nothing runs twice.
SingleFlight ==
  ~reentered =>
    /\ busy <=> InFlight # {}
    /\ \A x, y \in InFlight : x = y

\* Unless a dialog was re-entered, what WM_APP_RESULT tracks transactions by,
\* lastRunStatements, is what the result it handles is the result of.
ResultIsOfLastRun ==
  ~reentered =>
    /\ \A i \in DOMAIN jobs : jobs[i].kind = "execute" => jobs[i].text = lastRun
    /\ \A i \in DOMAIN inbox : inbox[i].kind = "result" => inbox[i].text = lastRun

\* Unless a dialog was re-entered, nothing that writes is started while the
\* window is in read-only mode, though the guard decided before the dialog.
ReadOnlyRespected ==
  [][(Len(jobs') > Len(jobs) /\ ~reentered /\ readOnly)
       => jobs'[Len(jobs')].text \notin Writes]_vars

\* No statement and no schema query runs on another database than the one the
\* user had last asked for when it was posted, even when that connect fails.
RunsWhereAsked ==
  running # None /\ running.kind # "connect" /\ provider # None
    => provider = running.config

\* Once no connect is on its way, the configuration the window shows, and
\* derives the next .use from, is the one it is connected to, however many
\* connects overlapped or failed.
ShowsItsConnection ==
  ~Connecting /\ provider # None => current = provider

\* Once nothing is on its way, the schema tree of a connected window shows that
\* connection's tables or none, never those of an earlier connection.
TreeOfConnection ==
  Quiet /\ provider # None => tree \in {provider, None}

\* If the server answers, a busy window becomes free again, whatever dialogs
\* are open and whether or not the user ever answers them.
ServerAnswers ==
  WF_vars(\E ok \in BOOLEAN : ConnectReturns(ok) \/ QueryReturns(ok))

BusyEnds == ServerAnswers => (busy ~> ~busy)

-----------------------------------------------------------------------------
(* What the documents say and the code does not keep.                      *)

\* "synchronous busy-flag-before-dispatch (prevents double execution)"
\* (PORTING_PLAN.md:119): two statements of the user's are never on their way
\* at once.
NoDoubleExecution == \A x, y \in InFlight : x = y

\* "Pending connect (applied on WM_APP_CONNECTED success)": a configuration is
\* recorded among the recent connections only if connecting to it succeeded.
OnlyConnectedRecorded == recents \subseteq reached
=============================================================================
