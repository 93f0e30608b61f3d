-------------------------- MODULE DatabaseSession --------------------------
(***************************************************************************)
(* src/db/DatabaseSession.{h,cpp}: one worker thread runs connect, execute *)
(* and disconnect jobs from a queue; the UI thread posts jobs, reads the   *)
(* connection's state, interrupts the running query and finally destroys   *)
(* the session.  Steps are as fine as the code's critical sections: taking *)
(* connMutex_, what is done under it, and each blocking provider call are  *)
(* separate steps, so everything the two threads can do in between is      *)
(* explored.                                                               *)
(*                                                                         *)
(* A provider object is named by the id of the connect job that made it.   *)
(***************************************************************************)
EXTENDS Naturals, Sequences

CONSTANTS
  None,           \* a null pointer, and "no job"
  MaxPosts,       \* bound: jobs posted in a behaviour
  MaxStatements   \* bound: statements in one executed script

Kinds == {"connect", "disconnect", "execute", "schema"}
ConnKinds == {"connect", "disconnect"}
Job == [id : Nat, kind : Kinds]

ASSUME NoneAssumption == None \notin Nat \cup Job
ASSUME BoundsAssumption == MaxPosts \in Nat /\ MaxStatements \in Nat

VARIABLES
  jobs,          \* jobs_, oldest first
  stop,          \* stop_
  provider,      \* provider_
  connMutex,     \* who holds connMutex_: "free", "worker" or "ui"
  live,          \* the provider objects allocated and not destroyed
  worker,        \* where the worker thread is
  job,           \* the job it runs, or None
  p,             \* the raw pointer of an execute job
  next,          \* the provider a connect job has made and not yet published
  interrupted,   \* the running statement has been told to stop
  stmts,         \* statements the running script has begun
  ui,            \* where the UI thread is
  posted,        \* how many jobs have been posted (the id of the last one)
  done,          \* the completions so far: job, and the connection it ran under
  asked          \* the job cancel() last found inside p->execute, or None

sharedVars == <<jobs, stop, provider, connMutex, live>>
workerVars == <<worker, job, p, next, interrupted, stmts>>
vars == <<jobs, stop, provider, connMutex, live, worker, job, p, next,
          interrupted, stmts, ui, posted, done, asked>>

WorkerPoints ==
  {"wait", "asleep", "exited",                             \* workerLoop
   "teardown_lock", "teardown", "make", "connect",          \* connectAsync and
   "publish_lock", "publish",                               \* disconnectAsync
   "fetch_lock", "fetch", "execute", "statement",           \* executeAsync
   "callback"}                                              \* done(...)

UiPoints ==
  {"idle", "post_notify", "cancel_lock", "cancel", "cancel_reply",
   "read_lock", "read", "dtor_cancel_lock", "dtor_cancel", "dtor_cancel_reply",
   "dtor_stop", "dtor_notify", "dtor_join", "dtor_lock", "dtor_teardown", "gone"}

\* Where each thread stands when it waits for connMutex_, and where the lock
\* guard lets it go on.
WorkerLockNext == [teardown_lock |-> "teardown", publish_lock |-> "publish",
                   fetch_lock |-> "fetch"]
UiLockNext == [cancel_lock |-> "cancel", read_lock |-> "read",
               dtor_cancel_lock |-> "dtor_cancel", dtor_lock |-> "dtor_teardown"]

\* Inside p->execute(sql): between two statements, or in one.
Executing == worker \in {"execute", "statement"}

Init ==
  /\ jobs = <<>>
  /\ stop = FALSE
  /\ provider = None
  /\ connMutex = "free"
  /\ live = {}
  /\ worker = "wait"
  /\ job = None
  /\ p = None
  /\ next = None
  /\ interrupted = FALSE
  /\ stmts = 0
  /\ ui = "idle"
  /\ posted = 0
  /\ done = <<>>
  /\ asked = None

-----------------------------------------------------------------------------
(* The UI thread.                                                          *)

\* post(): push under queueMutex_, then notify after releasing it.
Post(kind) ==
  /\ ui = "idle"
  /\ posted < MaxPosts
  /\ posted' = posted + 1
  /\ jobs' = Append(jobs, [id |-> posted + 1, kind |-> kind])
  /\ ui' = "post_notify"
  /\ UNCHANGED <<stop, provider, connMutex, live, done, asked>>
  /\ UNCHANGED workerVars

ConnectAsync == Post("connect")
DisconnectAsync == Post("disconnect")
ExecuteAsync == Post("execute")
\* executeUncancellableAsync posts the very job executeAsync posts.
ExecuteUncancellableAsync == Post("schema")

\* Mutant of Wake: the notification is forgotten.
NoWake == UNCHANGED worker

\* notify_one and notify_all alike: there is a single waiter.
Wake == worker' = IF worker = "asleep" THEN "wait" ELSE worker

Notify ==
  /\ ui \in {"post_notify", "dtor_notify"}
  /\ Wake
  /\ ui' = IF ui = "post_notify" THEN "idle" ELSE "dtor_join"
  /\ UNCHANGED <<job, p, next, interrupted, stmts, posted, done, asked>>
  /\ UNCHANGED sharedVars

\* The UI thread enters cancel(), one of isConnected(), isSSLActive() and
\* statusMessage(), or the destructor, whose first act is cancel().
UiCall ==
  /\ ui = "idle"
  /\ ui' \in {"cancel_lock", "read_lock", "dtor_cancel_lock"}
  /\ UNCHANGED <<posted, done, asked>>
  /\ UNCHANGED sharedVars
  /\ UNCHANGED workerVars

UiLock ==
  /\ ui \in DOMAIN UiLockNext
  /\ connMutex = "free"
  /\ connMutex' = "ui"
  /\ ui' = UiLockNext[ui]
  /\ UNCHANGED <<jobs, stop, provider, live, posted, done, asked>>
  /\ UNCHANGED workerVars

\* cancel() lets connMutex_ go and returns, to its caller or to the destructor.
CancelDone ==
  /\ connMutex' = "free"
  /\ ui' = IF ui \in {"cancel", "cancel_reply"} THEN "idle" ELSE "dtor_stop"

\* There is no provider to interrupt.
CancelNothing ==
  /\ ui \in {"cancel", "dtor_cancel"}
  /\ provider = None
  /\ asked' = None
  /\ CancelDone
  /\ UNCHANGED <<jobs, stop, provider, live, posted, done>>
  /\ UNCHANGED workerVars

\* provider_->cancel() under connMutex_.  PQcancel connects to the server, sends
\* it a request and waits until it hangs up.  The request stops the statement
\* that is running when it arrives, if one is; it may also fail to arrive, which
\* nobody looks at.  (sqlite3_interrupt arrives and returns at once.)
Interrupt ==
  /\ ui \in {"cancel", "dtor_cancel"}
  /\ provider # None
  /\ \E arrives \in BOOLEAN :
       /\ interrupted' = (interrupted \/ (arrives /\ worker = "statement"))
       /\ asked' = IF arrives /\ Executing THEN job.id ELSE None
  /\ ui' = IF ui = "cancel" THEN "cancel_reply" ELSE "dtor_cancel_reply"
  /\ UNCHANGED <<worker, job, p, next, stmts, posted, done>>
  /\ UNCHANGED sharedVars

\* The provider's cancel() returns.
CancelReturns ==
  /\ ui \in {"cancel_reply", "dtor_cancel_reply"}
  /\ CancelDone
  /\ UNCHANGED <<jobs, stop, provider, live, posted, done, asked>>
  /\ UNCHANGED workerVars

Read ==
  /\ ui = "read"
  /\ connMutex' = "free"
  /\ ui' = "idle"
  /\ UNCHANGED <<jobs, stop, provider, live, posted, done, asked>>
  /\ UNCHANGED workerVars

DtorStop ==
  /\ ui = "dtor_stop"
  /\ stop' = TRUE
  /\ ui' = "dtor_notify"
  /\ UNCHANGED <<jobs, provider, connMutex, live, posted, done, asked>>
  /\ UNCHANGED workerVars

\* Mutant of DtorJoin: the worker is detached instead of joined.
DtorDetach ==
  /\ ui = "dtor_join"
  /\ ui' = "dtor_lock"
  /\ UNCHANGED <<posted, done, asked>>
  /\ UNCHANGED sharedVars
  /\ UNCHANGED workerVars

DtorJoin ==
  /\ ui = "dtor_join"
  /\ worker = "exited"
  /\ ui' = "dtor_lock"
  /\ UNCHANGED <<posted, done, asked>>
  /\ UNCHANGED sharedVars
  /\ UNCHANGED workerVars

\* Mutant of ResetProvider: the object is destroyed, the pointer kept.
ResetForgetsPointer ==
  /\ live' = live \ {provider}
  /\ UNCHANGED provider

\* What the teardown of provider_ under connMutex_ does, in the destructor and
\* in connect and disconnect jobs.
ResetProvider ==
  /\ live' = live \ {provider}
  /\ provider' = None

DtorTeardown ==
  /\ ui = "dtor_teardown"
  /\ ResetProvider
  /\ connMutex' = "free"
  /\ ui' = "gone"
  /\ UNCHANGED <<jobs, stop, posted, done, asked>>
  /\ UNCHANGED workerVars

-----------------------------------------------------------------------------
(* The worker thread.                                                      *)

\* queueCv_.wait: the predicate is evaluated under queueMutex_.
WaitForWork ==
  /\ worker = "wait"
  /\ ~stop
  /\ jobs = <<>>
  /\ worker' = "asleep"
  /\ UNCHANGED <<job, p, next, interrupted, stmts, ui, posted, done, asked>>
  /\ UNCHANGED sharedVars

\* A condition variable may wake with nothing to report.
SpuriousWake ==
  /\ worker = "asleep"
  /\ worker' = "wait"
  /\ UNCHANGED <<job, p, next, interrupted, stmts, ui, posted, done, asked>>
  /\ UNCHANGED sharedVars

\* Mutant of Exit: the worker only stops once its queue is empty.
ExitWhenDrained ==
  /\ worker = "wait"
  /\ stop
  /\ jobs = <<>>
  /\ worker' = "exited"
  /\ UNCHANGED <<job, p, next, interrupted, stmts, ui, posted, done, asked>>
  /\ UNCHANGED sharedVars

\* Pending jobs are discarded on shutdown.
Exit ==
  /\ worker = "wait"
  /\ stop
  /\ worker' = "exited"
  /\ UNCHANGED <<job, p, next, interrupted, stmts, ui, posted, done, asked>>
  /\ UNCHANGED sharedVars

\* Mutant of Take: the queue is drained at shutdown instead of discarded.
TakeAfterStop ==
  /\ worker = "wait"
  /\ jobs # <<>>
  /\ job' = Head(jobs)
  /\ jobs' = Tail(jobs)
  /\ worker' = IF Head(jobs).kind \in ConnKinds THEN "teardown_lock"
                                                ELSE "fetch_lock"
  /\ UNCHANGED <<stop, provider, connMutex, live, p, next, interrupted, stmts,
                 ui, posted, done, asked>>

Take ==
  /\ worker = "wait"
  /\ ~stop
  /\ jobs # <<>>
  /\ job' = Head(jobs)
  /\ jobs' = Tail(jobs)
  /\ worker' = IF Head(jobs).kind \in ConnKinds THEN "teardown_lock"
                                                ELSE "fetch_lock"
  /\ UNCHANGED <<stop, provider, connMutex, live, p, next, interrupted, stmts,
                 ui, posted, done, asked>>

WorkerLock ==
  /\ worker \in DOMAIN WorkerLockNext
  /\ connMutex = "free"
  /\ connMutex' = "worker"
  /\ worker' = WorkerLockNext[worker]
  /\ UNCHANGED <<jobs, stop, provider, live, job, p, next, interrupted, stmts,
                 ui, posted, done, asked>>

Teardown ==
  /\ worker = "teardown"
  /\ ResetProvider
  /\ connMutex' = "free"
  /\ worker' = IF job.kind = "connect" THEN "make" ELSE "callback"
  /\ UNCHANGED <<jobs, stop, job, p, next, interrupted, stmts, ui, posted,
                 done, asked>>

\* Mutant of MakeProvider: provider_ is assigned before connect() has run.
PublishBeforeConnect ==
  /\ worker = "make"
  /\ next' = job.id
  /\ provider' = job.id
  /\ live' = live \cup {job.id}
  /\ worker' = "connect"
  /\ UNCHANGED <<jobs, stop, connMutex, job, p, interrupted, stmts,
                 ui, posted, done, asked>>

\* makeProvider(config.engine), for the two engines there are.
MakeProvider ==
  /\ worker = "make"
  /\ next' = job.id
  /\ live' = live \cup {job.id}
  /\ worker' = "connect"
  /\ UNCHANGED <<jobs, stop, provider, connMutex, job, p, interrupted, stmts,
                 ui, posted, done, asked>>

\* next->connect(config, error) returns, either way.
ConnectReturns ==
  /\ worker = "connect"
  /\ worker' \in {"publish_lock", "callback"}
  /\ UNCHANGED <<job, p, next, interrupted, stmts, ui, posted, done, asked>>
  /\ UNCHANGED sharedVars

Publish ==
  /\ worker = "publish"
  /\ provider' = next
  /\ next' = None
  /\ connMutex' = "free"
  /\ worker' = "callback"
  /\ UNCHANGED <<jobs, stop, live, job, p, interrupted, stmts, ui, posted,
                 done, asked>>

\* Mutant of Fetch: connMutex_ is still held while execute() runs.
FetchKeepsLock ==
  /\ worker = "fetch"
  /\ p' = provider
  /\ worker' = IF provider = None THEN "callback" ELSE "execute"
  /\ UNCHANGED <<jobs, stop, provider, connMutex, live, job, next, interrupted,
                 stmts, ui, posted, done, asked>>

\* p = provider_.get(); a null p skips execute and fails the job.
Fetch ==
  /\ worker = "fetch"
  /\ p' = provider
  /\ connMutex' = "free"
  /\ worker' = IF provider = None THEN "callback" ELSE "execute"
  /\ UNCHANGED <<jobs, stop, provider, live, job, next, interrupted, stmts, ui,
                 posted, done, asked>>

\* Mutant of BeginStatement: the loop runs one statement past the script's end.
BeginStatementPastEnd ==
  /\ worker = "execute"
  /\ stmts <= MaxStatements
  /\ stmts' = stmts + 1
  /\ worker' = "statement"
  /\ UNCHANGED <<job, p, next, interrupted, ui, posted, done, asked>>
  /\ UNCHANGED sharedVars

\* execute() prepares and steps the script's next statement.
BeginStatement ==
  /\ worker = "execute"
  /\ stmts < MaxStatements
  /\ stmts' = stmts + 1
  /\ worker' = "statement"
  /\ UNCHANGED <<job, p, next, interrupted, ui, posted, done, asked>>
  /\ UNCHANGED sharedVars

\* The statement succeeds (an interrupt may arrive too late to stop it) and
\* the loop goes on, or it fails, by itself or interrupted, and ends the loop.
EndStatement ==
  /\ worker = "statement"
  /\ worker' \in {"execute", "callback"}
  /\ interrupted' = FALSE
  /\ UNCHANGED <<job, p, next, stmts, ui, posted, done, asked>>
  /\ UNCHANGED sharedVars

\* The script has no further statement (it may have none at all).
ExecuteReturns ==
  /\ worker = "execute"
  /\ worker' = "callback"
  /\ UNCHANGED <<job, p, next, interrupted, stmts, ui, posted, done, asked>>
  /\ UNCHANGED sharedVars

\* Mutant of Callback: a provider that failed to connect is never freed.
CallbackLeaksFailed ==
  /\ worker = "callback"
  /\ done' = Append(done, [job |-> job,
                           conn |-> IF job.kind \in ConnKinds THEN provider
                                                              ELSE p])
  /\ job' = None
  /\ p' = None
  /\ next' = None
  /\ stmts' = 0
  /\ worker' = "wait"
  /\ UNCHANGED <<jobs, stop, provider, connMutex, live, interrupted, ui, posted,
                 asked>>

\* done(...) runs and the job object is destroyed, with the provider of a
\* connect that failed.
Callback ==
  /\ worker = "callback"
  /\ done' = Append(done, [job |-> job,
                           conn |-> IF job.kind \in ConnKinds THEN provider
                                                              ELSE p])
  /\ live' = live \ {next}
  /\ job' = None
  /\ p' = None
  /\ next' = None
  /\ stmts' = 0
  /\ worker' = "wait"
  /\ UNCHANGED <<jobs, stop, provider, connMutex, interrupted, ui, posted, asked>>

-----------------------------------------------------------------------------
UiNext ==
  \/ ConnectAsync \/ DisconnectAsync \/ ExecuteAsync
  \/ ExecuteUncancellableAsync
  \/ Notify \/ UiCall \/ UiLock
  \/ CancelNothing \/ Interrupt \/ CancelReturns \/ Read
  \/ DtorStop \/ DtorJoin \/ DtorTeardown

WorkerNext ==
  \/ WaitForWork \/ SpuriousWake \/ Exit \/ Take \/ WorkerLock
  \/ Teardown \/ MakeProvider \/ ConnectReturns \/ Publish
  \/ Fetch \/ BeginStatement \/ EndStatement \/ ExecuteReturns \/ Callback

\* The destroyed session does nothing more: every behaviour may end there.
Finished == ui = "gone" /\ UNCHANGED vars

Next == UiNext \/ WorkerNext \/ Finished

Spec == Init /\ [][Next]_vars

-----------------------------------------------------------------------------
(* Properties.                                                             *)

\* The UI thread is inside a call on the object provider_ points to.
UiInside ==
  ui \in {"cancel", "cancel_reply", "read",
          "dtor_cancel", "dtor_cancel_reply", "dtor_teardown"}

\* Every variable has its type.
TypeOK ==
  /\ jobs \in Seq(Job)
  /\ stop \in BOOLEAN
  /\ provider \in Nat \cup {None}
  /\ connMutex \in {"free", "worker", "ui"}
  /\ live \subseteq Nat
  /\ worker \in WorkerPoints
  /\ job \in Job \cup {None}
  /\ p \in Nat \cup {None}
  /\ next \in Nat \cup {None}
  /\ interrupted \in BOOLEAN
  /\ stmts \in 0..MaxStatements
  /\ ui \in UiPoints
  /\ posted \in 0..MaxPosts
  /\ done \in Seq([job : Job, conn : Nat \cup {None}])
  /\ asked \in Nat \cup {None}

\* No thread ever calls into a destroyed provider: neither the worker through
\* the raw pointer it copied out of provider_ before it let connMutex_ go, nor
\* the UI thread through provider_ ("cancel can never touch a freed handle",
\* DatabaseSession.h:15-17).
NoUseAfterFree ==
  /\ Executing => p \in live
  /\ worker = "connect" => next \in live
  /\ (UiInside \/ worker = "teardown") /\ provider # None => provider \in live

\* connect() and disconnect() write a provider's plain fields: while the
\* worker is in one of them the UI thread is not inside the same object, and
\* the provider being connected is not yet the one cancel() can see.
NoConcurrentMutation ==
  /\ worker = "teardown" => ~UiInside
  /\ worker = "connect" => next # provider

\* Every provider object allocated is reachable from provider_ or from the
\* connect job making it, and the destroyed session leaves none behind.
NoHandleLeak ==
  /\ live \subseteq {provider, next}
  /\ ui = "gone" => live = {}

\* connMutex_ is "held just long enough to read or swap the pointer, NEVER
\* across a blocking execute/connect" (DatabaseSession.h:11-12): the worker holds
\* it nowhere but where it tears provider_ down, publishes it or copies it, and
\* the UI thread nowhere but inside a call on the provider, so never while it
\* joins the worker.  (One of those calls, cancel(), waits for the server with
\* connMutex_ held: see UiNeverBlocks.)
MutexHeldBriefly ==
  /\ connMutex = "worker" => worker \in {"teardown", "publish", "fetch"}
  /\ connMutex = "ui" => UiInside

\* Once the destructor has joined the worker nothing runs on it: no job is
\* taken and no completion callback is called into a window that is gone.
QuietAfterJoin ==
  [][(ui \in {"dtor_lock", "dtor_teardown", "gone"})
       => (UNCHANGED <<jobs, worker, job, done>>)]_vars

\* The session is the abstract service: jobs one at a time in posting order,
\* at most one completion each, the connection changed by no one while a query
\* runs, what is pending at shutdown discarded.
Service == INSTANCE ConnectionService
             WITH accepted <- posted, pending <- jobs, running <- job, conn <- provider,
                  completed <- done, closed <- stop

ImplementsService == Service!ServiceSpec

-----------------------------------------------------------------------------
(* Liveness.                                                               *)

\* Steps of the two threads that nothing outside them can delay.  A call of
\* the UI thread, once made, runs on; making one is the user's choice.
UiStep ==
  Notify \/ UiLock \/ CancelNothing \/ Read \/ DtorStop \/ DtorJoin \/ DtorTeardown

WorkerStep ==
  \/ WaitForWork \/ Exit \/ Take \/ Teardown \/ MakeProvider \/ Publish
  \/ Fetch \/ BeginStatement \/ ExecuteReturns \/ Callback

\* An interrupted statement returns.  (The worker competes for connMutex_ with
\* calls the user may make again and again, each holding it for a pointer read:
\* strong fairness says it is not passed over for ever.)
InterruptedReturns == interrupted /\ EndStatement

FairSpec ==
  /\ Spec
  /\ WF_vars(UiStep)
  /\ WF_vars(WorkerStep)
  /\ SF_vars(WorkerLock)
  /\ WF_vars(InterruptedReturns)

\* The server takes a cancel request and hangs up, and it answers: connect() and
\* every statement return as well.  Assumed only where a property says so.
CancelAnswered == WF_vars(Interrupt) /\ WF_vars(CancelReturns)
ServerAnswers ==
  WF_vars(ConnectReturns) /\ WF_vars(EndStatement) /\ CancelAnswered

UiCallsReturn == ui # "idle" ~> ui \in {"idle", "dtor_join", "gone"}

\* However long the worker stays in connect() or execute(), a call the UI
\* thread makes (other than the destructor's join) returns if the server only
\* takes cancel requests: the window never freezes behind a query.
UiWaitsForNoQuery == CancelAnswered => UiCallsReturn

\* "... so the UI thread is never blocked by disk/network I/O"
\* (DatabaseSession.h:2-3): a call of the UI thread returns whatever the server
\* does.
UiNeverBlocks == UiCallsReturn

\* If the server answers, every posted job completes unless the session is
\* destroyed first: no wakeup of the worker is lost.
EveryJobSettles ==
  ServerAnswers =>
    \A i \in 1..MaxPosts : posted >= i ~> (stop \/ Len(done) >= i)

\* If the server answers, the destructor returns.
DestructorReturns == ServerAnswers => (ui = "dtor_cancel_lock" ~> ui = "gone")

\* "Interrupt any in-flight query so the worker returns promptly, then stop
\* it" (DatabaseSession.cpp:13): if the destructor's cancel() found the worker
\* inside execute(), the join does not wait for a statement of that script
\* that nobody has interrupted.
JoinFindsQueryInterrupted ==
  ui = "dtor_join" /\ worker = "statement" /\ asked = job.id => interrupted
=============================================================================
