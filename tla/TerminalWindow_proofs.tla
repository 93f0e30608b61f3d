----------------------- MODULE TerminalWindow_proofs -----------------------
(***************************************************************************)
(* Proofs about TerminalWindow for any servers, databases and number of    *)
(* commands: its type invariant, the safety properties of a window whose   *)
(* connects, statements and dialogs overlap, and its read-only mode.  Each *)
(* group of properties has an inductive invariant of its own.              *)
(***************************************************************************)
EXTENDS TerminalWindow, SequenceLemmas

-----------------------------------------------------------------------------
(* Types.                                                                  *)

IsConnect(job) == job.kind = "connect"
IsExecute(job) == job.kind = "execute"

\* A connect always has a configuration to try, and as long as its answer has
\* not been handled the window has one pending.
TypeInv ==
  /\ TypeOK
  /\ running # None /\ IsConnect(running) => running.config \in Config
  /\ Connecting => pending # None

-----------------------------------------------------------------------------
(* Statements on their way.                                                *)

ExecuteRuns == running # None /\ IsExecute(running)

\* The three places a statement can be in, one at a time.
AtMostOneStatement ==
  /\ \A i, j \in DOMAIN jobs : IsExecute(jobs[i]) /\ IsExecute(jobs[j]) => i = j
  /\ \A i, j \in DOMAIN inbox :
       inbox[i].kind = "result" /\ inbox[j].kind = "result" => i = j
  /\ \A i \in DOMAIN jobs : IsExecute(jobs[i]) =>
       /\ \A j \in DOMAIN inbox : inbox[j].kind # "result"
       /\ ~ExecuteRuns
  /\ \A j \in DOMAIN inbox : inbox[j].kind = "result" => ~ExecuteRuns

OnItsWay ==
  \/ \E i \in DOMAIN jobs : IsExecute(jobs[i])
  \/ ExecuteRuns
  \/ \E i \in DOMAIN inbox : inbox[i].kind = "result"

\* What is on its way is what was run last.
LastRunInv ==
  /\ \A i \in DOMAIN jobs : IsExecute(jobs[i]) => jobs[i].text = lastRun
  /\ ExecuteRuns => running.text = lastRun
  /\ \A i \in DOMAIN inbox : inbox[i].kind = "result" => inbox[i].text = lastRun

FlightInv ==
  /\ busy => OnItsWay
  /\ cancelRequested => busy
  /\ ~reentered => (OnItsWay => busy) /\ AtMostOneStatement /\ LastRunInv

\* Unless a dialog was re-entered, the window is disabled exactly while a dialog
\* is open, and a destructive statement waits for its confirmation in a window
\* that is not busy and lets it be run.
ModalInv ==
  ~reentered =>
    /\ enabled <=> frames = <<>>
    /\ \A i \in DOMAIN frames : frames[i].kind = "confirm" =>
         ~busy /\ ~(readOnly /\ frames[i].text \in Writes)

StatementInv == FlightInv /\ ModalInv

-----------------------------------------------------------------------------
(* Connections.                                                            *)

\* The worker has no connect left to do.
NoConnectLeft ==
  /\ \A i \in DOMAIN jobs : ~IsConnect(jobs[i])
  /\ running # None => ~IsConnect(running)

\* What was posted after the last connect was posted under what it asks for, and
\* so was that connect.
AskedInv ==
  /\ \A i \in DOMAIN jobs :
       (\A j \in DOMAIN jobs : j > i => ~IsConnect(jobs[j]))
         => jobs[i].config = pending
  /\ running # None /\ (\A j \in DOMAIN jobs : ~IsConnect(jobs[j]))
       => running.config = pending
  /\ provider # None /\ NoConnectLeft => provider = pending

\* A query was posted under what the job before it was posted under.
QueueInv ==
  /\ \A i \in DOMAIN jobs : i > 1 /\ ~IsConnect(jobs[i])
       => jobs[i].config = jobs[i - 1].config
  /\ jobs # <<>> /\ ~IsConnect(jobs[1]) =>
       /\ running # None => jobs[1].config = running.config
       /\ running = None /\ provider # None => jobs[1].config = provider
  /\ running # None /\ IsConnect(running) => provider = None
  /\ RunsWhereAsked

\* The answer of a connect that was made, as yet unhandled.
MadeAt(i) == inbox[i].kind = "connected" /\ inbox[i].ok

\* The window shows its connection, or is about to be told of one.
ShownInv ==
  provider # None /\ NoConnectLeft =>
    current = pending \/ \E i \in DOMAIN inbox : MadeAt(i)

\* The tree is about to be filled: the tables have been asked for, or will be when
\* the window is told of its connection.
RefillDue ==
  \/ \E i \in DOMAIN inbox : MadeAt(i)
  \/ \E i \in DOMAIN jobs : jobs[i].kind = "tables"
  \/ running # None /\ running.kind = "tables"
  \/ \E i \in DOMAIN inbox : inbox[i].kind = "tables"

\* An answer with the tables of an earlier connection comes before that of a later
\* connect.
TablesInOrder ==
  \A i \in DOMAIN inbox : inbox[i].kind = "tables" /\ inbox[i].ok =>
    \/ inbox[i].config = provider
    \/ \E j \in DOMAIN inbox : j > i /\ MadeAt(j)

FetchInv ==
  provider # None /\ NoConnectLeft =>
    /\ tree \in {provider, None} \/ RefillDue
    /\ TablesInOrder

WorkInv == AskedInv /\ QueueInv

ConnectionInv == WorkInv /\ ShownInv /\ FetchInv

IInv == TypeInv /\ StatementInv /\ ConnectionInv

-----------------------------------------------------------------------------
(* Type correctness.                                                       *)

\* A job of the kind the handlers post joins the queue.
LEMMA JobPosted ==
  ASSUME TypeInv, NEW k \in Kinds, NEW t \in Texts \cup {None},
         NEW c \in Config \cup {None}, k = "connect" => c \in Config,
         jobs' = Append(jobs, [kind |-> k, text |-> t, config |-> c])
  PROVE  /\ jobs' \in Seq(Job)
         /\ \A i \in DOMAIN jobs' :
              jobs'[i].kind = "connect" => jobs'[i].config \in Config
         /\ \A i \in DOMAIN jobs' :
              IsConnect(jobs'[i]) => k = "connect" \/ Connecting
  <1> DEFINE e == [kind |-> k, text |-> t, config |-> c]
  <1>1. e \in Job /\ e.kind = k /\ e.config = c
    BY DEF Job
  <1>2. jobs \in Seq(Job) /\ jobs' = Append(jobs, e)
    BY DEF TypeInv, TypeOK
  <1> HIDE DEF e
  <1>3. /\ jobs' \in Seq(Job)
        /\ DOMAIN jobs = 1..Len(jobs)
        /\ Len(jobs) \in Nat
        /\ DOMAIN jobs' = 1..(Len(jobs) + 1)
        /\ \A i \in 1..Len(jobs) : jobs'[i] = jobs[i]
        /\ jobs'[Len(jobs) + 1] = e
    BY <1>1, <1>2, AppendFacts, SeqFacts
  <1>4. \A i \in DOMAIN jobs' : i \in DOMAIN jobs \/ jobs'[i] = e
    BY <1>3
  <1> QED
    BY <1>1, <1>3, <1>4 DEF TypeInv, TypeOK, Connecting, IsConnect

LEMMA TypeInit == Init => TypeInv
  <1> SUFFICES ASSUME Init PROVE TypeInv
    OBVIOUS
  <1>1. /\ jobs \in Seq(Job) /\ DOMAIN jobs = {}
        /\ inbox \in Seq(Message) /\ DOMAIN inbox = {}
        /\ frames \in Seq(Frame)
    BY DEF Init
  <1>2. requests \in 0..MaxRequests
    BY WindowAssumption DEF Init
  <1> QED
    BY <1>1, <1>2 DEF Init, TypeInv, TypeOK, Connecting

\* A dialog's frame joins the others.
LEMMA DialogTyped ==
  ASSUME TypeInv, NEW kind \in {"confirm", "open", "info", "error"},
         NEW text \in Texts \cup {None}, OpenDialog(kind, text)
  PROVE  /\ frames' \in Seq(Frame)
         /\ enabled' \in BOOLEAN
         /\ DOMAIN frames = 1..Len(frames)
         /\ Len(frames) \in Nat
         /\ frames' # <<>>
         /\ DOMAIN frames' = 1..(Len(frames) + 1)
         /\ frames'[1] = [kind |-> kind, text |-> text, answer |-> "none"]
         /\ \A i \in 2..(Len(frames) + 1) : frames'[i] = frames[i - 1]
  <1> DEFINE e == [kind |-> kind, text |-> text, answer |-> "none"]
  <1>1. e \in Frame
    BY DEF Frame
  <1>2. frames \in Seq(Frame) /\ frames' = <<e>> \o frames /\ enabled' = FALSE
    BY DEF TypeInv, TypeOK, OpenDialog
  <1> HIDE DEF e
  <1>3. /\ frames' \in Seq(Frame)
        /\ DOMAIN frames = 1..Len(frames)
        /\ Len(frames) \in Nat
        /\ frames' # <<>>
        /\ DOMAIN frames' = 1..(Len(frames) + 1)
        /\ frames'[1] = e
        /\ \A i \in 2..(Len(frames) + 1) : frames'[i] = frames[i - 1]
    BY <1>1, <1>2, PushFacts, SeqFacts
  <1> QED
    BY <1>2, <1>3 DEF e

LEMMA RunTyped == ASSUME TypeInv, NEW text \in Texts, Run(text) PROVE TypeInv'
  <1> USE WindowAssumption DEF Run, TypeInv, TypeOK, Request
  <1>1. requests' \in 0..MaxRequests
    OBVIOUS
  <1>2. CASE text \in Destructive
    <2>1. frames' \in Seq(Frame)
      BY <1>2, DialogTyped
    <2> QED
      BY <1>1, <1>2, <2>1 DEF OpenDialog, Connecting
  <1>3. CASE text \notin Destructive
    <2>1. jobs' = Append(jobs, [kind |-> "execute", text |-> text, config |-> pending])
      BY <1>3 DEF StartExecute
    <2>2. /\ jobs' \in Seq(Job)
          /\ \A i \in DOMAIN jobs' :
               jobs'[i].kind = "connect" => jobs'[i].config \in Config
          /\ \A i \in DOMAIN jobs' : IsConnect(jobs'[i]) => Connecting
      BY <2>1, JobPosted DEF Kinds
    <2> QED
      BY <1>1, <1>3, <2>2 DEF StartExecute, Connecting, IsConnect
  <1> QED
    BY <1>2, <1>3

LEMMA ConnectTyped ==
  ASSUME TypeInv, NEW c \in Config, Connect(c)
  PROVE  /\ pending' \in Config
         /\ jobs' \in Seq(Job)
         /\ \A i \in DOMAIN jobs' :
              jobs'[i].kind = "connect" => jobs'[i].config \in Config
  BY JobPosted DEF Connect, Kinds

LEMMA StartTyped ==
  ASSUME TypeInv, NEW text \in Texts \cup {None}, StartExecute(text)
  PROVE  /\ jobs' \in Seq(Job)
         /\ \A i \in DOMAIN jobs' :
              jobs'[i].kind = "connect" => jobs'[i].config \in Config
         /\ \A i \in DOMAIN jobs' : IsConnect(jobs'[i]) => Connecting
  <1>1. pending \in Config \cup {None}
    BY DEF TypeInv, TypeOK
  <1> QED
    BY <1>1, JobPosted DEF StartExecute, Kinds

LEMMA FetchTyped ==
  ASSUME TypeInv, FetchTables
  PROVE  /\ jobs' \in Seq(Job)
         /\ \A i \in DOMAIN jobs' :
              jobs'[i].kind = "connect" => jobs'[i].config \in Config
         /\ \A i \in DOMAIN jobs' : IsConnect(jobs'[i]) => Connecting
  <1>1. pending \in Config \cup {None}
    BY DEF TypeInv, TypeOK
  <1>2. CASE jobs' = jobs
    BY <1>2 DEF TypeInv, TypeOK, Connecting, IsConnect
  <1>3. CASE jobs' = Append(jobs, [kind |-> "tables", text |-> None, config |-> pending])
    BY <1>1, <1>3, JobPosted DEF Kinds
  <1> QED
    BY <1>2, <1>3 DEF FetchTables

\* A message joins the others; it answers a connect only after one was asked for.
LEMMA MessagePosted ==
  ASSUME TypeInv, NEW m \in Message, inbox' = Append(inbox, m)
  PROVE  /\ inbox' \in Seq(Message)
         /\ \A i \in DOMAIN inbox' :
              inbox'[i].kind = "connected" => m.kind = "connected" \/ Connecting
  <1>1. /\ inbox' \in Seq(Message)
        /\ DOMAIN inbox = 1..Len(inbox)
        /\ Len(inbox) \in Nat
        /\ DOMAIN inbox' = 1..(Len(inbox) + 1)
        /\ \A i \in 1..Len(inbox) : inbox'[i] = inbox[i]
        /\ inbox'[Len(inbox) + 1] = m
    BY AppendFacts, SeqFacts DEF TypeInv, TypeOK
  <1>2. \A i \in DOMAIN inbox' : i \in DOMAIN inbox \/ inbox'[i] = m
    BY <1>1
  <1> QED
    BY <1>1, <1>2 DEF Connecting

\* Every step of the user's keeps the types.
LEMMA UserTyped == TypeInv /\ UserNext => TypeInv'
  <1> SUFFICES ASSUME TypeInv, UserNext PROVE TypeInv'
    OBVIOUS
  <1>1. ASSUME NEW t \in Texts, Run(t) PROVE TypeInv'
    BY <1>1, RunTyped
  <1>2. ASSUME NEW d \in Dbs, Reconnect(d) PROVE TypeInv'
    <2>1. current \in Config
      BY <1>2 DEF Reconnect, TypeInv, TypeOK
    <2>2. [current EXCEPT !.db = d] \in Config
      BY <2>1 DEF Config
    <2>3. /\ pending' \in Config
          /\ jobs' \in Seq(Job)
          /\ \A i \in DOMAIN jobs' :
               jobs'[i].kind = "connect" => jobs'[i].config \in Config
      BY <1>2, <2>2, ConnectTyped DEF Reconnect
    <2>4. requests' \in 0..MaxRequests
      BY <1>2, WindowAssumption DEF Reconnect, Request, TypeInv, TypeOK
    <2> QED
      BY <1>2, <2>3, <2>4, WindowAssumption DEF Reconnect, TypeInv, TypeOK, Connecting
  <1>3. CASE Open
    <2>1. frames' \in Seq(Frame) /\ enabled' \in BOOLEAN
      BY <1>3, DialogTyped DEF Open
    <2>2. requests' \in 0..MaxRequests
      BY <1>3, WindowAssumption DEF Open, Request, TypeInv, TypeOK
    <2> QED
      BY <1>3, <2>1, <2>2 DEF Open, session, app, TypeInv, TypeOK, Connecting
  <1>4. CASE Cancel
    BY <1>4 DEF Cancel, loops, TypeInv, TypeOK, Connecting
  <1>5. CASE ToggleReadOnly
    BY <1>5 DEF ToggleReadOnly, loops, TypeInv, TypeOK, Connecting
  <1>6. CASE RefreshSchema
    <2>1. requests' \in 0..MaxRequests
      BY <1>6, WindowAssumption DEF RefreshSchema, Request, TypeInv, TypeOK
    <2>2. /\ jobs' \in Seq(Job)
          /\ \A i \in DOMAIN jobs' :
               jobs'[i].kind = "connect" => jobs'[i].config \in Config
          /\ \A i \in DOMAIN jobs' : IsConnect(jobs'[i]) => Connecting
      BY <1>6, FetchTyped DEF RefreshSchema
    <2> QED
      BY <1>6, <2>1, <2>2 DEF RefreshSchema, app, loops, TypeInv, TypeOK, Connecting, IsConnect
  <1>7. ASSUME NEW i \in DOMAIN frames, Answer(i) PROVE TypeInv'
    <2>1. PICK a \in Answers(frames[i].kind) : frames' = [frames EXCEPT ![i].answer = a]
      BY <1>7 DEF Answer
    <2>2. a \in {"yes", "no"}
      BY <2>1 DEF Answers
    <2>3. frames \in Seq(Frame) /\ frames[i] \in Frame
      BY <1>7, SeqFacts DEF TypeInv, TypeOK
    <2>4. [frames[i] EXCEPT !.answer = a] \in Frame
      BY <2>2, <2>3 DEF Frame
    <2>5. frames' \in Seq(Frame)
      BY <1>7, <2>1, <2>3, <2>4
    <2> QED
      BY <1>7, <2>5 DEF Answer, session, app, TypeInv, TypeOK, Connecting
  <1> QED
    BY <1>1, <1>2, <1>3, <1>4, <1>5, <1>6, <1>7 DEF UserNext

LEMMA ReturnTyped == TypeInv /\ Return => TypeInv'
  <1> SUFFICES ASSUME TypeInv, Return PROVE TypeInv'
    OBVIOUS
  <1>1. /\ frames \in Seq(Frame) /\ frames # <<>>
        /\ Head(frames) \in Frame
        /\ frames' \in Seq(Frame)
    BY TailFacts DEF Return, TopAnswered, TypeInv, TypeOK
  <1>2. enabled' \in BOOLEAN /\ reentered' \in BOOLEAN
    BY DEF Return
  <1>3. UNCHANGED <<running, provider, serverTxn, interrupted, inTransaction,
                    readOnly, current, tree, recents, inbox, requests, reached>>
    BY DEF Return
  <1>4. CASE UNCHANGED <<jobs, lastRun, busy, cancelRequested, pending>>
    BY <1>1, <1>2, <1>3, <1>4 DEF TypeInv, TypeOK, Connecting
  <1>5. CASE /\ Head(frames).answer = "yes" /\ Head(frames).kind = "confirm"
             /\ StartExecute(Head(frames).text) /\ UNCHANGED pending
    <2>0. Head(frames).text \in Texts \cup {None}
      BY <1>1 DEF Frame
    <2>1. /\ jobs' \in Seq(Job)
          /\ \A i \in DOMAIN jobs' :
               jobs'[i].kind = "connect" => jobs'[i].config \in Config
          /\ \A i \in DOMAIN jobs' : IsConnect(jobs'[i]) => Connecting
      BY <1>5, <2>0, StartTyped
    <2>2. /\ lastRun' \in Texts \cup {None}
          /\ busy' \in BOOLEAN /\ cancelRequested' \in BOOLEAN
      BY <1>5, <2>0 DEF StartExecute
    <2> QED
      BY <1>1, <1>2, <1>3, <1>5, <2>1, <2>2 DEF TypeInv, TypeOK, Connecting, IsConnect
  <1>6. ASSUME NEW c \in Config, Connect(c), UNCHANGED <<lastRun, busy, cancelRequested>>
        PROVE  TypeInv'
    <2>1. /\ pending' \in Config
          /\ jobs' \in Seq(Job)
          /\ \A i \in DOMAIN jobs' :
               jobs'[i].kind = "connect" => jobs'[i].config \in Config
      BY <1>6, ConnectTyped
    <2> QED
      BY <1>1, <1>2, <1>3, <1>6, <2>1, WindowAssumption DEF TypeInv, TypeOK, Connecting
  <1> QED
    BY <1>1, <1>4, <1>5, <1>6 DEF Return, Continue

LEMMA WorkerTyped == TypeInv /\ WorkerNext => TypeInv'
  <1> SUFFICES ASSUME TypeInv, WorkerNext PROVE TypeInv'
    OBVIOUS
  <1>1. CASE Take
    <2>1. /\ jobs # <<>> /\ running' = Head(jobs) /\ jobs' = Tail(jobs)
          /\ Len(jobs) \in Nat \ {0} /\ DOMAIN jobs = 1..Len(jobs)
          /\ Head(jobs) = jobs[1] /\ Head(jobs) \in Job
          /\ Tail(jobs) \in Seq(Job)
          /\ DOMAIN Tail(jobs) = 1..(Len(jobs) - 1)
          /\ \A i \in 1..(Len(jobs) - 1) : Tail(jobs)[i] = jobs[i + 1]
      BY <1>1, TailFacts, SeqFacts DEF Take, TypeInv, TypeOK
    <2>2. 1 \in DOMAIN jobs /\ \A i \in DOMAIN jobs' : i + 1 \in DOMAIN jobs
      BY <2>1
    <2>3. \A i \in DOMAIN jobs' : jobs'[i] = jobs[i + 1]
      BY <2>1
    <2>4. \A i \in DOMAIN jobs' : jobs'[i].kind = "connect" =>
            jobs'[i].config \in Config /\ Connecting
      BY <2>2, <2>3 DEF TypeInv, TypeOK, Connecting
    <2>5. running'.kind = "connect" => running'.config \in Config /\ Connecting
      BY <2>1, <2>2 DEF TypeInv, TypeOK, Connecting
    <2>6. provider' \in Config \cup {None} /\ serverTxn' \in BOOLEAN
      BY <1>1 DEF Take, TypeInv, TypeOK
    <2> QED
      BY <1>1, <2>1, <2>4, <2>5, <2>6 DEF Take, app, loops, TypeInv, TypeOK, Connecting, IsConnect
  <1>2. ASSUME NEW ok \in BOOLEAN, ConnectReturns(ok) PROVE TypeInv'
    <2> DEFINE m == [kind |-> "connected", ok |-> ok, text |-> None, config |-> running.config]
    <2>1. Connecting /\ running.config \in Config
      BY <1>2 DEF ConnectReturns, Connecting, TypeInv, IsConnect
    <2>2. m \in Message
      BY <2>1 DEF Message
    <2>3. inbox' = Append(inbox, m)
      BY <1>2 DEF ConnectReturns
    <2> HIDE DEF m
    <2>4. inbox' \in Seq(Message)
      BY <2>2, <2>3, MessagePosted
    <2>5. provider' \in Config \cup {None} /\ reached' \subseteq Config
      BY <1>2, <2>1 DEF ConnectReturns, TypeInv, TypeOK
    <2> QED
      BY <1>2, <2>1, <2>4, <2>5 DEF ConnectReturns, app, TypeInv, TypeOK
  <1>3. ASSUME NEW ok \in BOOLEAN, QueryReturns(ok) PROVE TypeInv'
    <2> DEFINE m == [kind |-> IF running.kind = "execute" THEN "result" ELSE "tables",
                     ok |-> ok, text |-> running.text, config |-> provider]
    <2>1. running \in Job /\ provider \in Config \cup {None}
      BY <1>3 DEF QueryReturns, TypeInv, TypeOK
    <2>2. m \in Message /\ m.kind # "connected"
      BY <2>1 DEF Message, Job
    <2>3. inbox' = Append(inbox, m)
      BY <1>3 DEF QueryReturns
    <2> HIDE DEF m
    <2>4. /\ inbox' \in Seq(Message)
          /\ \A i \in DOMAIN inbox' : inbox'[i].kind = "connected" => Connecting
      BY <2>2, <2>3, MessagePosted
    <2>5. serverTxn' \in BOOLEAN
      BY <1>3 DEF QueryReturns, AfterStatement, TypeInv, TypeOK
    <2> QED
      BY <1>3, <2>4, <2>5 DEF QueryReturns, app, TypeInv, TypeOK, Connecting
  <1> QED
    BY <1>1, <1>2, <1>3 DEF WorkerNext

\* Taking the oldest message from the inbox.
LEMMA MessageTaken ==
  ASSUME TypeInv, Dispatch
  PROVE  /\ Head(inbox) = inbox[1]
         /\ Head(inbox) \in Message
         /\ Len(inbox) \in Nat \ {0}
         /\ DOMAIN inbox = 1..Len(inbox)
         /\ inbox' \in Seq(Message)
         /\ DOMAIN inbox' = 1..(Len(inbox) - 1)
         /\ \A i \in DOMAIN inbox' : i + 1 \in DOMAIN inbox /\ inbox'[i] = inbox[i + 1]
  <1>1. /\ inbox \in Seq(Message) /\ inbox # <<>> /\ inbox' = Tail(inbox)
    BY DEF Dispatch, TypeInv, TypeOK
  <1>2. /\ Head(inbox) = inbox[1]
        /\ Head(inbox) \in Message
        /\ Len(inbox) \in Nat \ {0}
        /\ DOMAIN inbox = 1..Len(inbox)
        /\ inbox' \in Seq(Message)
        /\ DOMAIN inbox' = 1..(Len(inbox) - 1)
        /\ \A i \in 1..(Len(inbox) - 1) : inbox'[i] = inbox[i + 1]
    BY <1>1, TailFacts, SeqFacts
  <1> QED
    BY <1>2

LEMMA DispatchTyped == TypeInv /\ Dispatch => TypeInv'
  <1> SUFFICES ASSUME TypeInv, Dispatch PROVE TypeInv'
    OBVIOUS
  <1> DEFINE m == Head(inbox)
  <1>1. m \in Message /\ inbox' \in Seq(Message) /\ 1 \in DOMAIN inbox /\ m = inbox[1]
    BY MessageTaken
  <1>2. \A i \in DOMAIN inbox' : inbox'[i].kind = "connected" => Connecting
    BY MessageTaken DEF Connecting
  <1>3. UNCHANGED <<running, provider, serverTxn, interrupted, readOnly, pending,
                    lastRun, requests, reached, reentered>>
    BY DEF Dispatch
  <1>4. m.kind = "connected" => pending \in Config
    BY <1>1 DEF TypeInv, TypeOK, Connecting
  <1> HIDE DEF m
  <1>5. CASE OnResult(m)
    <2>1. inTransaction' \in BOOLEAN
      BY <1>5 DEF OnResult, AfterStatement, TypeInv, TypeOK
    <2> QED
      BY <1>1, <1>2, <1>3, <1>5, <2>1 DEF OnResult, TypeInv, TypeOK, Connecting
  <1>6. CASE OnTables(m)
    <2>1. tree' \in Config \cup {None}
      BY <1>1, <1>6 DEF OnTables, Message
    <2> QED
      BY <1>1, <1>2, <1>3, <1>6, <2>1 DEF OnTables, TypeInv, TypeOK, Connecting
  <1>7. CASE m.kind = "connected" /\ m.ok /\ OnConnected(m)
    <2>1. FetchTables
      BY <1>7 DEF OnConnected
    <2>2. /\ jobs' \in Seq(Job)
          /\ \A i \in DOMAIN jobs' :
               jobs'[i].kind = "connect" => jobs'[i].config \in Config
          /\ \A i \in DOMAIN jobs' : IsConnect(jobs'[i]) => Connecting
      BY <2>1, FetchTyped
    <2> QED
      BY <1>1, <1>2, <1>3, <1>4, <1>7, <2>2 DEF OnConnected, TypeInv, TypeOK, Connecting, IsConnect
  <1>8. CASE m.kind = "connected" /\ ~m.ok /\ OnConnected(m)
    <2>1. frames' \in Seq(Frame) /\ enabled' \in BOOLEAN
      BY <1>8, DialogTyped DEF OnConnected
    <2> QED
      BY <1>1, <1>2, <1>3, <1>8, <2>1 DEF OnConnected, TypeInv, TypeOK, Connecting
  <1> QED
    BY <1>5, <1>6, <1>7, <1>8 DEF Dispatch, m

LEMMA TypeStep == TypeInv /\ [Next]_vars => TypeInv'
  <1>1. TypeInv /\ UNCHANGED vars => TypeInv'
    BY DEF vars, TypeInv, TypeOK, Connecting
  <1> QED
    BY <1>1, UserTyped, WorkerTyped, ReturnTyped, DispatchTyped DEF Next, LoopNext

\* Every variable of the window and its session has its type, and a connect's
\* configuration is known wherever it is used, for any servers and databases.
THEOREM WindowTypeCorrect == Spec => []TypeOK
  <1>1. TypeInv => TypeOK
    BY DEF TypeInv
  <1> QED
    BY <1>1, TypeInit, TypeStep, PTL DEF Spec

-----------------------------------------------------------------------------
(* Statements on their way.                                                *)

\* The set of places is empty exactly when no place holds a statement, and has
\* one element at most when one place does.
LEMMA FlightPlaces ==
  /\ InFlight # {} <=> OnItsWay
  /\ AtMostOneStatement => \A x, y \in InFlight : x = y
  <1>1. InFlight # {} <=> OnItsWay
    BY DEF InFlight, OnItsWay, ExecuteRuns, IsExecute
  <1>2. ASSUME AtMostOneStatement, NEW x \in InFlight, NEW y \in InFlight
        PROVE  x = y
    <2>1. ASSUME NEW z \in InFlight
          PROVE  \/ \E i \in DOMAIN jobs : IsExecute(jobs[i]) /\ z = <<"jobs", i>>
                 \/ \E i \in DOMAIN inbox : inbox[i].kind = "result" /\ z = <<"inbox", i>>
                 \/ ExecuteRuns /\ z = <<"running", 1>>
      BY DEF InFlight, ExecuteRuns, IsExecute
    <2> QED
      BY <1>2, <2>1 DEF AtMostOneStatement
  <1> QED
    BY <1>1, <1>2

\* A step that only adds jobs other than statements, and handles only messages
\* other than results, leaves every statement where it is.
LEMMA StatementsStay ==
  ASSUME FlightInv, reentered => reentered',
         UNCHANGED <<running, busy, lastRun>>,
         cancelRequested' => cancelRequested \/ busy,
         DOMAIN jobs \subseteq DOMAIN jobs',
         \A i \in DOMAIN jobs : jobs'[i] = jobs[i],
         \A i \in DOMAIN jobs' : i \notin DOMAIN jobs => ~IsExecute(jobs'[i]),
         \/ inbox' = inbox
         \/ /\ DOMAIN inbox \subseteq Int
            /\ \A i \in DOMAIN inbox' : i + 1 \in DOMAIN inbox /\ inbox'[i] = inbox[i + 1]
            /\ \A i \in DOMAIN inbox : i = 1 \/ i - 1 \in DOMAIN inbox'
            /\ inbox[1].kind # "result" /\ DOMAIN inbox' \subseteq Int
  PROVE  FlightInv'
  <1>1. ASSUME NEW i \in DOMAIN jobs', IsExecute(jobs'[i])
        PROVE  i \in DOMAIN jobs /\ IsExecute(jobs[i]) /\ jobs'[i] = jobs[i]
    BY <1>1
  <1>2. ASSUME NEW i \in DOMAIN jobs, IsExecute(jobs[i])
        PROVE  i \in DOMAIN jobs' /\ IsExecute(jobs'[i])
    BY <1>2
  <1>3. ExecuteRuns' <=> ExecuteRuns
    BY DEF ExecuteRuns, IsExecute
  <1>4. CASE inbox' = inbox
    BY <1>1, <1>2, <1>3, <1>4 DEF FlightInv, OnItsWay, AtMostOneStatement, LastRunInv
  <1>5. CASE inbox' # inbox
    <2>1. ASSUME NEW i \in DOMAIN inbox, inbox[i].kind = "result"
          PROVE  i - 1 \in DOMAIN inbox' /\ inbox'[i - 1] = inbox[i]
      BY <1>5, <2>1
    <2>2. OnItsWay' <=> OnItsWay
      BY <1>1, <1>2, <1>3, <1>5, <2>1 DEF OnItsWay
    <2>3. AtMostOneStatement => AtMostOneStatement'
      BY <1>1, <1>3, <1>5 DEF AtMostOneStatement
    <2>4. LastRunInv => LastRunInv'
      BY <1>1, <1>3, <1>5 DEF LastRunInv, ExecuteRuns
    <2> QED
      BY <2>2, <2>3, <2>4 DEF FlightInv
  <1> QED
    BY <1>4, <1>5

\* What a job added to the queue does to it.
LEMMA JobsAppended ==
  ASSUME TypeInv, NEW k \in Kinds, NEW t \in Texts \cup {None},
         NEW c \in Config \cup {None},
         jobs' = Append(jobs, [kind |-> k, text |-> t, config |-> c])
  PROVE  /\ Len(jobs) \in Nat /\ Len(jobs') = Len(jobs) + 1
         /\ DOMAIN jobs = 1..Len(jobs)
         /\ DOMAIN jobs' = 1..(Len(jobs) + 1)
         /\ \A i \in DOMAIN jobs : jobs'[i] = jobs[i]
         /\ jobs'[Len(jobs) + 1] = [kind |-> k, text |-> t, config |-> c]
         /\ \A i \in DOMAIN jobs' : i \in DOMAIN jobs \/ i = Len(jobs) + 1
  <1> DEFINE e == [kind |-> k, text |-> t, config |-> c]
  <1>1. e \in Job
    BY DEF Job
  <1> HIDE DEF e
  <1>2. jobs \in Seq(Job)
    BY DEF TypeInv, TypeOK
  <1>3. jobs' = Append(jobs, e)
    BY DEF e
  <1>4. /\ Len(jobs) \in Nat /\ Len(jobs') = Len(jobs) + 1
        /\ DOMAIN jobs = 1..Len(jobs)
        /\ DOMAIN jobs' = 1..(Len(jobs) + 1)
        /\ \A i \in 1..Len(jobs) : jobs'[i] = jobs[i]
        /\ jobs'[Len(jobs) + 1] = e
    BY <1>1, <1>2, <1>3, AppendFacts, SeqFacts
  <1>5. \A i \in DOMAIN jobs' : i \in DOMAIN jobs \/ i = Len(jobs) + 1
    BY <1>4
  <1> QED
    BY <1>4, <1>5 DEF e

\* A connect or a fetch of the tables is posted, if anything.
LEMMA OtherJobPosted ==
  ASSUME TypeInv, FetchTables \/ \E c \in Config : Connect(c)
  PROVE  /\ DOMAIN jobs \subseteq DOMAIN jobs'
         /\ \A i \in DOMAIN jobs : jobs'[i] = jobs[i]
         /\ \A i \in DOMAIN jobs' : i \notin DOMAIN jobs => ~IsExecute(jobs'[i])
         /\ Len(jobs') > Len(jobs) => jobs'[Len(jobs')].text = None
  <1>1. Len(jobs) \in Nat /\ pending \in Config \cup {None}
    BY SeqFacts DEF TypeInv, TypeOK
  <1>2. CASE jobs' = jobs
    BY <1>1, <1>2
  <1>3. ASSUME NEW k \in {"connect", "tables"}, NEW c \in Config \cup {None},
               jobs' = Append(jobs, [kind |-> k, text |-> None, config |-> c])
        PROVE  /\ DOMAIN jobs \subseteq DOMAIN jobs'
               /\ \A i \in DOMAIN jobs : jobs'[i] = jobs[i]
               /\ \A i \in DOMAIN jobs' : i \notin DOMAIN jobs => ~IsExecute(jobs'[i])
               /\ Len(jobs') > Len(jobs) => jobs'[Len(jobs')].text = None
    <2>1. k \in Kinds
      BY DEF Kinds
    <2>2. /\ Len(jobs) \in Nat /\ Len(jobs') = Len(jobs) + 1
          /\ DOMAIN jobs = 1..Len(jobs)
          /\ DOMAIN jobs' = 1..(Len(jobs) + 1)
          /\ \A i \in DOMAIN jobs : jobs'[i] = jobs[i]
          /\ jobs'[Len(jobs) + 1] = [kind |-> k, text |-> None, config |-> c]
          /\ \A i \in DOMAIN jobs' : i \in DOMAIN jobs \/ i = Len(jobs) + 1
      BY <1>3, <2>1, JobsAppended
    <2> QED
      BY <2>2 DEF IsExecute
  <1> QED
    BY <1>1, <1>2, <1>3 DEF FetchTables, Connect

\* A statement is started in a window that is not busy, unless a dialog was
\* re-entered.
LEMMA FlightStarts ==
  ASSUME TypeInv, FlightInv, NEW text \in Texts \cup {None}, StartExecute(text),
         UNCHANGED <<running, inbox>>, ~reentered' => ~reentered /\ ~busy
  PROVE  FlightInv'
  <1>1. /\ DOMAIN jobs' = 1..(Len(jobs) + 1)
        /\ Len(jobs) \in Nat
        /\ \A i \in DOMAIN jobs : jobs'[i] = jobs[i]
        /\ jobs'[Len(jobs) + 1] = [kind |-> "execute", text |-> text, config |-> pending]
        /\ \A i \in DOMAIN jobs' : i \in DOMAIN jobs \/ i = Len(jobs) + 1
    BY JobsAppended DEF StartExecute, Kinds, TypeInv, TypeOK
  <1>2. OnItsWay' /\ busy' = TRUE /\ cancelRequested' = FALSE /\ lastRun' = text
    BY <1>1 DEF OnItsWay, StartExecute, IsExecute
  <1>3. ASSUME ~reentered'
        PROVE  AtMostOneStatement' /\ LastRunInv'
    <2>1. ~OnItsWay
      BY <1>3 DEF FlightInv
    <2>2. \A i \in DOMAIN jobs' : IsExecute(jobs'[i]) => i = Len(jobs) + 1
      BY <1>1, <2>1 DEF OnItsWay
    <2>3. ~ExecuteRuns' /\ \A i \in DOMAIN inbox' : inbox'[i].kind # "result"
      BY <2>1 DEF OnItsWay, ExecuteRuns, IsExecute
    <2> QED
      BY <1>1, <1>2, <2>2, <2>3 DEF AtMostOneStatement, LastRunInv
  <1> QED
    BY <1>2, <1>3 DEF FlightInv

\* Taking the next job from the queue.
LEMMA JobTaken ==
  ASSUME TypeInv, Take
  PROVE  /\ running = None /\ running' = jobs[1] /\ running' \in Job /\ running' # None
         /\ 1 \in DOMAIN jobs
         /\ Len(jobs) \in Nat \ {0}
         /\ DOMAIN jobs = 1..Len(jobs)
         /\ DOMAIN jobs' = 1..(Len(jobs) - 1)
         /\ \A i \in DOMAIN jobs' : i + 1 \in DOMAIN jobs /\ jobs'[i] = jobs[i + 1]
         /\ \A i \in DOMAIN jobs : i # 1 => i - 1 \in DOMAIN jobs' /\ jobs'[i - 1] = jobs[i]
         /\ Head(jobs) = jobs[1]
  <1>1. /\ jobs # <<>> /\ running' = Head(jobs) /\ jobs' = Tail(jobs) /\ running = None
        /\ Len(jobs) \in Nat \ {0} /\ DOMAIN jobs = 1..Len(jobs)
        /\ Head(jobs) = jobs[1] /\ Head(jobs) \in Job
        /\ DOMAIN jobs' = 1..(Len(jobs) - 1)
        /\ \A i \in 1..(Len(jobs) - 1) : jobs'[i] = jobs[i + 1]
    BY TailFacts, SeqFacts DEF Take, TypeInv, TypeOK
  <1>2. \A i \in DOMAIN jobs' : i + 1 \in DOMAIN jobs /\ jobs'[i] = jobs[i + 1]
    BY <1>1
  <1>3. ASSUME NEW i \in DOMAIN jobs, i # 1
        PROVE  i - 1 \in DOMAIN jobs' /\ jobs'[i - 1] = jobs[i]
    <2>1. i - 1 \in 1..(Len(jobs) - 1) /\ (i - 1) + 1 = i
      BY <1>1, <1>3
    <2> QED
      BY <1>1, <2>1
  <1>4. running' \in Job /\ running' # None /\ 1 \in DOMAIN jobs
    BY <1>1, WindowAssumption
  <1> QED
    BY <1>1, <1>2, <1>3, <1>4

LEMMA FlightTaken ==
  ASSUME TypeInv, FlightInv, Take
  PROVE  FlightInv'
  <1>1. UNCHANGED <<inbox, busy, cancelRequested, lastRun, reentered>>
    BY DEF Take, app, loops
  <1>2. ~ExecuteRuns /\ (ExecuteRuns' <=> IsExecute(jobs[1]))
    BY JobTaken DEF ExecuteRuns, IsExecute
  <1>3. OnItsWay' <=> OnItsWay
    BY <1>1, <1>2, JobTaken DEF OnItsWay
  <1>4. AtMostOneStatement => AtMostOneStatement'
    BY <1>1, <1>2, JobTaken DEF AtMostOneStatement
  <1>5. LastRunInv => LastRunInv'
    BY <1>1, <1>2, JobTaken DEF LastRunInv
  <1> QED
    BY <1>1, <1>3, <1>4, <1>5 DEF FlightInv

\* What a message added to the inbox does to it.
LEMMA InboxAppended ==
  ASSUME TypeInv, NEW m \in Message, inbox' = Append(inbox, m)
  PROVE  /\ Len(inbox) \in Nat
         /\ DOMAIN inbox = 1..Len(inbox)
         /\ DOMAIN inbox' = 1..(Len(inbox) + 1)
         /\ \A i \in DOMAIN inbox : inbox'[i] = inbox[i]
         /\ inbox'[Len(inbox) + 1] = m
         /\ \A i \in DOMAIN inbox' : i \in DOMAIN inbox \/ i = Len(inbox) + 1
  <1>1. /\ DOMAIN inbox = 1..Len(inbox)
        /\ Len(inbox) \in Nat
        /\ DOMAIN inbox' = 1..(Len(inbox) + 1)
        /\ \A i \in 1..Len(inbox) : inbox'[i] = inbox[i]
        /\ inbox'[Len(inbox) + 1] = m
    BY AppendFacts, SeqFacts DEF TypeInv, TypeOK
  <1> QED
    BY <1>1

\* The job that completes is a statement exactly if its message is a result, so
\* the statement only moves.
LEMMA FlightCompletes ==
  ASSUME TypeInv, FlightInv, NEW m \in Message, running # None, running' = None,
         inbox' = Append(inbox, m),
         m.kind = "result" <=> IsExecute(running),
         IsExecute(running) => m.text = running.text,
         UNCHANGED <<jobs, busy, cancelRequested, lastRun, reentered>>
  PROVE  FlightInv'
  <1>1. /\ Len(inbox) \in Nat
        /\ DOMAIN inbox = 1..Len(inbox)
        /\ DOMAIN inbox' = 1..(Len(inbox) + 1)
        /\ \A i \in DOMAIN inbox : inbox'[i] = inbox[i]
        /\ inbox'[Len(inbox) + 1] = m
        /\ \A i \in DOMAIN inbox' : i \in DOMAIN inbox \/ i = Len(inbox) + 1
    BY InboxAppended
  <1>2. ~ExecuteRuns' /\ (ExecuteRuns <=> m.kind = "result")
    BY DEF ExecuteRuns
  <1>3. OnItsWay' <=> OnItsWay
    BY <1>1, <1>2 DEF OnItsWay, IsExecute
  <1>4. AtMostOneStatement => AtMostOneStatement'
    BY <1>1, <1>2 DEF AtMostOneStatement, IsExecute
  <1>5. LastRunInv => LastRunInv'
    BY <1>1, <1>2 DEF LastRunInv, ExecuteRuns, IsExecute
  <1> QED
    BY <1>3, <1>4, <1>5 DEF FlightInv

LEMMA FlightWorker ==
  ASSUME TypeInv, FlightInv, WorkerNext
  PROVE  FlightInv'
  <1>1. CASE Take
    BY <1>1, FlightTaken
  <1>2. ASSUME NEW ok \in BOOLEAN, ConnectReturns(ok) PROVE FlightInv'
    <2> DEFINE m == [kind |-> "connected", ok |-> ok, text |-> None, config |-> running.config]
    <2>1. running.config \in Config
      BY <1>2 DEF ConnectReturns, TypeInv, IsConnect
    <2>2. m \in Message /\ m.kind # "result" /\ ~IsExecute(running)
      BY <1>2, <2>1 DEF Message, IsExecute, ConnectReturns
    <2>3. inbox' = Append(inbox, m)
      BY <1>2 DEF ConnectReturns
    <2> HIDE DEF m
    <2> QED
      BY <1>2, <2>2, <2>3, FlightCompletes DEF ConnectReturns, app
  <1>3. ASSUME NEW ok \in BOOLEAN, QueryReturns(ok) PROVE FlightInv'
    <2> DEFINE m == [kind |-> IF running.kind = "execute" THEN "result" ELSE "tables",
                     ok |-> ok, text |-> running.text, config |-> provider]
    <2>1. running \in Job /\ provider \in Config \cup {None}
      BY <1>3 DEF QueryReturns, TypeInv, TypeOK
    <2>2. m \in Message /\ (m.kind = "result" <=> IsExecute(running)) /\ m.text = running.text
      BY <2>1 DEF Message, Job, IsExecute
    <2>3. inbox' = Append(inbox, m)
      BY <1>3 DEF QueryReturns
    <2> HIDE DEF m
    <2> QED
      BY <1>3, <2>2, <2>3, FlightCompletes DEF QueryReturns, app
  <1> QED
    BY <1>1, <1>2, <1>3 DEF WorkerNext

LEMMA FlightDispatch ==
  ASSUME TypeInv, FlightInv, Dispatch
  PROVE  FlightInv'
  <1> DEFINE m == Head(inbox)
  <1>1. m = inbox[1] /\ 1 \in DOMAIN inbox
    BY MessageTaken
  <1>2. /\ DOMAIN inbox \subseteq Int /\ DOMAIN inbox' \subseteq Int
        /\ \A i \in DOMAIN inbox' : i + 1 \in DOMAIN inbox /\ inbox'[i] = inbox[i + 1]
        /\ \A i \in DOMAIN inbox : i = 1 \/ i - 1 \in DOMAIN inbox'
    BY MessageTaken
  <1>3. UNCHANGED <<running, lastRun, reentered>>
    BY DEF Dispatch
  <1>4. CASE m.kind = "result" /\ OnResult(m)
    <2>1. busy' = FALSE /\ cancelRequested' = FALSE /\ jobs' = jobs
      BY <1>4 DEF OnResult
    <2>2. ASSUME ~reentered', AtMostOneStatement, LastRunInv
          PROVE  ~OnItsWay' /\ AtMostOneStatement' /\ LastRunInv'
      <3>1. \A i \in DOMAIN jobs' : ~IsExecute(jobs'[i])
        BY <1>1, <1>4, <2>1, <2>2 DEF AtMostOneStatement
      <3>2. ~ExecuteRuns'
        BY <1>1, <1>3, <1>4, <2>2 DEF AtMostOneStatement, ExecuteRuns, IsExecute
      <3>3. \A i \in DOMAIN inbox' : i + 1 # 1 /\ inbox'[i].kind # "result"
        BY <1>1, <1>2, <1>4, <2>2, MessageTaken DEF AtMostOneStatement
      <3> QED
        BY <3>1, <3>2, <3>3 DEF OnItsWay, AtMostOneStatement, LastRunInv
    <2> QED
      BY <1>3, <2>1, <2>2 DEF FlightInv
  <1>5. CASE m.kind = "tables" /\ OnTables(m)
    <2>1. UNCHANGED <<jobs, busy, cancelRequested>>
      BY <1>5 DEF OnTables
    <2> QED
      BY <1>1, <1>2, <1>3, <1>5, <2>1, StatementsStay
  <1>6. CASE m.kind = "connected" /\ OnConnected(m)
    <2>1. UNCHANGED <<busy, cancelRequested>> /\ (FetchTables \/ jobs' = jobs)
      BY <1>6 DEF OnConnected
    <2>2. /\ DOMAIN jobs \subseteq DOMAIN jobs'
          /\ \A i \in DOMAIN jobs : jobs'[i] = jobs[i]
          /\ \A i \in DOMAIN jobs' : i \notin DOMAIN jobs => ~IsExecute(jobs'[i])
      BY <2>1, OtherJobPosted
    <2> QED
      BY <1>1, <1>2, <1>3, <1>6, <2>1, <2>2, StatementsStay
  <1> QED
    BY <1>4, <1>5, <1>6 DEF Dispatch, m

\* Nothing is posted, handled or begun.
LEMMA FlightUntouched ==
  ASSUME FlightInv, UNCHANGED <<jobs, running, inbox, busy, lastRun>>,
         reentered => reentered', cancelRequested' => cancelRequested \/ busy
  PROVE  FlightInv'
  BY StatementsStay

LEMMA FlightUser ==
  ASSUME TypeInv, StatementInv, UserNext
  PROVE  FlightInv'
  <1>1. ASSUME NEW t \in Texts, Run(t) PROVE FlightInv'
    <2>1. ~busy /\ UNCHANGED <<running, inbox, reentered>>
      BY <1>1 DEF Run, Runnable
    <2>2. CASE t \in Destructive
      BY <1>1, <2>1, <2>2, FlightUntouched DEF Run, StatementInv
    <2>3. CASE t \notin Destructive
      BY <1>1, <2>1, <2>3, FlightStarts DEF Run, StatementInv
    <2> QED
      BY <2>2, <2>3
  <1>2. ASSUME NEW d \in Dbs, Reconnect(d) PROVE FlightInv'
    <2>1. [current EXCEPT !.db = d] \in Config
      BY <1>2 DEF Reconnect, TypeInv, TypeOK, Config
    <2> QED
      BY <1>2, <2>1, OtherJobPosted, StatementsStay DEF Reconnect, StatementInv
  <1>3. CASE Open
    BY <1>3, FlightUntouched DEF Open, session, app, StatementInv
  <1>4. CASE Cancel
    BY <1>4, FlightUntouched DEF Cancel, loops, StatementInv
  <1>5. CASE ToggleReadOnly
    BY <1>5, FlightUntouched DEF ToggleReadOnly, loops, StatementInv
  <1>6. CASE RefreshSchema
    BY <1>6, OtherJobPosted, StatementsStay DEF RefreshSchema, app, loops, StatementInv
  <1>7. ASSUME NEW i \in DOMAIN frames, Answer(i) PROVE FlightInv'
    BY <1>7, FlightUntouched DEF Answer, session, app, StatementInv
  <1> QED
    BY <1>1, <1>2, <1>3, <1>4, <1>5, <1>6, <1>7 DEF UserNext

\* The innermost dialog's frame, and those left when it is gone.
LEMMA FrameLeft ==
  ASSUME TypeInv, Return
  PROVE  /\ frames # <<>> /\ Head(frames) = frames[1] /\ Head(frames) \in Frame
         /\ 1 \in DOMAIN frames
         /\ frames' = <<>> \/ reentered'
         /\ reentered => reentered'
  <1>1. frames \in Seq(Frame) /\ frames # <<>> /\ frames' = Tail(frames)
    BY DEF Return, TopAnswered, TypeInv, TypeOK
  <1>2. Head(frames) = frames[1] /\ Head(frames) \in Frame /\ 1 \in DOMAIN frames
    BY <1>1, TailFacts, SeqFacts
  <1>3. reentered' = (reentered \/ frames' # <<>>)
    BY <1>1 DEF Return
  <1> QED
    BY <1>1, <1>2, <1>3

LEMMA FlightReturn ==
  ASSUME TypeInv, StatementInv, Return
  PROVE  FlightInv'
  <1>1. UNCHANGED <<running, inbox>> /\ (reentered => reentered')
    BY FrameLeft DEF Return
  <1>2. CASE UNCHANGED <<jobs, lastRun, busy, cancelRequested, pending>>
    BY <1>1, <1>2, FlightUntouched DEF StatementInv
  <1>3. CASE /\ Head(frames).kind = "confirm" /\ StartExecute(Head(frames).text)
    <2>1. Head(frames).text \in Texts \cup {None}
      BY FrameLeft DEF Frame
    <2>2. ~reentered' => ~reentered /\ ~busy
      BY <1>1, <1>3, FrameLeft DEF StatementInv, ModalInv
    <2> QED
      BY <1>1, <1>3, <2>1, <2>2, FlightStarts DEF StatementInv
  <1>4. ASSUME NEW c \in Config, Connect(c), UNCHANGED <<lastRun, busy, cancelRequested>>
        PROVE  FlightInv'
    BY <1>1, <1>4, OtherJobPosted, StatementsStay DEF StatementInv
  <1> QED
    BY <1>2, <1>3, <1>4 DEF Return, Continue

\* A dialog that is not a confirmation opens over the others, or they stay.
LEMMA DialogsStay ==
  ASSUME TypeInv, ModalInv,
         UNCHANGED reentered, busy' => busy,
         \/ UNCHANGED <<frames, enabled>> /\ (UNCHANGED readOnly \/ enabled)
         \/ /\ UNCHANGED readOnly
            /\ \E kind \in {"open", "info", "error"} : OpenDialog(kind, None)
  PROVE  ModalInv'
  <1>1. CASE UNCHANGED <<frames, enabled>> /\ (UNCHANGED readOnly \/ enabled)
    BY <1>1, SeqFacts DEF ModalInv, TypeInv, TypeOK
  <1>2. ASSUME NEW kind \in {"open", "info", "error"}, OpenDialog(kind, None),
               UNCHANGED readOnly
        PROVE  ModalInv'
    <2>1. /\ DOMAIN frames = 1..Len(frames)
          /\ Len(frames) \in Nat
          /\ frames' # <<>>
          /\ DOMAIN frames' = 1..(Len(frames) + 1)
          /\ frames'[1] = [kind |-> kind, text |-> None, answer |-> "none"]
          /\ \A i \in 2..(Len(frames) + 1) : frames'[i] = frames[i - 1]
      BY <1>2, DialogTyped
    <2>2. ASSUME NEW i \in DOMAIN frames', frames'[i].kind = "confirm"
          PROVE  i - 1 \in DOMAIN frames /\ frames'[i] = frames[i - 1]
      BY <2>1, <2>2
    <2> QED
      BY <1>2, <2>1, <2>2 DEF ModalInv, OpenDialog
  <1> QED
    BY <1>1, <1>2

LEMMA ModalStep == TypeInv /\ StatementInv /\ [Next]_vars => ModalInv'
  <1> SUFFICES ASSUME TypeInv, StatementInv, [Next]_vars PROVE ModalInv'
    OBVIOUS
  <1>0. ModalInv
    BY DEF StatementInv
  <1>1. ASSUME NEW t \in Texts, Run(t) PROVE ModalInv'
    <2>1. enabled /\ ~busy /\ ~(readOnly /\ t \in Writes) /\ UNCHANGED <<readOnly, reentered>>
      BY <1>1 DEF Run, Runnable, UserFree
    <2>2. ~reentered => frames = <<>>
      BY <1>0, <2>1 DEF ModalInv
    <2>3. CASE OpenDialog("confirm", t) /\ UNCHANGED busy
      <3>1. /\ DOMAIN frames' = 1..(Len(frames) + 1)
            /\ frames' # <<>>
            /\ frames'[1] = [kind |-> "confirm", text |-> t, answer |-> "none"]
        BY <2>3, DialogTyped
      <3>2. ~reentered => \A i \in DOMAIN frames' : i = 1
        BY <2>2, <3>1
      <3> QED
        BY <2>1, <2>3, <3>1, <3>2 DEF ModalInv, OpenDialog
    <2>4. CASE UNCHANGED <<frames, enabled>>
      BY <2>1, <2>2, <2>4, SeqFacts DEF ModalInv
    <2> QED
      BY <1>1, <2>3, <2>4 DEF Run
  <1>2. ASSUME NEW d \in Dbs, Reconnect(d) PROVE ModalInv'
    BY <1>0, <1>2, DialogsStay DEF Reconnect
  <1>3. CASE Open
    BY <1>0, <1>3, DialogsStay DEF Open, app
  <1>4. CASE Cancel
    BY <1>0, <1>4, DialogsStay DEF Cancel, loops
  <1>5. CASE ToggleReadOnly
    BY <1>0, <1>5, DialogsStay DEF ToggleReadOnly, loops, UserFree
  <1>6. CASE RefreshSchema
    BY <1>0, <1>6, DialogsStay DEF RefreshSchema, app, loops
  <1>7. ASSUME NEW i \in DOMAIN frames, Answer(i) PROVE ModalInv'
    <2>1. PICK a : frames' = [frames EXCEPT ![i].answer = a]
      BY <1>7 DEF Answer
    <2>2. /\ DOMAIN frames' = DOMAIN frames /\ frames # <<>> /\ frames' # <<>>
          /\ \A j \in DOMAIN frames :
               frames'[j].kind = frames[j].kind /\ frames'[j].text = frames[j].text
      BY <1>7, <2>1, SeqFacts DEF TypeInv, TypeOK, Frame
    <2> QED
      BY <1>0, <1>7, <2>2 DEF Answer, app, ModalInv
  <1>8. CASE WorkerNext
    <2>1. UNCHANGED <<frames, enabled, busy, readOnly, reentered>>
      BY <1>8 DEF WorkerNext, Take, ConnectReturns, QueryReturns, app, loops
    <2> QED
      BY <1>0, <2>1, DialogsStay
  <1>9. CASE Return
    <2>1. frames' = <<>> \/ reentered'
      BY <1>9, FrameLeft
    <2>2. enabled' = TRUE
      BY <1>9 DEF Return
    <2> QED
      BY <2>1, <2>2 DEF ModalInv
  <1>10. CASE Dispatch
    <2>1. UNCHANGED <<readOnly, reentered>>
      BY <1>10 DEF Dispatch
    <2> QED
      BY <1>0, <1>10, <2>1, DialogsStay DEF Dispatch, OnResult, OnTables, OnConnected
  <1>11. CASE UNCHANGED vars
    BY <1>0, <1>11, DialogsStay DEF vars
  <1> QED
    BY <1>1, <1>2, <1>3, <1>4, <1>5, <1>6, <1>7, <1>8, <1>9, <1>10, <1>11
       DEF Next, UserNext, LoopNext

LEMMA StatementInit == Init => StatementInv
  <1> SUFFICES ASSUME Init PROVE StatementInv
    OBVIOUS
  <1>1. DOMAIN jobs = {} /\ DOMAIN inbox = {} /\ DOMAIN frames = {}
    BY DEF Init
  <1> QED
    BY <1>1 DEF Init, StatementInv, FlightInv, OnItsWay, ExecuteRuns,
                AtMostOneStatement, LastRunInv, ModalInv

LEMMA StatementStep == TypeInv /\ StatementInv /\ [Next]_vars => StatementInv'
  <1> SUFFICES ASSUME TypeInv, StatementInv, [Next]_vars PROVE StatementInv'
    OBVIOUS
  <1>1. FlightInv'
    <2>1. FlightInv
      BY DEF StatementInv
    <2>2. CASE UNCHANGED vars
      BY <2>1, <2>2, FlightUntouched DEF vars
    <2> QED
      BY <2>1, <2>2, FlightUser, FlightWorker, FlightReturn, FlightDispatch DEF Next, LoopNext
  <1> QED
    BY <1>1, ModalStep DEF StatementInv

LEMMA StatementInvariant == Spec => [](TypeInv /\ StatementInv)
  BY TypeInit, TypeStep, StatementInit, StatementStep, PTL DEF Spec

\* A window never shows itself busy, or cancelling, without a statement on its
\* way whose result will clear the flag: not even when dialogs are re-entered.
THEOREM WindowBusyHasQuery == Spec => []BusyHasQuery
  <1>1. StatementInv => BusyHasQuery
    BY FlightPlaces DEF StatementInv, FlightInv, BusyHasQuery
  <1> QED
    BY <1>1, StatementInvariant, PTL

\* As long as no dialog is re-entered, runText's look at busy before the dispatch
\* lets one statement at most be on its way, confirmations included.
THEOREM WindowSingleFlight == Spec => []SingleFlight
  <1>1. StatementInv => SingleFlight
    BY FlightPlaces DEF StatementInv, FlightInv, SingleFlight
  <1> QED
    BY <1>1, StatementInvariant, PTL

\* As long as no dialog is re-entered, the result that is handled is that of
\* lastRunStatements, by which the transaction flag is tracked.
THEOREM WindowResultIsOfLastRun == Spec => []ResultIsOfLastRun
  <1>1. StatementInv => ResultIsOfLastRun
    BY DEF StatementInv, FlightInv, LastRunInv, ResultIsOfLastRun, IsExecute
  <1> QED
    BY <1>1, StatementInvariant, PTL

\* Only what the guard lets through, or was confirmed after it, is posted.
LEMMA ReadOnlyStep ==
  TypeInv /\ StatementInv /\ [Next]_vars =>
    (Len(jobs') > Len(jobs) /\ ~reentered /\ readOnly
       => jobs'[Len(jobs')].text \notin Writes)
  <1> SUFFICES ASSUME TypeInv, StatementInv, [Next]_vars,
                      Len(jobs') > Len(jobs), ~reentered, readOnly
               PROVE  jobs'[Len(jobs')].text \notin Writes
    OBVIOUS
  <1>1. Len(jobs) \in Nat /\ jobs' # jobs
    BY SeqFacts DEF TypeInv, TypeOK
  <1>2. None \notin Writes
    BY WindowAssumption DEF Writes, Texts
  <1>3. CASE FetchTables \/ \E c \in Config : Connect(c)
    BY <1>2, <1>3, OtherJobPosted
  <1>4. ASSUME NEW text \in Texts \cup {None}, StartExecute(text), text \notin Writes
        PROVE  jobs'[Len(jobs')].text \notin Writes
    <2>1. /\ Len(jobs') = Len(jobs) + 1
          /\ jobs'[Len(jobs) + 1] = [kind |-> "execute", text |-> text, config |-> pending]
      BY <1>4, JobsAppended DEF StartExecute, Kinds, TypeInv, TypeOK
    <2> QED
      BY <1>4, <2>1
  <1>5. ASSUME NEW t \in Texts, Run(t)
        PROVE  jobs'[Len(jobs')].text \notin Writes
    BY <1>1, <1>4, <1>5 DEF Run
  <1>6. ASSUME NEW d \in Dbs, Reconnect(d)
        PROVE  jobs'[Len(jobs')].text \notin Writes
    <2>1. [current EXCEPT !.db = d] \in Config
      BY <1>6 DEF Reconnect, TypeInv, TypeOK, Config
    <2> QED
      BY <1>3, <1>6, <2>1 DEF Reconnect
  <1>7. CASE RefreshSchema
    BY <1>3, <1>7 DEF RefreshSchema
  <1>8. CASE Return
    <2>1. CASE Head(frames).kind = "confirm" /\ StartExecute(Head(frames).text)
      <3>1. Head(frames).text \in Texts \cup {None} /\ Head(frames).text \notin Writes
        BY <2>1, <1>8, FrameLeft DEF Frame, StatementInv, ModalInv
      <3> QED
        BY <1>4, <2>1, <3>1
    <2> QED
      BY <1>1, <1>3, <1>8, <2>1 DEF Return, Continue
  <1>9. CASE Dispatch
    BY <1>1, <1>3, <1>9 DEF Dispatch, OnResult, OnTables, OnConnected
  <1>10. CASE Take
    <2>1. jobs \in Seq(Job) /\ jobs # <<>> /\ jobs' = Tail(jobs)
      BY <1>10 DEF Take, TypeInv, TypeOK
    <2>2. Len(jobs') = Len(jobs) - 1
      BY <2>1, TailFacts
    <2>3. ~(Len(jobs) - 1 > Len(jobs))
      BY <1>1
    <2> QED
      BY <2>2, <2>3
  <1>11. CASE UNCHANGED jobs
    BY <1>1, <1>11
  <1> QED
    BY <1>5, <1>6, <1>7, <1>8, <1>9, <1>10, <1>11
       DEF Next, UserNext, WorkerNext, LoopNext, Open, Cancel, ToggleReadOnly, Answer,
           ConnectReturns, QueryReturns, session, vars

\* In read-only mode, as long as no dialog is re-entered, nothing that writes is
\* posted, though the guard decides before the confirmation is answered.
THEOREM WindowReadOnlyRespected == Spec => ReadOnlyRespected
  <1>1. Spec => [][(Len(jobs') > Len(jobs) /\ ~reentered /\ readOnly)
                     => jobs'[Len(jobs')].text \notin Writes]_vars
    BY StatementInvariant, ReadOnlyStep, PTL DEF Spec
  <1> QED
    BY <1>1 DEF ReadOnlyRespected

-----------------------------------------------------------------------------
(* Connections: what is asked of the worker.                               *)

\* A query is posted under the pending configuration, last in the queue.
LEMMA WorkQueried ==
  ASSUME TypeInv, WorkInv, NEW k \in {"execute", "tables"}, NEW t \in Texts \cup {None},
         jobs' = Append(jobs, [kind |-> k, text |-> t, config |-> pending]),
         UNCHANGED <<running, provider, pending>>
  PROVE  WorkInv' /\ (NoConnectLeft' <=> NoConnectLeft)
  <1>1. /\ Len(jobs) \in Nat
        /\ DOMAIN jobs = 1..Len(jobs)
        /\ DOMAIN jobs' = 1..(Len(jobs) + 1)
        /\ \A i \in DOMAIN jobs : jobs'[i] = jobs[i]
        /\ jobs'[Len(jobs) + 1] = [kind |-> k, text |-> t, config |-> pending]
        /\ \A i \in DOMAIN jobs' : i \in DOMAIN jobs \/ i = Len(jobs) + 1
    BY JobsAppended DEF Kinds, TypeInv, TypeOK
  <1> DEFINE n == Len(jobs) + 1
  <1>2. /\ n \in DOMAIN jobs' /\ n \notin DOMAIN jobs /\ DOMAIN jobs \subseteq DOMAIN jobs'
        /\ ~IsConnect(jobs'[n]) /\ jobs'[n].config = pending
    BY <1>1 DEF IsConnect
  <1>3. \A i \in DOMAIN jobs' : IsConnect(jobs'[i]) <=> (i \in DOMAIN jobs /\ IsConnect(jobs[i]))
    BY <1>1, <1>2 DEF IsConnect
  <1>4. NoConnectLeft' <=> NoConnectLeft
    BY <1>2, <1>3 DEF NoConnectLeft, IsConnect
  <1>5. AskedInv'
    <2>1. ASSUME NEW i \in DOMAIN jobs', \A j \in DOMAIN jobs' : j > i => ~IsConnect(jobs'[j])
          PROVE  jobs'[i].config = pending
      BY <1>1, <1>2, <1>3, <2>1 DEF WorkInv, AskedInv
    <2>2. (\A j \in DOMAIN jobs' : ~IsConnect(jobs'[j]))
             => (\A j \in DOMAIN jobs : ~IsConnect(jobs[j]))
      BY <1>2, <1>3
    <2> QED
      BY <1>4, <2>1, <2>2 DEF WorkInv, AskedInv
  <1>6. QueueInv'
    <2>1. ASSUME NEW i \in DOMAIN jobs', i > 1, ~IsConnect(jobs'[i])
          PROVE  jobs'[i].config = jobs'[i - 1].config
      <3>1. CASE i \in DOMAIN jobs
        <4>1. i - 1 \in DOMAIN jobs
          BY <1>1, <2>1, <3>1
        <4> QED
          BY <1>1, <1>3, <2>1, <3>1, <4>1 DEF WorkInv, QueueInv
      <3>2. CASE i = n
        <4>1. /\ i - 1 \in DOMAIN jobs
              /\ \A j \in DOMAIN jobs : ~(j > i - 1)
          BY <1>1, <2>1, <3>2
        <4>2. jobs[i - 1].config = pending
          BY <4>1 DEF WorkInv, AskedInv
        <4> QED
          BY <1>1, <1>2, <3>2, <4>1, <4>2
      <3> QED
        BY <1>1, <3>1, <3>2
    <2>2. ASSUME jobs' # <<>>, ~IsConnect(jobs'[1])
          PROVE  /\ running # None => jobs'[1].config = running.config
                 /\ running = None /\ provider # None => jobs'[1].config = provider
      <3>1. CASE jobs = <<>>
        <4>1. Len(jobs) = 0 /\ DOMAIN jobs = {} /\ n = 1
          BY <1>1, <3>1
        <4> QED
          BY <1>2, <4>1 DEF WorkInv, AskedInv, NoConnectLeft
      <3>2. CASE jobs # <<>>
        <4>1. 1 \in DOMAIN jobs
          BY <1>1, <3>2, SeqFacts DEF TypeInv, TypeOK
        <4> QED
          BY <1>1, <1>3, <2>2, <3>2, <4>1 DEF WorkInv, QueueInv
      <3> QED
        BY <3>1, <3>2
    <2> QED
      BY <2>1, <2>2 DEF WorkInv, QueueInv, RunsWhereAsked, IsConnect
  <1> QED
    BY <1>4, <1>5, <1>6 DEF WorkInv

\* A connect is posted, and made the pending one.
LEMMA WorkConnects ==
  ASSUME TypeInv, WorkInv, NEW c \in Config, Connect(c), UNCHANGED <<running, provider>>
  PROVE  WorkInv' /\ ~NoConnectLeft'
  <1>1. /\ Len(jobs) \in Nat
        /\ DOMAIN jobs = 1..Len(jobs)
        /\ DOMAIN jobs' = 1..(Len(jobs) + 1)
        /\ \A i \in DOMAIN jobs : jobs'[i] = jobs[i]
        /\ jobs'[Len(jobs) + 1] = [kind |-> "connect", text |-> None, config |-> c]
        /\ \A i \in DOMAIN jobs' : i \in DOMAIN jobs \/ i = Len(jobs) + 1
    BY JobsAppended DEF Connect, Kinds
  <1> DEFINE n == Len(jobs) + 1
  <1>2. /\ n \in DOMAIN jobs' /\ IsConnect(jobs'[n]) /\ jobs'[n].config = pending'
        /\ \A i \in DOMAIN jobs : i < n
    BY <1>1 DEF IsConnect, Connect
  <1>3. ~NoConnectLeft'
    BY <1>2 DEF NoConnectLeft, IsConnect
  <1>4. AskedInv'
    BY <1>1, <1>2, <1>3 DEF AskedInv
  <1>5. QueueInv'
    <2>1. ASSUME NEW i \in DOMAIN jobs', i > 1, ~IsConnect(jobs'[i])
          PROVE  jobs'[i].config = jobs'[i - 1].config
      <3>1. i \in DOMAIN jobs /\ i - 1 \in DOMAIN jobs
        BY <1>1, <1>2, <2>1
      <3> QED
        BY <1>1, <2>1, <3>1 DEF WorkInv, QueueInv
    <2>2. ASSUME jobs' # <<>>, ~IsConnect(jobs'[1])
          PROVE  jobs # <<>> /\ ~IsConnect(jobs[1]) /\ jobs'[1] = jobs[1]
      <3>1. 1 \in DOMAIN jobs
        BY <1>1, <1>2, <2>2
      <3> QED
        BY <1>1, <2>2, <3>1
    <2> QED
      BY <2>1, <2>2 DEF WorkInv, QueueInv, RunsWhereAsked, IsConnect
  <1> QED
    BY <1>3, <1>4, <1>5 DEF WorkInv

\* A connect gives up the old connection as it begins; a query begins under the
\* connection it was posted for, if there is one.
LEMMA WorkTaken ==
  ASSUME TypeInv, WorkInv, Take
  PROVE  /\ WorkInv'
         /\ provider' # None => provider' = provider /\ ~IsConnect(running')
         /\ provider' # None => (NoConnectLeft' <=> NoConnectLeft)
  <1>1. /\ running = None /\ running' = jobs[1] /\ running' # None
        /\ 1 \in DOMAIN jobs /\ jobs # <<>>
        /\ Len(jobs) \in Nat \ {0}
        /\ DOMAIN jobs = 1..Len(jobs)
        /\ DOMAIN jobs' = 1..(Len(jobs) - 1)
        /\ \A i \in DOMAIN jobs' : i + 1 \in DOMAIN jobs /\ jobs'[i] = jobs[i + 1]
        /\ \A i \in DOMAIN jobs : i # 1 => i - 1 \in DOMAIN jobs' /\ jobs'[i - 1] = jobs[i]
        /\ pending' = pending
    BY JobTaken DEF Take, app
  <1>2. /\ IsConnect(running') => provider' = None
        /\ ~IsConnect(running') => provider' = provider
    BY JobTaken DEF Take, IsConnect
  <1>3. (\A j \in DOMAIN jobs' : ~IsConnect(jobs'[j]))
           <=> (\A j \in DOMAIN jobs : j > 1 => ~IsConnect(jobs[j]))
    <2>1. ASSUME \A j \in DOMAIN jobs' : ~IsConnect(jobs'[j]), NEW j \in DOMAIN jobs, j > 1
          PROVE  ~IsConnect(jobs[j])
      BY <1>1, <2>1
    <2>2. ASSUME \A j \in DOMAIN jobs : j > 1 => ~IsConnect(jobs[j]), NEW j \in DOMAIN jobs'
          PROVE  ~IsConnect(jobs'[j])
      <3>1. j + 1 > 1
        BY <1>1, <2>2
      <3> QED
        BY <1>1, <2>2, <3>1
    <2> QED
      BY <2>1, <2>2
  <1>4. ~IsConnect(running') => (NoConnectLeft' <=> NoConnectLeft)
    <2>1. \A j \in DOMAIN jobs : j = 1 \/ j > 1
      BY <1>1
    <2> QED
      BY <1>1, <1>3, <2>1 DEF NoConnectLeft, IsConnect
  <1>5. AskedInv'
    <2>1. ASSUME NEW i \in DOMAIN jobs', \A j \in DOMAIN jobs' : j > i => ~IsConnect(jobs'[j])
          PROVE  jobs'[i].config = pending'
      <3>1. ASSUME NEW j \in DOMAIN jobs, j > i + 1
            PROVE  ~IsConnect(jobs[j])
        <4>1. j # 1 /\ j - 1 > i
          BY <1>1, <3>1
        <4> QED
          BY <1>1, <2>1, <4>1
      <3> QED
        BY <1>1, <3>1 DEF WorkInv, AskedInv
    <2>2. ASSUME \A j \in DOMAIN jobs' : ~IsConnect(jobs'[j])
          PROVE  running'.config = pending'
      BY <1>1, <1>3, <2>2 DEF WorkInv, AskedInv
    <2>3. provider' # None /\ NoConnectLeft' => provider' = pending'
      BY <1>1, <1>2, <1>4 DEF WorkInv, AskedInv
    <2> QED
      BY <2>1, <2>2, <2>3 DEF AskedInv
  <1>6. QueueInv'
    <2>1. ASSUME NEW i \in DOMAIN jobs', i > 1, ~IsConnect(jobs'[i])
          PROVE  jobs'[i].config = jobs'[i - 1].config
      <3>1. i - 1 \in DOMAIN jobs' /\ (i - 1) + 1 = i /\ i + 1 > 1 /\ (i + 1) - 1 = i
        BY <1>1, <2>1
      <3>2. jobs[i + 1].config = jobs[i].config
        BY <1>1, <2>1, <3>1 DEF WorkInv, QueueInv
      <3> QED
        BY <1>1, <3>1, <3>2
    <2>2. ASSUME jobs' # <<>>, ~IsConnect(jobs'[1])
          PROVE  jobs'[1].config = running'.config
      <3>1. 1 \in DOMAIN jobs'
        BY <1>1, <2>2, WorkerTyped, SeqFacts DEF TypeInv, TypeOK, WorkerNext
      <3>2. 2 \in DOMAIN jobs /\ jobs'[1] = jobs[2] /\ 2 > 1 /\ 2 - 1 = 1
        BY <1>1, <3>1
      <3>3. jobs[2].config = jobs[1].config
        BY <2>2, <3>2 DEF WorkInv, QueueInv
      <3> QED
        BY <1>1, <3>2, <3>3
    <2>3. RunsWhereAsked'
      BY <1>1, <1>2 DEF RunsWhereAsked, WorkInv, QueueInv, IsConnect
    <2> QED
      BY <1>1, <1>2, <2>1, <2>2, <2>3 DEF QueueInv
  <1> QED
    BY <1>1, <1>2, <1>4, <1>5, <1>6 DEF WorkInv

\* The worker is done with a job: a connect that was made leaves what it asked
\* for, any other job leaves the connection as it was.
LEMMA WorkReturns ==
  ASSUME TypeInv, WorkInv, running # None, running' = None, UNCHANGED <<jobs, pending>>,
         provider' = provider \/ (IsConnect(running) /\ provider' = running.config)
  PROVE  WorkInv'
  <1>1. provider' # None => provider' = running.config
    BY DEF WorkInv, QueueInv, RunsWhereAsked, IsConnect
  <1>2. AskedInv'
    BY <1>1 DEF WorkInv, AskedInv, NoConnectLeft
  <1>3. QueueInv'
    BY <1>1 DEF WorkInv, QueueInv, RunsWhereAsked, IsConnect
  <1> QED
    BY <1>2, <1>3 DEF WorkInv

LEMMA WorkUntouched ==
  ASSUME WorkInv, UNCHANGED <<jobs, running, provider, pending>>
  PROVE  WorkInv' /\ (NoConnectLeft' <=> NoConnectLeft)
  BY DEF WorkInv, AskedInv, QueueInv, RunsWhereAsked, NoConnectLeft, IsConnect

-----------------------------------------------------------------------------
(* Connections: what the window is told.                                   *)

\* Jobs are added or begun; nothing is told.
LEMMA ToldNothing ==
  ASSUME ShownInv, FetchInv, UNCHANGED <<inbox, current, tree>>,
         provider' # None /\ NoConnectLeft' =>
           provider' = provider /\ pending' = pending /\ NoConnectLeft,
         RefillDue => RefillDue'
  PROVE  ShownInv' /\ FetchInv'
  <1> SUFFICES ASSUME provider' # None, NoConnectLeft'
               PROVE  ShownInv' /\ FetchInv'
    BY DEF ShownInv, FetchInv
  <1>1. provider' = provider /\ pending' = pending /\ provider # None /\ NoConnectLeft
    OBVIOUS
  <1>2. \A i \in DOMAIN inbox : MadeAt(i)' <=> MadeAt(i)
    BY DEF MadeAt
  <1>3. ShownInv'
    BY <1>1, <1>2 DEF ShownInv
  <1>4. TablesInOrder'
    BY <1>1, <1>2 DEF FetchInv, TablesInOrder
  <1> QED
    BY <1>1, <1>3, <1>4 DEF FetchInv

\* A connect that was made is told.
LEMMA ToldOfConnect ==
  ASSUME TypeInv, NEW m \in Message, inbox' = Append(inbox, m),
         m.kind = "connected", m.ok
  PROVE  ShownInv' /\ FetchInv'
  <1>1. /\ Len(inbox) \in Nat
        /\ DOMAIN inbox = 1..Len(inbox)
        /\ DOMAIN inbox' = 1..(Len(inbox) + 1)
        /\ inbox'[Len(inbox) + 1] = m
        /\ \A i \in DOMAIN inbox' : i \in DOMAIN inbox \/ i = Len(inbox) + 1
    BY InboxAppended
  <1>2. PICK n \in Nat : n = Len(inbox) + 1
    BY <1>1
  <1>3. n \in DOMAIN inbox' /\ MadeAt(n)'
    BY <1>1, <1>2 DEF MadeAt
  <1>4. RefillDue'
    BY <1>3 DEF RefillDue
  <1>5. TablesInOrder'
    <2>1. \A i \in DOMAIN inbox' : inbox'[i].kind = "tables" => n > i
      BY <1>1, <1>2
    <2> QED
      BY <1>3, <2>1 DEF TablesInOrder
  <1> QED
    BY <1>3, <1>4, <1>5 DEF ShownInv, FetchInv

\* A query's answer is told, under the connection it ran on.
LEMMA ToldOfQuery ==
  ASSUME TypeInv, WorkInv, ShownInv, FetchInv, NEW m \in Message, inbox' = Append(inbox, m),
         m.config = provider, m.kind # "connected",
         running # None, ~IsConnect(running), running' = None,
         running.kind = "tables" => m.kind = "tables",
         UNCHANGED <<jobs, provider, pending, current, tree>>
  PROVE  ShownInv' /\ FetchInv'
  <1>1. /\ Len(inbox) \in Nat
        /\ DOMAIN inbox = 1..Len(inbox)
        /\ DOMAIN inbox' = 1..(Len(inbox) + 1)
        /\ \A i \in DOMAIN inbox : inbox'[i] = inbox[i]
        /\ inbox'[Len(inbox) + 1] = m
        /\ \A i \in DOMAIN inbox' : i \in DOMAIN inbox \/ i = Len(inbox) + 1
    BY InboxAppended
  <1>2. NoConnectLeft' => NoConnectLeft
    BY DEF NoConnectLeft, IsConnect
  <1>3. \A i \in DOMAIN inbox : i \in DOMAIN inbox' /\ (MadeAt(i)' <=> MadeAt(i))
    BY <1>1 DEF MadeAt
  <1>4. RefillDue => RefillDue'
    BY <1>1, <1>3 DEF RefillDue
  <1>5. TablesInOrder => TablesInOrder'
    BY <1>1, <1>3 DEF TablesInOrder
  <1> QED
    BY <1>2, <1>3, <1>4, <1>5 DEF ShownInv, FetchInv

\* The answers behind the one that is handled.
LEMMA InOrderBehind ==
  ASSUME TypeInv, Dispatch, TablesInOrder
  PROVE  /\ TablesInOrder'
         /\ \A i \in DOMAIN inbox : MadeAt(i) => i = 1 \/ \E j \in DOMAIN inbox' : MadeAt(j)'
         /\ \A i \in DOMAIN inbox : i = 1 \/ \E j \in DOMAIN inbox' : inbox'[j] = inbox[i]
  <1>1. /\ Len(inbox) \in Nat \ {0}
        /\ DOMAIN inbox = 1..Len(inbox)
        /\ DOMAIN inbox' = 1..(Len(inbox) - 1)
        /\ \A i \in DOMAIN inbox' : i + 1 \in DOMAIN inbox /\ inbox'[i] = inbox[i + 1]
        /\ provider' = provider
    BY MessageTaken DEF Dispatch
  <1>2. ASSUME NEW i \in DOMAIN inbox, i # 1
        PROVE  i - 1 \in DOMAIN inbox' /\ inbox'[i - 1] = inbox[i]
    <2>1. i - 1 \in DOMAIN inbox' /\ (i - 1) + 1 = i
      BY <1>1, <1>2
    <2> QED
      BY <1>1, <2>1
  <1>3. ASSUME NEW i \in DOMAIN inbox', inbox'[i].kind = "tables", inbox'[i].ok,
               inbox'[i].config # provider
        PROVE  \E j \in DOMAIN inbox' : j > i /\ MadeAt(j)'
    <2>1. PICK j \in DOMAIN inbox : j > i + 1 /\ MadeAt(j)
      BY <1>1, <1>3 DEF TablesInOrder
    <2>2. j # 1 /\ j - 1 > i
      BY <1>1, <2>1
    <2> QED
      BY <1>2, <2>1, <2>2 DEF MadeAt
  <1>4. TablesInOrder'
    BY <1>1, <1>3 DEF TablesInOrder
  <1> QED
    BY <1>2, <1>4 DEF MadeAt

LEMMA ConnectionDispatch ==
  ASSUME TypeInv, ConnectionInv, Dispatch
  PROVE  ConnectionInv'
  <1> DEFINE m == Head(inbox)
  <1>1. m = inbox[1] /\ 1 \in DOMAIN inbox /\ \A i \in DOMAIN inbox : i = 1 \/ i > 1
    BY MessageTaken
  <1>2. UNCHANGED <<running, provider, pending>>
    BY DEF Dispatch
  <1>3. WorkInv' /\ (NoConnectLeft' <=> NoConnectLeft)
    <2>1. CASE jobs' = jobs
      BY <1>2, <2>1, WorkUntouched DEF ConnectionInv
    <2>2. CASE jobs' = Append(jobs, [kind |-> "tables", text |-> None, config |-> pending])
      BY <1>2, <2>2, WorkQueried DEF ConnectionInv
    <2> QED
      BY <2>1, <2>2 DEF Dispatch, OnResult, OnTables, OnConnected, FetchTables
  <1>4. ASSUME provider' # None, NoConnectLeft'
        PROVE  /\ current' = pending' \/ \E i \in DOMAIN inbox' : MadeAt(i)'
               /\ tree' \in {provider', None} \/ RefillDue'
               /\ TablesInOrder'
    <2>1. /\ provider # None /\ TablesInOrder
          /\ current = pending \/ \E i \in DOMAIN inbox : MadeAt(i)
          /\ tree \in {provider, None} \/ RefillDue
      BY <1>2, <1>3, <1>4 DEF ConnectionInv, ShownInv, FetchInv
    <2>2. /\ TablesInOrder'
          /\ \A i \in DOMAIN inbox : MadeAt(i) => i = 1 \/ \E j \in DOMAIN inbox' : MadeAt(j)'
          /\ \A i \in DOMAIN inbox : i = 1 \/ \E j \in DOMAIN inbox' : inbox'[j] = inbox[i]
      BY <2>1, InOrderBehind
    <2>3. DOMAIN jobs \subseteq DOMAIN jobs' /\ \A i \in DOMAIN jobs : jobs'[i] = jobs[i]
      <3>1. jobs' = jobs \/ FetchTables
        BY DEF Dispatch, OnResult, OnTables, OnConnected
      <3> QED
        BY <3>1, OtherJobPosted
    <2>4. CASE m.kind = "result" /\ OnResult(m)
      <3>1. ~MadeAt(1) /\ inbox[1].kind # "tables" /\ UNCHANGED <<current, tree>>
        BY <1>1, <2>4 DEF MadeAt, OnResult
      <3>2. RefillDue => RefillDue'
        BY <1>2, <2>2, <2>3, <3>1 DEF RefillDue
      <3> QED
        BY <1>2, <2>1, <2>2, <3>1, <3>2
    <2>5. CASE m.kind = "tables" /\ OnTables(m)
      <3>1. ~MadeAt(1) /\ current' = current /\ tree' = IF m.ok THEN m.config ELSE None
        BY <1>1, <2>5 DEF MadeAt, OnTables
      <3>2. CASE m.ok /\ m.config # provider
        <4>1. PICK j \in DOMAIN inbox : j > 1 /\ MadeAt(j)
          BY <1>1, <2>1, <2>5, <3>2 DEF TablesInOrder
        <4>2. \E k \in DOMAIN inbox' : MadeAt(k)'
          BY <2>2, <4>1, <3>1
        <4> QED
          BY <2>2, <4>2 DEF RefillDue
      <3>3. CASE ~m.ok \/ m.config = provider
        BY <1>2, <2>1, <2>2, <3>1, <3>3
      <3> QED
        BY <3>2, <3>3
    <2>6. CASE m.kind = "connected" /\ m.ok /\ OnConnected(m)
      <3>1. current' = pending /\ FetchTables
        BY <2>6 DEF OnConnected
      <3>2. jobs' = Append(jobs, [kind |-> "tables", text |-> None, config |-> pending])
        BY <2>1, <3>1 DEF FetchTables, IsConnected
      <3>3. \E i \in DOMAIN jobs' : jobs'[i].kind = "tables"
        <4>1. Len(jobs) + 1 \in DOMAIN jobs' /\ jobs'[Len(jobs) + 1].kind = "tables"
          BY <3>2, JobsAppended DEF Kinds, TypeInv, TypeOK
        <4> QED
          BY <4>1
      <3> QED
        BY <1>2, <2>2, <3>1, <3>3 DEF RefillDue
    <2>7. CASE m.kind = "connected" /\ ~m.ok /\ OnConnected(m)
      <3>1. ~MadeAt(1) /\ inbox[1].kind # "tables" /\ UNCHANGED <<current, tree>>
        BY <1>1, <2>7 DEF MadeAt, OnConnected
      <3>2. RefillDue => RefillDue'
        BY <1>2, <2>2, <2>3, <3>1 DEF RefillDue
      <3> QED
        BY <1>2, <2>1, <2>2, <3>1, <3>2
    <2> QED
      BY <2>4, <2>5, <2>6, <2>7 DEF Dispatch
  <1> QED
    BY <1>3, <1>4 DEF ConnectionInv, ShownInv, FetchInv

LEMMA ConnectionUntouched ==
  ASSUME ConnectionInv,
         UNCHANGED <<jobs, running, provider, pending, current, tree, inbox>>
  PROVE  ConnectionInv'
  BY WorkUntouched, ToldNothing DEF ConnectionInv, RefillDue, MadeAt

\* A query, if anything, is posted under the pending configuration.
LEMMA ConnectionQueried ==
  ASSUME TypeInv, ConnectionInv,
         \E k \in {"execute", "tables"}, t \in Texts \cup {None} :
           jobs' = Append(jobs, [kind |-> k, text |-> t, config |-> pending]),
         UNCHANGED <<running, provider, pending, current, tree, inbox>>
  PROVE  ConnectionInv'
  <1>1. PICK k \in {"execute", "tables"}, t \in Texts \cup {None} :
          jobs' = Append(jobs, [kind |-> k, text |-> t, config |-> pending])
    OBVIOUS
  <1>2. WorkInv' /\ (NoConnectLeft' <=> NoConnectLeft)
    BY <1>1, WorkQueried DEF ConnectionInv
  <1>3. DOMAIN jobs \subseteq DOMAIN jobs' /\ \A i \in DOMAIN jobs : jobs'[i] = jobs[i]
    BY <1>1, JobsAppended DEF Kinds, TypeInv, TypeOK
  <1>4. RefillDue => RefillDue'
    BY <1>3 DEF RefillDue, MadeAt
  <1> QED
    BY <1>2, <1>4, ToldNothing DEF ConnectionInv

LEMMA ConnectionConnects ==
  ASSUME TypeInv, ConnectionInv, NEW c \in Config, Connect(c),
         UNCHANGED <<running, provider, current, tree, inbox>>
  PROVE  ConnectionInv'
  <1>1. WorkInv' /\ ~NoConnectLeft'
    BY WorkConnects DEF ConnectionInv
  <1> QED
    BY <1>1 DEF ConnectionInv, ShownInv, FetchInv

LEMMA ConnectionWorker ==
  ASSUME TypeInv, ConnectionInv, WorkerNext
  PROVE  ConnectionInv'
  <1>1. CASE Take
    <2>1. /\ WorkInv' /\ UNCHANGED <<inbox, pending, current, tree>>
          /\ provider' # None => provider' = provider /\ (NoConnectLeft' <=> NoConnectLeft)
      BY <1>1, WorkTaken DEF Take, app, loops, ConnectionInv
    <2>2. RefillDue => RefillDue'
      <3>1. ASSUME NEW i \in DOMAIN jobs, jobs[i].kind = "tables"
            PROVE  \/ running' # None /\ running'.kind = "tables"
                   \/ \E j \in DOMAIN jobs' : jobs'[j].kind = "tables"
        BY <1>1, <3>1, JobTaken
      <3> QED
        BY <1>1, <2>1, <3>1, JobTaken DEF RefillDue, MadeAt
    <2> QED
      BY <2>1, <2>2, ToldNothing DEF ConnectionInv
  <1>2. ASSUME NEW ok \in BOOLEAN, ConnectReturns(ok) PROVE ConnectionInv'
    <2> DEFINE m == [kind |-> "connected", ok |-> ok, text |-> None, config |-> running.config]
    <2>1. running.config \in Config /\ IsConnect(running) /\ provider = None
      BY <1>2 DEF ConnectReturns, TypeInv, IsConnect, ConnectionInv, WorkInv, QueueInv
    <2>2. m \in Message /\ m.kind = "connected" /\ m.ok = ok
      BY <2>1 DEF Message
    <2>3. inbox' = Append(inbox, m)
      BY <1>2 DEF ConnectReturns
    <2> HIDE DEF m
    <2>4. WorkInv'
      BY <1>2, <2>1, WorkReturns DEF ConnectReturns, ConnectionInv, app
    <2>5. CASE ok
      BY <2>2, <2>3, <2>4, <2>5, ToldOfConnect DEF ConnectionInv
    <2>6. CASE ~ok
      BY <1>2, <2>1, <2>4, <2>6 DEF ConnectReturns, ConnectionInv, ShownInv, FetchInv
    <2> QED
      BY <2>5, <2>6
  <1>3. ASSUME NEW ok \in BOOLEAN, QueryReturns(ok) PROVE ConnectionInv'
    <2> DEFINE m == [kind |-> IF running.kind = "execute" THEN "result" ELSE "tables",
                     ok |-> ok, text |-> running.text, config |-> provider]
    <2>1. running \in Job /\ provider \in Config \cup {None} /\ ~IsConnect(running)
      BY <1>3 DEF QueryReturns, TypeInv, TypeOK, IsConnect
    <2>2. /\ m \in Message /\ m.kind # "connected" /\ m.config = provider
          /\ running.kind = "tables" => m.kind = "tables"
      BY <2>1 DEF Message, Job
    <2>3. inbox' = Append(inbox, m)
      BY <1>3 DEF QueryReturns
    <2> HIDE DEF m
    <2>4. /\ running # None /\ running' = None
          /\ UNCHANGED <<jobs, provider, pending, current, tree>>
      BY <1>3 DEF QueryReturns, app
    <2>5. WorkInv'
      BY <2>4, WorkReturns DEF ConnectionInv
    <2> QED
      BY <2>1, <2>2, <2>3, <2>4, <2>5, ToldOfQuery DEF ConnectionInv
  <1> QED
    BY <1>1, <1>2, <1>3 DEF WorkerNext

LEMMA ConnectionUser ==
  ASSUME TypeInv, ConnectionInv, UserNext
  PROVE  ConnectionInv'
  <1>1. ASSUME NEW t \in Texts, Run(t) PROVE ConnectionInv'
    <2>1. CASE t \in Destructive
      BY <1>1, <2>1, ConnectionUntouched DEF Run
    <2>2. CASE t \notin Destructive
      BY <1>1, <2>2, ConnectionQueried DEF Run, StartExecute
    <2> QED
      BY <2>1, <2>2
  <1>2. ASSUME NEW d \in Dbs, Reconnect(d) PROVE ConnectionInv'
    <2>1. [current EXCEPT !.db = d] \in Config
      BY <1>2 DEF Reconnect, TypeInv, TypeOK, Config
    <2> QED
      BY <1>2, <2>1, ConnectionConnects DEF Reconnect
  <1>3. CASE RefreshSchema
    BY <1>3, ConnectionQueried DEF RefreshSchema, FetchTables, app, loops
  <1>4. CASE UNCHANGED <<jobs, running, provider, pending, current, tree, inbox>>
    BY <1>4, ConnectionUntouched
  <1> QED
    BY <1>1, <1>2, <1>3, <1>4
       DEF UserNext, Open, Cancel, ToggleReadOnly, Answer, session, app, loops

LEMMA ConnectionReturn ==
  ASSUME TypeInv, ConnectionInv, Return
  PROVE  ConnectionInv'
  <1>1. UNCHANGED <<running, provider, current, tree, inbox>>
    BY DEF Return
  <1>2. CASE UNCHANGED <<jobs, lastRun, busy, cancelRequested, pending>>
    BY <1>1, <1>2, ConnectionUntouched
  <1>3. CASE StartExecute(Head(frames).text) /\ UNCHANGED pending
    <2>1. Head(frames).text \in Texts \cup {None}
      BY FrameLeft DEF Frame
    <2> QED
      BY <1>1, <1>3, <2>1, ConnectionQueried DEF StartExecute
  <1>4. ASSUME NEW c \in Config, Connect(c) PROVE ConnectionInv'
    BY <1>1, <1>4, ConnectionConnects
  <1> QED
    BY <1>2, <1>3, <1>4 DEF Return, Continue

LEMMA ConnectionInit == Init => ConnectionInv
  <1> SUFFICES ASSUME Init PROVE ConnectionInv
    OBVIOUS
  <1>1. DOMAIN jobs = {} /\ jobs = <<>> /\ running = None /\ provider = None
    BY DEF Init
  <1> QED
    BY <1>1 DEF ConnectionInv, WorkInv, AskedInv, QueueInv, RunsWhereAsked, ShownInv, FetchInv

LEMMA ConnectionStep == TypeInv /\ ConnectionInv /\ [Next]_vars => ConnectionInv'
  <1>1. ConnectionInv /\ UNCHANGED vars => ConnectionInv'
    BY ConnectionUntouched DEF vars
  <1> QED
    BY <1>1, ConnectionUser, ConnectionWorker, ConnectionReturn, ConnectionDispatch
       DEF Next, LoopNext

LEMMA ConnectionInvariant == Spec => [](TypeInv /\ ConnectionInv)
  BY TypeInit, TypeStep, ConnectionInit, ConnectionStep, PTL DEF Spec

\* No statement and no schema query runs on another connection than the one last
\* asked for when it was posted, though connects are posted behind and before it.
THEOREM WindowRunsWhereAsked == Spec => []RunsWhereAsked
  <1>1. ConnectionInv => RunsWhereAsked
    BY DEF ConnectionInv, WorkInv, QueueInv
  <1> QED
    BY <1>1, ConnectionInvariant, PTL

\* Once no connect is on its way, currentConnection is what the session is
\* connected to, though the handler takes it from pendingConn.
THEOREM WindowShowsItsConnection == Spec => []ShowsItsConnection
  <1>1. ConnectionInv => ShowsItsConnection
    BY DEF ConnectionInv, WorkInv, AskedInv, ShownInv, MadeAt, NoConnectLeft, IsConnect,
           ShowsItsConnection, Connecting
  <1> QED
    BY <1>1, ConnectionInvariant, PTL

\* Once nothing is on its way, the tree shows the tables of the session's
\* connection or none: an answer of an earlier connection does not outlive it.
THEOREM WindowTreeOfConnection == Spec => []TreeOfConnection
  <1>1. TypeInv /\ ConnectionInv => TreeOfConnection
    <2> SUFFICES ASSUME ConnectionInv, Quiet, provider # None
                 PROVE  tree \in {provider, None}
      BY DEF TreeOfConnection
    <2>1. DOMAIN jobs = {} /\ DOMAIN inbox = {} /\ running = None
      BY DEF Quiet
    <2>2. NoConnectLeft /\ ~RefillDue
      BY <2>1 DEF NoConnectLeft, RefillDue
    <2> QED
      BY <2>2 DEF ConnectionInv, FetchInv
  <1> QED
    BY <1>1, ConnectionInvariant, PTL

\* IInv, on which all of the above rests, holds in every reachable state.
THEOREM WindowInvariant == Spec => []IInv
  BY StatementInvariant, ConnectionInvariant, PTL DEF IInv
=============================================================================
