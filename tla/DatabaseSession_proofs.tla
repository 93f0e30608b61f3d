----------------------- MODULE DatabaseSession_proofs -----------------------
(***************************************************************************)
(* Proofs about DatabaseSession for any number of jobs and statements: its *)
(* type invariant, the inductive invariant that ties the program counters  *)
(* of the two threads to connMutex_, provider_ and the heap, the safety    *)
(* properties that follow from it, and the refinement of the abstract      *)
(* service.                                                                *)
(***************************************************************************)
EXTENDS DatabaseSession, TLAPS

\* connMutex_ is held by the thread whose program counter is inside a critical
\* section, and by no other.
MutexInv ==
  /\ connMutex = "worker" <=> worker \in {"teardown", "publish", "fetch"}
  /\ connMutex = "ui" <=> UiInside

\* A job is being run exactly when the worker is outside its waiting loop, and
\* each point of a job's body belongs to the kinds of job that reach it.
JobInv ==
  /\ job = None <=> worker \in {"wait", "asleep", "exited"}
  /\ worker \in {"teardown_lock", "teardown"} => job.kind \in ConnKinds
  /\ worker \in {"make", "connect", "publish_lock", "publish"}
       => job.kind = "connect"
  /\ worker \in {"fetch_lock", "fetch", "execute", "statement"}
       => job.kind \notin ConnKinds

\* The heap holds the published provider and the one a connect job is making,
\* which is named after that job and exists only while nothing is published.
HeapInv ==
  /\ live = {provider, next} \ {None}
  /\ next # None => worker \in {"connect", "publish_lock", "publish", "callback"}
  /\ worker \in {"connect", "publish_lock", "publish"} => next = job.id
  /\ next # None => provider = None
  /\ worker = "make" => provider = None

\* The raw pointer of an execute job is the published provider for as long as
\* the job runs.
PointerInv ==
  /\ Executing => p # None /\ p = provider
  /\ worker = "callback" /\ job.kind \notin ConnKinds => p = provider

\* The destructor stops the worker before it touches the provider.
ShutdownInv ==
  /\ stop <=> ui \in {"dtor_notify", "dtor_join", "dtor_lock", "dtor_teardown",
                      "gone"}
  /\ worker = "exited" => stop
  /\ ui \in {"dtor_lock", "dtor_teardown", "gone"} => worker = "exited"
  /\ ui = "gone" => provider = None

SafetyInv == MutexInv /\ JobInv /\ HeapInv /\ PointerInv /\ ShutdownInv

IInv == TypeOK /\ SafetyInv

-----------------------------------------------------------------------------
\* The head of a non-empty queue of jobs is a job, and its tail a queue of jobs.
LEMMA QueueHead ==
  ASSUME NEW q \in Seq(Job), q # <<>>
  PROVE  Head(q) \in Job /\ Tail(q) \in Seq(Job)
  OBVIOUS

\* Appending a completion to the list of completions gives such a list.
LEMMA CompletionAppended ==
  ASSUME NEW d \in Seq([job : Job, conn : Nat \cup {None}]),
         NEW j \in Job, NEW c \in Nat \cup {None}
  PROVE  Append(d, [job |-> j, conn |-> c])
           \in Seq([job : Job, conn : Nat \cup {None}])
  <1> DEFINE Completion == [job : Job, conn : Nat \cup {None}]
  <1>1. [job |-> j, conn |-> c] \in Completion
    OBVIOUS
  <1> HIDE DEF Completion
  <1>2. d \in Seq(Completion) => Append(d, [job |-> j, conn |-> c]) \in Seq(Completion)
    BY <1>1
  <1> QED
    BY <1>2 DEF Completion


\* Every step keeps the variables in their types.
LEMMA TypeStep == IInv /\ [Next]_vars => TypeOK'
  <1> SUFFICES ASSUME IInv, [Next]_vars PROVE TypeOK'
    OBVIOUS
  <1> USE NoneAssumption, BoundsAssumption DEF IInv, TypeOK, SafetyInv, JobInv, sharedVars, workerVars, WorkerPoints, UiPoints
  <1>1. ASSUME NEW kind \in Kinds, Post(kind) PROVE TypeOK'
    BY <1>1 DEF Post, Job
  <1>2. CASE Notify
    BY <1>2 DEF Notify, Wake
  <1>3. CASE UiCall
    BY <1>3 DEF UiCall
  <1>4. CASE UiLock
    BY <1>4 DEF UiLock, UiLockNext
  <1>5. CASE CancelNothing
    BY <1>5 DEF CancelNothing, CancelDone
  <1>6. CASE Interrupt
    BY <1>6 DEF Interrupt, Executing, Job
  <1>7. CASE CancelReturns
    BY <1>7 DEF CancelReturns, CancelDone
  <1>8. CASE Read
    BY <1>8 DEF Read
  <1>9. CASE DtorStop
    BY <1>9 DEF DtorStop
  <1>10. CASE DtorJoin
    BY <1>10 DEF DtorJoin
  <1>11. CASE DtorTeardown
    BY <1>11 DEF DtorTeardown, ResetProvider
  <1>12. CASE WaitForWork
    BY <1>12 DEF WaitForWork
  <1>13. CASE SpuriousWake
    BY <1>13 DEF SpuriousWake
  <1>14. CASE Exit
    BY <1>14 DEF Exit
  <1>15. CASE Take
    <2>1. Head(jobs) \in Job /\ Tail(jobs) \in Seq(Job)
      BY <1>15, QueueHead DEF Take
    <2> QED
      BY <1>15, <2>1 DEF Take
  <1>16. CASE WorkerLock
    BY <1>16 DEF WorkerLock, WorkerLockNext
  <1>17. CASE Teardown
    BY <1>17 DEF Teardown, ResetProvider
  <1>18. CASE MakeProvider
    <2>1. job.id \in Nat
      BY <1>18 DEF MakeProvider, Job
    <2>2. next' \in Nat /\ live' \subseteq Nat /\ worker' \in WorkerPoints
      BY <1>18, <2>1 DEF MakeProvider
    <2> QED
      BY <1>18, <2>2 DEF MakeProvider
  <1>19. CASE ConnectReturns
    BY <1>19 DEF ConnectReturns
  <1>20. CASE Publish
    BY <1>20 DEF Publish
  <1>21. CASE Fetch
    BY <1>21 DEF Fetch
  <1>22. CASE BeginStatement
    BY <1>22 DEF BeginStatement
  <1>23. CASE EndStatement
    <2>1. interrupted' \in BOOLEAN /\ worker' \in WorkerPoints
      BY <1>23 DEF EndStatement
    <2> QED
      BY <1>23, <2>1 DEF EndStatement
  <1>24. CASE ExecuteReturns
    BY <1>24 DEF ExecuteReturns
  <1>25. CASE Callback
    <2>1. done' \in Seq([job : Job, conn : Nat \cup {None}])
      BY <1>25, CompletionAppended DEF Callback
    <2> QED
      BY <1>25, <2>1 DEF Callback
  <1>26. CASE UNCHANGED vars
    BY <1>26 DEF vars
  <1> QED
    BY <1>1, <1>2, <1>3, <1>4, <1>5, <1>6, <1>7, <1>8, <1>9, <1>10, <1>11,
       <1>12, <1>13, <1>14, <1>15, <1>16, <1>17, <1>18, <1>19, <1>20, <1>21,
       <1>22, <1>23, <1>24, <1>25, <1>26
      DEF Next, UiNext, WorkerNext, Finished, ConnectAsync, DisconnectAsync,
          ExecuteAsync, ExecuteUncancellableAsync, Kinds

\* Every step keeps connMutex_ with the thread that is inside a critical section.
LEMMA MutexStep == IInv /\ [Next]_vars => MutexInv'
  <1> SUFFICES ASSUME IInv, [Next]_vars PROVE MutexInv'
    OBVIOUS
  <1> USE NoneAssumption, BoundsAssumption DEF IInv, TypeOK, SafetyInv, MutexInv, UiInside, sharedVars, workerVars, Kinds, ConnKinds, Job, WorkerPoints, UiPoints
  <1>1. ASSUME NEW kind \in Kinds, Post(kind) PROVE MutexInv'
    BY <1>1 DEF Post
  <1>2. CASE Notify
    BY <1>2 DEF Notify, Wake
  <1>3. CASE UiCall
    BY <1>3 DEF UiCall
  <1>4. CASE UiLock
    BY <1>4 DEF UiLock, UiLockNext
  <1>5. CASE CancelNothing
    BY <1>5 DEF CancelNothing, CancelDone
  <1>6. CASE Interrupt
    BY <1>6 DEF Interrupt, Executing
  <1>7. CASE CancelReturns
    BY <1>7 DEF CancelReturns, CancelDone
  <1>8. CASE Read
    BY <1>8 DEF Read
  <1>9. CASE DtorStop
    BY <1>9 DEF DtorStop
  <1>10. CASE DtorJoin
    BY <1>10 DEF DtorJoin
  <1>11. CASE DtorTeardown
    BY <1>11 DEF DtorTeardown, ResetProvider
  <1>12. CASE WaitForWork
    BY <1>12 DEF WaitForWork
  <1>13. CASE SpuriousWake
    BY <1>13 DEF SpuriousWake
  <1>14. CASE Exit
    BY <1>14 DEF Exit
  <1>15. CASE Take
    BY <1>15 DEF Take
  <1>16. CASE WorkerLock
    BY <1>16 DEF WorkerLock, WorkerLockNext
  <1>17. CASE Teardown
    BY <1>17 DEF Teardown, ResetProvider
  <1>18. CASE MakeProvider
    BY <1>18 DEF MakeProvider
  <1>19. CASE ConnectReturns
    BY <1>19 DEF ConnectReturns
  <1>20. CASE Publish
    BY <1>20 DEF Publish
  <1>21. CASE Fetch
    BY <1>21 DEF Fetch
  <1>22. CASE BeginStatement
    BY <1>22 DEF BeginStatement
  <1>23. CASE EndStatement
    BY <1>23 DEF EndStatement
  <1>24. CASE ExecuteReturns
    BY <1>24 DEF ExecuteReturns
  <1>25. CASE Callback
    BY <1>25 DEF Callback
  <1>26. CASE UNCHANGED vars
    BY <1>26 DEF vars
  <1> QED
    BY <1>1, <1>2, <1>3, <1>4, <1>5, <1>6, <1>7, <1>8, <1>9, <1>10, <1>11,
       <1>12, <1>13, <1>14, <1>15, <1>16, <1>17, <1>18, <1>19, <1>20, <1>21,
       <1>22, <1>23, <1>24, <1>25, <1>26
      DEF Next, UiNext, WorkerNext, Finished, ConnectAsync, DisconnectAsync,
          ExecuteAsync, ExecuteUncancellableAsync

\* Every step keeps the worker at a point its job reaches.
LEMMA JobStep == IInv /\ [Next]_vars => JobInv'
  <1> SUFFICES ASSUME IInv, [Next]_vars PROVE JobInv'
    OBVIOUS
  <1> USE NoneAssumption, BoundsAssumption DEF IInv, TypeOK, SafetyInv, JobInv, sharedVars, workerVars, Kinds, ConnKinds, Job, WorkerPoints, UiPoints
  <1>1. ASSUME NEW kind \in Kinds, Post(kind) PROVE JobInv'
    BY <1>1 DEF Post
  <1>2. CASE Notify
    BY <1>2 DEF Notify, Wake
  <1>3. CASE UiCall
    BY <1>3 DEF UiCall
  <1>4. CASE UiLock
    BY <1>4 DEF UiLock, UiLockNext
  <1>5. CASE CancelNothing
    BY <1>5 DEF CancelNothing, CancelDone
  <1>6. CASE Interrupt
    BY <1>6 DEF Interrupt, Executing
  <1>7. CASE CancelReturns
    BY <1>7 DEF CancelReturns, CancelDone
  <1>8. CASE Read
    BY <1>8 DEF Read
  <1>9. CASE DtorStop
    BY <1>9 DEF DtorStop
  <1>10. CASE DtorJoin
    BY <1>10 DEF DtorJoin
  <1>11. CASE DtorTeardown
    BY <1>11 DEF DtorTeardown, ResetProvider
  <1>12. CASE WaitForWork
    BY <1>12 DEF WaitForWork
  <1>13. CASE SpuriousWake
    BY <1>13 DEF SpuriousWake
  <1>14. CASE Exit
    BY <1>14 DEF Exit
  <1>15. CASE Take
    <2>1. Head(jobs) \in Job
      BY <1>15, QueueHead DEF Take
    <2> QED
      BY <1>15, <2>1 DEF Take
  <1>16. CASE WorkerLock
    BY <1>16 DEF WorkerLock, WorkerLockNext
  <1>17. CASE Teardown
    BY <1>17 DEF Teardown, ResetProvider
  <1>18. CASE MakeProvider
    BY <1>18 DEF MakeProvider
  <1>19. CASE ConnectReturns
    BY <1>19 DEF ConnectReturns
  <1>20. CASE Publish
    BY <1>20 DEF Publish
  <1>21. CASE Fetch
    BY <1>21 DEF Fetch
  <1>22. CASE BeginStatement
    BY <1>22 DEF BeginStatement
  <1>23. CASE EndStatement
    BY <1>23 DEF EndStatement
  <1>24. CASE ExecuteReturns
    BY <1>24 DEF ExecuteReturns
  <1>25. CASE Callback
    BY <1>25 DEF Callback
  <1>26. CASE UNCHANGED vars
    BY <1>26 DEF vars
  <1> QED
    BY <1>1, <1>2, <1>3, <1>4, <1>5, <1>6, <1>7, <1>8, <1>9, <1>10, <1>11,
       <1>12, <1>13, <1>14, <1>15, <1>16, <1>17, <1>18, <1>19, <1>20, <1>21,
       <1>22, <1>23, <1>24, <1>25, <1>26
      DEF Next, UiNext, WorkerNext, Finished, ConnectAsync, DisconnectAsync,
          ExecuteAsync, ExecuteUncancellableAsync

\* No step loses or duplicates a provider object.
LEMMA HeapStep == IInv /\ [Next]_vars => HeapInv'
  <1> SUFFICES ASSUME IInv, [Next]_vars PROVE HeapInv'
    OBVIOUS
  <1> USE NoneAssumption, BoundsAssumption DEF IInv, TypeOK, SafetyInv, JobInv, HeapInv, sharedVars, workerVars, Kinds, ConnKinds, Job, WorkerPoints, UiPoints
  <1>1. ASSUME NEW kind \in Kinds, Post(kind) PROVE HeapInv'
    BY <1>1 DEF Post
  <1>2. CASE Notify
    BY <1>2 DEF Notify, Wake
  <1>3. CASE UiCall
    BY <1>3 DEF UiCall
  <1>4. CASE UiLock
    BY <1>4 DEF UiLock, UiLockNext
  <1>5. CASE CancelNothing
    BY <1>5 DEF CancelNothing, CancelDone
  <1>6. CASE Interrupt
    BY <1>6 DEF Interrupt, Executing
  <1>7. CASE CancelReturns
    BY <1>7 DEF CancelReturns, CancelDone
  <1>8. CASE Read
    BY <1>8 DEF Read
  <1>9. CASE DtorStop
    BY <1>9 DEF DtorStop
  <1>10. CASE DtorJoin
    BY <1>10 DEF DtorJoin
  <1>11. CASE DtorTeardown
    BY <1>11 DEF DtorTeardown, ResetProvider
  <1>12. CASE WaitForWork
    BY <1>12 DEF WaitForWork
  <1>13. CASE SpuriousWake
    BY <1>13 DEF SpuriousWake
  <1>14. CASE Exit
    BY <1>14 DEF Exit
  <1>15. CASE Take
    BY <1>15 DEF Take
  <1>16. CASE WorkerLock
    BY <1>16 DEF WorkerLock, WorkerLockNext
  <1>17. CASE Teardown
    BY <1>17 DEF Teardown, ResetProvider
  <1>18. CASE MakeProvider
    BY <1>18 DEF MakeProvider
  <1>19. CASE ConnectReturns
    BY <1>19 DEF ConnectReturns
  <1>20. CASE Publish
    BY <1>20 DEF Publish
  <1>21. CASE Fetch
    BY <1>21 DEF Fetch
  <1>22. CASE BeginStatement
    BY <1>22 DEF BeginStatement
  <1>23. CASE EndStatement
    BY <1>23 DEF EndStatement
  <1>24. CASE ExecuteReturns
    BY <1>24 DEF ExecuteReturns
  <1>25. CASE Callback
    BY <1>25 DEF Callback
  <1>26. CASE UNCHANGED vars
    BY <1>26 DEF vars
  <1> QED
    BY <1>1, <1>2, <1>3, <1>4, <1>5, <1>6, <1>7, <1>8, <1>9, <1>10, <1>11,
       <1>12, <1>13, <1>14, <1>15, <1>16, <1>17, <1>18, <1>19, <1>20, <1>21,
       <1>22, <1>23, <1>24, <1>25, <1>26
      DEF Next, UiNext, WorkerNext, Finished, ConnectAsync, DisconnectAsync,
          ExecuteAsync, ExecuteUncancellableAsync

\* No step changes provider_ under a running script.
LEMMA PointerStep == IInv /\ [Next]_vars => PointerInv'
  <1> SUFFICES ASSUME IInv, [Next]_vars PROVE PointerInv'
    OBVIOUS
  <1> USE NoneAssumption, BoundsAssumption DEF IInv, TypeOK, SafetyInv, JobInv, HeapInv, PointerInv, ShutdownInv, Executing, sharedVars, workerVars, Kinds, ConnKinds, Job, WorkerPoints, UiPoints
  <1>1. ASSUME NEW kind \in Kinds, Post(kind) PROVE PointerInv'
    BY <1>1 DEF Post
  <1>2. CASE Notify
    BY <1>2 DEF Notify, Wake
  <1>3. CASE UiCall
    BY <1>3 DEF UiCall
  <1>4. CASE UiLock
    BY <1>4 DEF UiLock, UiLockNext
  <1>5. CASE CancelNothing
    BY <1>5 DEF CancelNothing, CancelDone
  <1>6. CASE Interrupt
    BY <1>6 DEF Interrupt, Executing
  <1>7. CASE CancelReturns
    BY <1>7 DEF CancelReturns, CancelDone
  <1>8. CASE Read
    BY <1>8 DEF Read
  <1>9. CASE DtorStop
    BY <1>9 DEF DtorStop
  <1>10. CASE DtorJoin
    BY <1>10 DEF DtorJoin
  <1>11. CASE DtorTeardown
    BY <1>11 DEF DtorTeardown, ResetProvider
  <1>12. CASE WaitForWork
    BY <1>12 DEF WaitForWork
  <1>13. CASE SpuriousWake
    BY <1>13 DEF SpuriousWake
  <1>14. CASE Exit
    BY <1>14 DEF Exit
  <1>15. CASE Take
    BY <1>15 DEF Take
  <1>16. CASE WorkerLock
    BY <1>16 DEF WorkerLock, WorkerLockNext
  <1>17. CASE Teardown
    BY <1>17 DEF Teardown, ResetProvider
  <1>18. CASE MakeProvider
    BY <1>18 DEF MakeProvider
  <1>19. CASE ConnectReturns
    BY <1>19 DEF ConnectReturns
  <1>20. CASE Publish
    BY <1>20 DEF Publish
  <1>21. CASE Fetch
    BY <1>21 DEF Fetch
  <1>22. CASE BeginStatement
    BY <1>22 DEF BeginStatement
  <1>23. CASE EndStatement
    BY <1>23 DEF EndStatement
  <1>24. CASE ExecuteReturns
    BY <1>24 DEF ExecuteReturns
  <1>25. CASE Callback
    BY <1>25 DEF Callback
  <1>26. CASE UNCHANGED vars
    BY <1>26 DEF vars
  <1> QED
    BY <1>1, <1>2, <1>3, <1>4, <1>5, <1>6, <1>7, <1>8, <1>9, <1>10, <1>11,
       <1>12, <1>13, <1>14, <1>15, <1>16, <1>17, <1>18, <1>19, <1>20, <1>21,
       <1>22, <1>23, <1>24, <1>25, <1>26
      DEF Next, UiNext, WorkerNext, Finished, ConnectAsync, DisconnectAsync,
          ExecuteAsync, ExecuteUncancellableAsync

\* No step of the worker follows the join.
LEMMA ShutdownStep == IInv /\ [Next]_vars => ShutdownInv'
  <1> SUFFICES ASSUME IInv, [Next]_vars PROVE ShutdownInv'
    OBVIOUS
  <1> USE NoneAssumption, BoundsAssumption DEF IInv, TypeOK, SafetyInv, JobInv, ShutdownInv, sharedVars, workerVars, Kinds, ConnKinds, Job, WorkerPoints, UiPoints
  <1>1. ASSUME NEW kind \in Kinds, Post(kind) PROVE ShutdownInv'
    BY <1>1 DEF Post
  <1>2. CASE Notify
    BY <1>2 DEF Notify, Wake
  <1>3. CASE UiCall
    BY <1>3 DEF UiCall
  <1>4. CASE UiLock
    BY <1>4 DEF UiLock, UiLockNext
  <1>5. CASE CancelNothing
    BY <1>5 DEF CancelNothing, CancelDone
  <1>6. CASE Interrupt
    BY <1>6 DEF Interrupt, Executing
  <1>7. CASE CancelReturns
    BY <1>7 DEF CancelReturns, CancelDone
  <1>8. CASE Read
    BY <1>8 DEF Read
  <1>9. CASE DtorStop
    BY <1>9 DEF DtorStop
  <1>10. CASE DtorJoin
    BY <1>10 DEF DtorJoin
  <1>11. CASE DtorTeardown
    BY <1>11 DEF DtorTeardown, ResetProvider
  <1>12. CASE WaitForWork
    BY <1>12 DEF WaitForWork
  <1>13. CASE SpuriousWake
    BY <1>13 DEF SpuriousWake
  <1>14. CASE Exit
    BY <1>14 DEF Exit
  <1>15. CASE Take
    BY <1>15 DEF Take
  <1>16. CASE WorkerLock
    BY <1>16 DEF WorkerLock, WorkerLockNext
  <1>17. CASE Teardown
    BY <1>17 DEF Teardown, ResetProvider
  <1>18. CASE MakeProvider
    BY <1>18 DEF MakeProvider
  <1>19. CASE ConnectReturns
    BY <1>19 DEF ConnectReturns
  <1>20. CASE Publish
    BY <1>20 DEF Publish
  <1>21. CASE Fetch
    BY <1>21 DEF Fetch
  <1>22. CASE BeginStatement
    BY <1>22 DEF BeginStatement
  <1>23. CASE EndStatement
    BY <1>23 DEF EndStatement
  <1>24. CASE ExecuteReturns
    BY <1>24 DEF ExecuteReturns
  <1>25. CASE Callback
    BY <1>25 DEF Callback
  <1>26. CASE UNCHANGED vars
    BY <1>26 DEF vars
  <1> QED
    BY <1>1, <1>2, <1>3, <1>4, <1>5, <1>6, <1>7, <1>8, <1>9, <1>10, <1>11,
       <1>12, <1>13, <1>14, <1>15, <1>16, <1>17, <1>18, <1>19, <1>20, <1>21,
       <1>22, <1>23, <1>24, <1>25, <1>26
      DEF Next, UiNext, WorkerNext, Finished, ConnectAsync, DisconnectAsync,
          ExecuteAsync, ExecuteUncancellableAsync

-----------------------------------------------------------------------------
\* The initial state satisfies the inductive invariant.
LEMMA InitIInv == Init => IInv
  <1> SUFFICES ASSUME Init PROVE IInv
    OBVIOUS
  <1> USE DEF Init
  <1>1. TypeOK
    <2>1. stop \in BOOLEAN /\ interrupted \in BOOLEAN
      BY Zenon
    <2>2. posted \in 0..MaxPosts /\ stmts \in 0..MaxStatements
      BY BoundsAssumption
    <2> QED
      BY <2>1, <2>2 DEF TypeOK, WorkerPoints, UiPoints
  <1>2. MutexInv /\ JobInv
    BY DEF MutexInv, JobInv, UiInside
  <1>3. HeapInv /\ PointerInv /\ ShutdownInv
    BY DEF HeapInv, PointerInv, ShutdownInv, Executing
  <1> QED
    BY <1>1, <1>2, <1>3 DEF IInv, SafetyInv

\* IInv is an invariant of the session, for any number of jobs, any kinds of
\* job and any script lengths.
THEOREM SessionInvariant == Spec => []IInv
  <1>1. IInv /\ [Next]_vars => IInv'
    BY TypeStep, MutexStep, JobStep, HeapStep, PointerStep, ShutdownStep
       DEF IInv, SafetyInv
  <1> QED
    BY InitIInv, <1>1, PTL DEF Spec

\* The variables keep their types.
THEOREM SessionTypeCorrect == Spec => []TypeOK
  <1>1. IInv => TypeOK
    BY DEF IInv
  <1> QED
    BY SessionInvariant, <1>1, PTL

\* Neither thread ever calls into a destroyed provider.
THEOREM SessionNoUseAfterFree == Spec => []NoUseAfterFree
  <1>1. IInv => NoUseAfterFree
    BY NoneAssumption
       DEF IInv, TypeOK, SafetyInv, HeapInv, PointerInv, JobInv, NoUseAfterFree,
           Executing, Job
  <1> QED
    BY SessionInvariant, <1>1, PTL

\* No provider is read or interrupted while it is being connected or closed.
THEOREM SessionNoConcurrentMutation == Spec => []NoConcurrentMutation
  <1>1. IInv => NoConcurrentMutation
    BY NoneAssumption
       DEF IInv, TypeOK, SafetyInv, MutexInv, HeapInv, JobInv,
           NoConcurrentMutation, Job
  <1> QED
    BY SessionInvariant, <1>1, PTL

\* No provider object is lost, and none survives the session.
THEOREM SessionNoHandleLeak == Spec => []NoHandleLeak
  <1>1. IInv => NoHandleLeak
    BY DEF IInv, SafetyInv, HeapInv, ShutdownInv, NoHandleLeak
  <1> QED
    BY SessionInvariant, <1>1, PTL

\* connMutex_ is free of the worker during every blocking call.
THEOREM SessionMutexHeldBriefly == Spec => []MutexHeldBriefly
  <1>1. IInv => MutexHeldBriefly
    BY DEF IInv, SafetyInv, MutexInv, MutexHeldBriefly
  <1> QED
    BY SessionInvariant, <1>1, PTL

\* After the join the worker does nothing more.
THEOREM SessionQuietAfterJoin == Spec => QuietAfterJoin
  <1> DEFINE Joined == ui \in {"dtor_lock", "dtor_teardown", "gone"}
             Quiet == UNCHANGED <<jobs, worker, job, done>>
  <1>1. IInv /\ [Next]_vars => [Joined => Quiet]_vars
    <2> SUFFICES ASSUME IInv, Next, Joined PROVE Quiet
      BY DEF vars
    <2>1. worker = "exited" /\ ui # "idle" /\ ui \notin {"post_notify", "dtor_notify"}
      BY DEF IInv, SafetyInv, ShutdownInv
    <2>2. CASE UiNext
      BY <2>1, <2>2
         DEF UiNext, ConnectAsync, DisconnectAsync, ExecuteAsync,
             ExecuteUncancellableAsync, Post, Notify, UiCall, UiLock, UiLockNext,
             CancelNothing, Interrupt, CancelReturns, CancelDone, Read, DtorStop,
             DtorJoin, DtorTeardown, ResetProvider,
             sharedVars, workerVars
    <2>3. ~WorkerNext
      BY <2>1
         DEF WorkerNext, WaitForWork, SpuriousWake, Exit, Take, WorkerLock,
             WorkerLockNext, Teardown, MakeProvider, ConnectReturns, Publish,
             Fetch, BeginStatement, EndStatement, ExecuteReturns, Callback
    <2>4. CASE Finished
      BY <2>4 DEF Finished, vars
    <2> QED
      BY <2>2, <2>3, <2>4 DEF Next
  <1> QED
    BY SessionInvariant, <1>1, PTL DEF Spec, QuietAfterJoin

-----------------------------------------------------------------------------
\* Every step of the session is a step of the abstract service or leaves its
\* state unchanged.
LEMMA ServiceStep == IInv /\ [Next]_vars => [Service!SNext]_(Service!svars)
  <1> SUFFICES ASSUME IInv, [Next]_vars
               PROVE  Service!SNext \/ UNCHANGED Service!svars
    OBVIOUS
  <1> USE DEF IInv, SafetyInv, sharedVars, workerVars, Service!svars
  <1>1. ASSUME NEW kind \in Kinds, Post(kind) PROVE Service!Accept
    BY <1>1 DEF Post, Service!Accept, Service!Kinds, Kinds, ShutdownInv
  <1>2. CASE Notify
    BY <1>2 DEF Notify, Wake
  <1>3. CASE UiCall
    BY <1>3 DEF UiCall
  <1>4. CASE UiLock
    BY <1>4 DEF UiLock, UiLockNext
  <1>5. CASE CancelNothing
    BY <1>5 DEF CancelNothing, CancelDone
  <1>6. CASE Interrupt
    BY <1>6 DEF Interrupt
  <1>7. CASE CancelReturns
    BY <1>7 DEF CancelReturns, CancelDone
  <1>8. CASE Read
    BY <1>8 DEF Read
  <1>9. DtorStop => Service!Close
    BY DEF DtorStop, Service!Close, ShutdownInv
  <1>10. CASE DtorJoin
    BY <1>10 DEF DtorJoin
  <1>11. DtorTeardown => Service!Release
    BY DEF DtorTeardown, Service!Release, JobInv, ShutdownInv, ResetProvider
  <1>12. CASE WaitForWork
    BY <1>12 DEF WaitForWork
  <1>13. CASE SpuriousWake
    BY <1>13 DEF SpuriousWake
  <1>14. CASE Exit
    BY <1>14 DEF Exit
  <1>15. Take => Service!Begin
    BY DEF Take, Service!Begin, JobInv, Take
  <1>16. CASE WorkerLock
    BY <1>16 DEF WorkerLock, WorkerLockNext
  <1>17. Teardown => Service!Drop
    BY DEF Teardown, Service!Drop, JobInv, Service!ConnKinds, ConnKinds, ResetProvider
  <1>18. CASE MakeProvider
    BY <1>18 DEF MakeProvider
  <1>19. CASE ConnectReturns
    BY <1>19 DEF ConnectReturns
  <1>20. Publish => Service!Establish
    <2> SUFFICES ASSUME Publish PROVE Service!Establish
      OBVIOUS
    <2>1. job \in Job /\ job.kind = "connect" /\ next = job.id
      BY DEF Publish, TypeOK, JobInv, HeapInv
    <2>2. next # None /\ job # None
      BY <2>1, NoneAssumption DEF Job
    <2> QED
      BY <2>1, <2>2 DEF Publish, Service!Establish, HeapInv
  <1>21. CASE Fetch
    BY <1>21 DEF Fetch
  <1>22. CASE BeginStatement
    BY <1>22 DEF BeginStatement
  <1>23. CASE EndStatement
    BY <1>23 DEF EndStatement
  <1>24. CASE ExecuteReturns
    BY <1>24 DEF ExecuteReturns
  <1>25. Callback => Service!Complete
    BY DEF Callback, Service!Complete, JobInv, PointerInv
  <1>26. CASE UNCHANGED vars
    BY <1>26 DEF vars
  <1> QED
    BY <1>1, <1>2, <1>3, <1>4, <1>5, <1>6, <1>7, <1>8, <1>9, <1>10, <1>11,
       <1>12, <1>13, <1>14, <1>15, <1>16, <1>17, <1>18, <1>19, <1>20, <1>21,
       <1>22, <1>23, <1>24, <1>25, <1>26
      DEF Next, UiNext, WorkerNext, Finished, ConnectAsync, DisconnectAsync,
          ExecuteAsync, ExecuteUncancellableAsync, Service!SNext, Kinds

\* The session implements the abstract service.
THEOREM SessionImplementsService == Spec => ImplementsService
  <1>1. Init => Service!SInit
    BY DEF Init, Service!SInit
  <1> QED
    BY <1>1, ServiceStep, SessionInvariant, PTL
       DEF Spec, ImplementsService, Service!ServiceSpec
=============================================================================
