-------------------------- MODULE SchemaTree_proofs --------------------------
(***************************************************************************)
(* Proofs about SchemaTree, for every set of connections and of handles    *)
(* and every number of commands.  The worker's queue and the window's      *)
(* messages are one line of work: what is posted comes before what is      *)
(* queued.  The invariants say where in that line an answer may stand.     *)
(***************************************************************************)
EXTENDS SchemaTree, FiniteSetTheorems, SequenceLemmas

-----------------------------------------------------------------------------
(* The invariants.                                                         *)

Engines == {"Sqlite"} \cup {c.engine : c \in Conns}
TableSets == {{}} \cup {c.tables : c \in Conns}
Tables == UNION {c.tables : c \in Conns}
Lines == [conn : Conns, table : Tables] \cup {None}
Params == {"unloaded", "loading", "loaded"}

Jobs ==
  [kind : {"connect"}, conn : Conns]
    \cup [kind : {"tables"}, engine : Engines]
    \cup [kind : {"columns"}, engine : Engines, table : Tables, node : Handles,
          generation : Nat, refreshing : BOOLEAN]

Messages ==
  [kind : {"connected"}, ok : BOOLEAN]
    \cup [kind : {"tables"}, tables : TableSets]
    \cup [kind : {"columns"}, node : Handles, lines : Lines, generation : Nat,
          refreshing : BOOLEAN]

NodeSets == UNION {[hs -> [text : Tables, param : Params, lines : Lines]] :
                     hs \in SUBSET Handles}

\* Types; and a connect is on its way only once the window has one pending.
TypeInv ==
  /\ jobs \in Seq(Jobs)
  /\ posted \in Seq(Messages)
  /\ {provider, pendingConn, currentConn} \subseteq Conns \cup {None}
  /\ \A n \in DOMAIN jobs : jobs[n].kind = "connect" => pendingConn \in Conns
  /\ \A k \in DOMAIN posted : posted[k].kind = "connected" => pendingConn \in Conns
  /\ nodes \in NodeSets
  /\ generation \in Nat
  /\ misplaced \in BOOLEAN

\* No answer is of a filling of the tree still to come; one that has a filling
\* before it in line was asked for while that was known.
OrderInv ==
  /\ \A n \in DOMAIN jobs : jobs[n].kind = "columns" =>
       /\ jobs[n].generation <= generation
       /\ Stale(jobs[n]) => jobs[n].refreshing
       /\ (\E k \in DOMAIN jobs : k < n /\ jobs[k].kind = "tables") => jobs[n].refreshing
       /\ (\E k \in DOMAIN posted : posted[k].kind = "tables") => jobs[n].refreshing
  /\ \A n \in DOMAIN posted : posted[n].kind = "columns" =>
       /\ posted[n].generation <= generation
       /\ Stale(posted[n]) => posted[n].refreshing
       /\ (\E k \in DOMAIN posted : k < n /\ posted[k].kind = "tables")
            => posted[n].refreshing

\* The n-th job, or the k-th message, is the current filling's answer to node h.
DueJob(n, h) ==
  /\ n \in DOMAIN jobs /\ jobs[n].kind = "columns"
  /\ jobs[n].node = h /\ jobs[n].generation = generation

DueMessage(k, h) ==
  /\ k \in DOMAIN posted /\ posted[k].kind = "columns"
  /\ posted[k].node = h /\ posted[k].generation = generation

NoneDue(h) ==
  (\A n \in DOMAIN jobs : ~DueJob(n, h)) /\ (\A k \in DOMAIN posted : ~DueMessage(k, h))

OneDue(h) ==
  \/ /\ \E n \in DOMAIN jobs : DueJob(n, h) /\ \A i \in DOMAIN jobs : DueJob(i, h) => i = n
     /\ \A k \in DOMAIN posted : ~DueMessage(k, h)
  \/ /\ \E k \in DOMAIN posted :
          DueMessage(k, h) /\ \A i \in DOMAIN posted : DueMessage(i, h) => i = k
     /\ \A n \in DOMAIN jobs : ~DueJob(n, h)

\* LoadingIsPending by positions in the line, without the count.
DueInv ==
  \A h \in DOMAIN nodes :
    /\ nodes[h].param = "loading" => OneDue(h)
    /\ nodes[h].param = "unloaded" => NoneDue(h)
    /\ nodes[h].param = "loaded" /\ ~misplaced => NoneDue(h)

\* What was asked of this filling is asked for a node that is still there, and of
\* the table it shows.
TextInv ==
  /\ \A n \in DOMAIN jobs :
       jobs[n].kind = "columns" /\ jobs[n].generation = generation =>
         /\ jobs[n].node \in DOMAIN nodes
         /\ jobs[n].table = nodes[jobs[n].node].text
  /\ \A n \in DOMAIN posted :
       posted[n].kind = "columns" /\ posted[n].generation = generation =>
         /\ posted[n].node \in DOMAIN nodes
         /\ posted[n].lines # None
              => posted[n].lines.table = nodes[posted[n].node].text
  /\ ~misplaced => \A h \in DOMAIN nodes :
       nodes[h].lines # None => nodes[h].lines.table = nodes[h].text

\* The tree is about to be filled again.
RefillDue ==
  \/ \E n \in DOMAIN jobs : jobs[n].kind = "tables"
  \/ \E n \in DOMAIN posted : posted[n].kind = "tables"
  \/ \E n \in DOMAIN posted : posted[n].kind = "connected" /\ posted[n].ok

\* Columns of an earlier connection, in the tree or posted, are followed by what
\* will remove them.
ConnInv ==
  provider # None =>
    /\ \A n \in DOMAIN posted :
         posted[n].kind = "columns" /\ posted[n].lines # None =>
           \/ posted[n].lines.conn = provider
           \/ \E k \in DOMAIN posted :
                k > n /\ posted[k].kind = "connected" /\ posted[k].ok
    /\ RefillDue \/ \A h \in DOMAIN nodes :
                      nodes[h].lines # None => nodes[h].lines.conn = provider

IInv == TypeInv /\ OrderInv /\ DueInv /\ TextInv /\ ConnInv

-----------------------------------------------------------------------------
(* The line of work.                                                       *)

\* The fields of a job, and of a message, by its kind.
LEMMA JobShape ==
  ASSUME NEW j \in Jobs
  PROVE  /\ j.kind \in {"connect", "tables", "columns"}
         /\ j.kind = "connect" => j.conn \in Conns
         /\ j.kind = "columns" => /\ j.table \in Tables /\ j.node \in Handles
                                  /\ j.generation \in Nat /\ j.refreshing \in BOOLEAN
  BY DEF Jobs

LEMMA MessageShape ==
  ASSUME NEW m \in Messages
  PROVE  /\ m.kind \in {"connected", "tables", "columns"}
         /\ m.kind = "connected" => m.ok \in BOOLEAN
         /\ m.kind = "tables" => m.tables \in TableSets
         /\ m.kind = "columns" => /\ m.node \in Handles /\ m.lines \in Lines
                                  /\ m.generation \in Nat /\ m.refreshing \in BOOLEAN
  BY DEF Messages

\* The line of work when the window adds to its end.
LEMMA Added ==
  ASSUME TypeInv, NEW e \in Jobs, jobs' = Append(jobs, e)
  PROVE  /\ jobs' \in Seq(Jobs)
         /\ Len(jobs) \in Nat /\ DOMAIN jobs = 1..Len(jobs)
         /\ DOMAIN jobs' = 1..(Len(jobs) + 1) /\ Len(jobs') = Len(jobs) + 1
         /\ \A i \in 1..Len(jobs) : jobs'[i] = jobs[i]
         /\ jobs'[Len(jobs) + 1] = e
  BY AppendFacts, SeqFacts, AppendProperties DEF TypeInv

\* The line of work when the worker has answered its first job with m.
LEMMA Answered ==
  ASSUME TypeInv, jobs # <<>>, NEW m \in Messages,
         jobs' = Tail(jobs), posted' = Append(posted, m)
  PROVE  /\ jobs' \in Seq(Jobs) /\ posted' \in Seq(Messages)
         /\ Len(jobs) \in Nat \ {0} /\ DOMAIN jobs = 1..Len(jobs)
         /\ Head(jobs) = jobs[1] /\ Head(jobs) \in Jobs
         /\ Len(jobs') = Len(jobs) - 1 /\ DOMAIN jobs' = 1..(Len(jobs) - 1)
         /\ \A i \in 1..(Len(jobs) - 1) : jobs'[i] = jobs[i + 1]
         /\ Len(posted) \in Nat /\ DOMAIN posted = 1..Len(posted)
         /\ Len(posted') = Len(posted) + 1 /\ DOMAIN posted' = 1..(Len(posted) + 1)
         /\ \A i \in 1..Len(posted) : posted'[i] = posted[i]
         /\ posted'[Len(posted) + 1] = m
  <1>1. jobs \in Seq(Jobs) /\ posted \in Seq(Messages)
    BY DEF TypeInv
  <1>2. /\ posted' \in Seq(Messages)
        /\ Len(posted) \in Nat /\ DOMAIN posted = 1..Len(posted)
        /\ Len(posted') = Len(posted) + 1 /\ DOMAIN posted' = 1..(Len(posted) + 1)
        /\ \A i \in 1..Len(posted) : posted'[i] = posted[i]
        /\ posted'[Len(posted) + 1] = m
    BY <1>1, AppendFacts, SeqFacts, AppendProperties
  <1>3. /\ jobs' \in Seq(Jobs)
        /\ Len(jobs) \in Nat \ {0} /\ DOMAIN jobs = 1..Len(jobs)
        /\ Head(jobs) = jobs[1] /\ Head(jobs) \in Jobs
        /\ Len(jobs') = Len(jobs) - 1 /\ DOMAIN jobs' = 1..(Len(jobs) - 1)
        /\ \A i \in 1..(Len(jobs) - 1) : jobs'[i] = jobs[i + 1]
    BY <1>1, TailFacts, SeqFacts
  <1> QED
    BY <1>2, <1>3

\* The line of work when the window has taken the first message.
LEMMA Handled ==
  ASSUME TypeInv, posted # <<>>, posted' = Tail(posted)
  PROVE  /\ posted' \in Seq(Messages)
         /\ Len(posted) \in Nat \ {0} /\ DOMAIN posted = 1..Len(posted)
         /\ Head(posted) = posted[1] /\ Head(posted) \in Messages
         /\ Len(posted') = Len(posted) - 1 /\ DOMAIN posted' = 1..(Len(posted) - 1)
         /\ \A i \in 1..(Len(posted) - 1) : posted'[i] = posted[i + 1]
  BY TailFacts, SeqFacts DEF TypeInv

-----------------------------------------------------------------------------
(* The nodes.                                                              *)

LEMMA NodeShape ==
  ASSUME nodes \in NodeSets
  PROVE  /\ DOMAIN nodes \subseteq Handles
         /\ \A h \in DOMAIN nodes : /\ nodes[h].text \in Tables
                                    /\ nodes[h].param \in Params
                                    /\ nodes[h].lines \in Lines
  BY DEF NodeSets

\* Marking a node changes nothing else.
LEMMA NodeMarked ==
  ASSUME nodes \in NodeSets, NEW h \in DOMAIN nodes, NEW p \in Params,
         nodes' = [nodes EXCEPT ![h].param = p]
  PROVE  /\ nodes' \in NodeSets
         /\ DOMAIN nodes' = DOMAIN nodes
         /\ nodes'[h].param = p
         /\ \A g \in DOMAIN nodes : /\ g # h => nodes'[g] = nodes[g]
                                    /\ nodes'[g].text = nodes[g].text
                                    /\ nodes'[g].lines = nodes[g].lines
  <1>1. PICK hs \in SUBSET Handles :
          nodes \in [hs -> [text : Tables, param : Params, lines : Lines]]
    BY DEF NodeSets
  <1>2. nodes' \in [hs -> [text : Tables, param : Params, lines : Lines]]
    BY <1>1
  <1> QED
    BY <1>1, <1>2 DEF NodeSets

\* Nor does answering it.
LEMMA NodeAnswered ==
  ASSUME nodes \in NodeSets, NEW h \in DOMAIN nodes, NEW lines \in Lines,
         nodes' = [nodes EXCEPT ![h].param = "loaded", ![h].lines = lines]
  PROVE  /\ nodes' \in NodeSets
         /\ DOMAIN nodes' = DOMAIN nodes
         /\ nodes'[h].param = "loaded" /\ nodes'[h].lines = lines
         /\ \A g \in DOMAIN nodes : /\ g # h => nodes'[g] = nodes[g]
                                    /\ nodes'[g].text = nodes[g].text
  <1>1. PICK hs \in SUBSET Handles :
          nodes \in [hs -> [text : Tables, param : Params, lines : Lines]]
    BY DEF NodeSets
  <1>2. nodes' \in [hs -> [text : Tables, param : Params, lines : Lines]]
    BY <1>1 DEF Params
  <1> QED
    BY <1>1, <1>2 DEF NodeSets

-----------------------------------------------------------------------------
(* What the steps do to the line of work.                                  *)

\* The worker's three jobs end alike: a message of the same kind, about the same.
Answer(m) ==
  /\ jobs # <<>>
  /\ jobs' = Tail(jobs) /\ posted' = Append(posted, m)
  /\ m.kind = "columns" <=> Head(jobs).kind = "columns"
  /\ m.kind = "tables" <=> Head(jobs).kind = "tables"
  /\ m.kind = "connected" <=> Head(jobs).kind = "connect"
  /\ m.kind = "columns" =>
       /\ m.node = Head(jobs).node
       /\ m.generation = Head(jobs).generation
       /\ m.refreshing = Head(jobs).refreshing
       /\ m.lines # None => m.lines.table = Head(jobs).table
  /\ UNCHANGED <<pendingConn, currentConn, nodes, generation, misplaced>>

LEMMA WorkerAnswers ==
  ASSUME TypeInv
  PROVE  /\ ConnectJob => \E m \in Messages : Answer(m)
         /\ TablesJob => /\ \E m \in Messages : Answer(m)
                         /\ provider' = provider
         /\ ColumnsJob => /\ \E m \in Messages :
                               /\ Answer(m)
                               /\ m.lines # None => m.lines.conn = provider
                          /\ provider' = provider
  <1> USE TreeAssumption
  <1>1. jobs # <<>> => Head(jobs) \in Jobs
    BY HeadTailProperties DEF TypeInv
  <1>2. provider \in Conns \cup {None}
    BY DEF TypeInv
  <1>3. ASSUME ConnectJob PROVE \E m \in Messages : Answer(m)
    <2>1. PICK ok \in BOOLEAN : posted' = Append(posted, [kind |-> "connected", ok |-> ok])
      BY <1>3 DEF ConnectJob
    <2> DEFINE m == [kind |-> "connected", ok |-> ok]
    <2>2. m \in Messages /\ m.kind = "connected"
      BY DEF Messages
    <2>3. posted' = Append(posted, m) /\ jobs # <<>> /\ jobs' = Tail(jobs)
          /\ Head(jobs).kind = "connect"
      BY <1>3, <2>1 DEF ConnectJob, Job
    <2> HIDE DEF m
    <2>4. Answer(m)
      BY <1>3, <2>2, <2>3 DEF Answer, ConnectJob
    <2> QED
      BY <2>2, <2>4
  <1>4. ASSUME TablesJob PROVE \E m \in Messages : Answer(m)
    <2>1. PICK tables \in TableSets :
            posted' = Append(posted, [kind |-> "tables", tables |-> tables])
      BY <1>2, <1>4 DEF TablesJob, TableSets, Understood
    <2> DEFINE m == [kind |-> "tables", tables |-> tables]
    <2>2. m \in Messages /\ m.kind = "tables"
      BY DEF Messages
    <2>3. posted' = Append(posted, m) /\ jobs # <<>> /\ jobs' = Tail(jobs)
          /\ Head(jobs).kind = "tables"
      BY <1>4, <2>1 DEF TablesJob, Job
    <2> HIDE DEF m
    <2>4. Answer(m)
      BY <1>4, <2>2, <2>3 DEF Answer, TablesJob
    <2> QED
      BY <2>2, <2>4
  <1>5. ASSUME ColumnsJob
        PROVE  \E m \in Messages : Answer(m) /\ (m.lines # None => m.lines.conn = provider)
    <2> DEFINE j == Head(jobs)
    <2>1. jobs # <<>> /\ jobs' = Tail(jobs) /\ j.kind = "columns"
      BY <1>5 DEF ColumnsJob, Job
    <2>2. /\ j.table \in Tables /\ j.node \in Handles
          /\ j.generation \in Nat /\ j.refreshing \in BOOLEAN
      BY <1>1, <2>1, JobShape
    <2>3. PICK lines :
            /\ \/ lines = None
               \/ Understood /\ lines = [conn |-> provider, table |-> j.table]
            /\ posted' = Append(posted, [kind |-> "columns", node |-> j.node,
                                         lines |-> lines, generation |-> j.generation,
                                         refreshing |-> j.refreshing])
      BY <1>5 DEF ColumnsJob
    <2> HIDE DEF j
    <2>4. /\ lines \in Lines
          /\ lines # None => lines.table = j.table /\ lines.conn = provider
      BY <1>2, <2>2, <2>3 DEF Lines, Understood
    <2> DEFINE m == [kind |-> "columns", node |-> j.node, lines |-> lines,
                     generation |-> j.generation, refreshing |-> j.refreshing]
    <2>5. /\ m \in Messages /\ m.kind = "columns" /\ m.node = j.node /\ m.lines = lines
          /\ m.generation = j.generation /\ m.refreshing = j.refreshing
      BY <2>2, <2>4 DEF Messages
    <2>6. posted' = Append(posted, m)
      BY <2>3
    <2> HIDE DEF m
    <2>7. Answer(m)
      BY <1>5, <2>1, <2>4, <2>5, <2>6 DEF Answer, ColumnsJob, j
    <2> QED
      BY <2>4, <2>5, <2>7
  <1> QED
    BY <1>3, <1>4, <1>5 DEF TablesJob, ColumnsJob

\* A job that asks for no columns joins the line: a connect or a fetch of tables.
AddOther(e) == e.kind \in {"connect", "tables"} /\ jobs' = Append(jobs, e)

LEMMA OpenAdds ==
  ASSUME Open
  PROVE  \E e \in Jobs : AddOther(e) /\ pendingConn' \in Conns
  <1>1. PICK c \in Conns : /\ pendingConn' = c
                           /\ jobs' = Append(jobs, [kind |-> "connect", conn |-> c])
    BY DEF Open
  <1>2. [kind |-> "connect", conn |-> c] \in Jobs
    BY DEF Jobs
  <1> QED
    BY <1>1, <1>2 DEF AddOther

LEMMA FetchAdds ==
  ASSUME NEW engine \in Engines, fetchTablesAsync(engine)
  PROVE  \/ provider = None /\ jobs' = jobs
         \/ \E e \in Jobs : AddOther(e) /\ e.kind = "tables"
  <1>1. [kind |-> "tables", engine |-> engine] \in Jobs
    BY DEF Jobs
  <1> QED
    BY <1>1 DEF AddOther, fetchTablesAsync

LEMMA EngineKnown == ASSUME TypeInv PROVE Engine \in Engines
  BY DEF TypeInv, Engine, Engines

LEMMA RefreshAdds ==
  ASSUME TypeInv, Refresh
  PROVE  \E e \in Jobs : AddOther(e) /\ e.kind = "tables"
  BY EngineKnown, FetchAdds DEF Refresh

\* What an expanded node asks for joins the line.
AskColumns(h, e) ==
  /\ h \in DOMAIN nodes /\ nodes[h].param = "unloaded"
  /\ nodes' = [nodes EXCEPT ![h].param = "loading"]
  /\ jobs' = Append(jobs, e)
  /\ e.kind = "columns" /\ e.node = h /\ e.table = nodes[h].text
  /\ e.generation = generation
  /\ e.refreshing = (Outstanding("tables") # {})

LEMMA ExpandAsks ==
  ASSUME TypeInv, onTreeExpand
  PROVE  \E h \in Handles : \E e \in Jobs : AskColumns(h, e)
  <1>1. PICK h \in DOMAIN nodes : /\ nodes[h].param = "unloaded"
                                  /\ nodes' = [nodes EXCEPT ![h].param = "loading"]
                                  /\ fetchColumnsForNode(h)
    BY DEF onTreeExpand
  <1> DEFINE e == [kind |-> "columns", engine |-> Engine, table |-> nodes[h].text,
                   node |-> h, generation |-> generation,
                   refreshing |-> Outstanding("tables") # {}]
  <1>2. nodes[h].text \in Tables /\ h \in Handles
    BY NodeShape DEF TypeInv
  <1>3. e \in Jobs
    BY <1>2, EngineKnown DEF Jobs, TypeInv
  <1>4. AskColumns(h, e)
    BY <1>1 DEF AskColumns, fetchColumnsForNode
  <1> QED
    BY <1>2, <1>3, <1>4

-----------------------------------------------------------------------------
(* Types.                                                                  *)

LEMMA TypeInit == Init => TypeInv
  <1> SUFFICES ASSUME Init PROVE TypeInv
    OBVIOUS
  <1>1. NoNodes \in NodeSets
    BY DEF NoNodes, NodeSets
  <1>2. jobs \in Seq(Jobs) /\ DOMAIN jobs = {} /\ posted \in Seq(Messages) /\ DOMAIN posted = {}
    BY DEF Init
  <1> QED
    BY <1>1, <1>2 DEF Init, TypeInv

LEMMA OtherTyped ==
  ASSUME TypeInv, NEW e \in Jobs, AddOther(e),
         pendingConn' = pendingConn \/ pendingConn' \in Conns,
         e.kind = "connect" => pendingConn' \in Conns
  PROVE  /\ jobs' \in Seq(Jobs)
         /\ pendingConn' \in Conns \cup {None}
         /\ \A n \in DOMAIN jobs' : jobs'[n].kind = "connect" => pendingConn' \in Conns
         /\ \A k \in DOMAIN posted : posted[k].kind = "connected" => pendingConn' \in Conns
  <1>1. /\ jobs' \in Seq(Jobs)
        /\ DOMAIN jobs = 1..Len(jobs)
        /\ DOMAIN jobs' = 1..(Len(jobs) + 1)
        /\ \A i \in 1..Len(jobs) : jobs'[i] = jobs[i]
        /\ jobs'[Len(jobs) + 1] = e /\ Len(jobs) \in Nat
    BY Added DEF AddOther
  <1>2. \A i \in DOMAIN jobs' : (i \in DOMAIN jobs /\ jobs'[i] = jobs[i]) \/ jobs'[i] = e
    BY <1>1
  <1> QED
    BY <1>1, <1>2 DEF TypeInv

LEMMA WorkerTyped ==
  ASSUME TypeInv, NEW m \in Messages, Answer(m), provider' \in Conns \cup {None}
  PROVE  TypeInv'
  <1>1. /\ jobs' \in Seq(Jobs) /\ posted' \in Seq(Messages)
        /\ Len(jobs) \in Nat \ {0} /\ DOMAIN jobs = 1..Len(jobs)
        /\ Head(jobs) = jobs[1]
        /\ DOMAIN jobs' = 1..(Len(jobs) - 1)
        /\ \A i \in 1..(Len(jobs) - 1) : jobs'[i] = jobs[i + 1]
        /\ Len(posted) \in Nat /\ DOMAIN posted = 1..Len(posted)
        /\ DOMAIN posted' = 1..(Len(posted) + 1)
        /\ \A i \in 1..Len(posted) : posted'[i] = posted[i]
        /\ posted'[Len(posted) + 1] = m
    BY Answered DEF Answer
  <1>2. UNCHANGED <<pendingConn, currentConn, nodes, generation, misplaced>>
    BY DEF Answer
  <1>3. \A n \in DOMAIN jobs' : n + 1 \in DOMAIN jobs /\ jobs'[n] = jobs[n + 1]
    BY <1>1
  <1>4. \A k \in DOMAIN posted' : (k \in DOMAIN posted /\ posted'[k] = posted[k]) \/ posted'[k] = m
    BY <1>1
  <1>5. m.kind = "connected" => pendingConn \in Conns
    <2>1. 1 \in DOMAIN jobs
      BY <1>1
    <2> QED
      BY <1>1, <2>1 DEF Answer, TypeInv
  <1> QED
    BY <1>1, <1>2, <1>3, <1>4, <1>5 DEF TypeInv

\* What handling a message does to the types, the handler's own changes apart.
LEMMA MessageTyped ==
  ASSUME TypeInv, posted # <<>>, posted' = Tail(posted)
  PROVE  /\ posted' \in Seq(Messages)
         /\ \A k \in DOMAIN posted' : posted'[k].kind = "connected" => pendingConn \in Conns
         /\ Head(posted).kind = "connected" => pendingConn \in Conns
  <1>1. /\ posted' \in Seq(Messages)
        /\ Len(posted) \in Nat \ {0} /\ DOMAIN posted = 1..Len(posted)
        /\ Head(posted) = posted[1]
        /\ DOMAIN posted' = 1..(Len(posted) - 1)
        /\ \A i \in 1..(Len(posted) - 1) : posted'[i] = posted[i + 1]
    BY Handled
  <1>2. 1 \in DOMAIN posted /\ \A n \in DOMAIN posted' : n + 1 \in DOMAIN posted /\ posted'[n] = posted[n + 1]
    BY <1>1
  <1> QED
    BY <1>1, <1>2 DEF TypeInv

LEMMA FilledTyped ==
  ASSUME TypeInv, populateTables
  PROVE  /\ nodes' \in NodeSets
         /\ \A h \in DOMAIN nodes' : nodes'[h].param = "unloaded" /\ nodes'[h].lines = None
  <1> DEFINE tables == Head(posted).tables
  <1>1. tables \in TableSets
    BY Handled, MessageShape DEF populateTables, Message
  <1>2. \A t \in tables : t \in Tables
    BY <1>1 DEF TableSets, Tables
  <1>3. PICK hs \in SUBSET Handles : \E name \in [hs -> tables] :
          nodes' = [h \in hs |-> [text |-> name[h], param |-> "unloaded", lines |-> None]]
    BY DEF populateTables
  <1>4. PICK name \in [hs -> tables] :
          nodes' = [h \in hs |-> [text |-> name[h], param |-> "unloaded", lines |-> None]]
    BY <1>3
  <1> HIDE DEF tables
  <1>5. nodes' \in [hs -> [text : Tables, param : Params, lines : Lines]]
    BY <1>2, <1>4 DEF Params, Lines
  <1> QED
    BY <1>4, <1>5 DEF NodeSets

LEMMA TypeStep == TypeInv /\ [Next]_vars => TypeInv'
  <1> SUFFICES ASSUME TypeInv, [Next]_vars PROVE TypeInv'
    OBVIOUS
  <1>1. CASE UNCHANGED vars
    BY <1>1 DEF TypeInv, vars
  <1>2. CASE Open
    <2>1. PICK e \in Jobs : AddOther(e) /\ pendingConn' \in Conns
      BY <1>2, OpenAdds
    <2> QED
      BY <1>2, <2>1, OtherTyped DEF Open, TypeInv
  <1>3. CASE Refresh
    <2>1. PICK e \in Jobs : AddOther(e) /\ e.kind = "tables"
      BY <1>3, RefreshAdds
    <2>2. pendingConn' = pendingConn
      BY <1>3 DEF Refresh
    <2> QED
      BY <1>3, <2>1, <2>2, OtherTyped DEF Refresh, TypeInv
  <1>4. CASE onTreeExpand
    <2>1. PICK h \in Handles : \E e \in Jobs : AskColumns(h, e)
      BY <1>4, ExpandAsks
    <2>2. PICK e \in Jobs : AskColumns(h, e)
      BY <2>1
    <2>3. nodes' \in NodeSets
      BY <2>2, NodeMarked DEF AskColumns, TypeInv, Params
    <2>4. /\ jobs' \in Seq(Jobs)
          /\ Len(jobs) \in Nat /\ DOMAIN jobs = 1..Len(jobs)
          /\ DOMAIN jobs' = 1..(Len(jobs) + 1)
          /\ \A i \in 1..Len(jobs) : jobs'[i] = jobs[i]
          /\ jobs'[Len(jobs) + 1] = e
      BY <2>2, Added DEF AskColumns
    <2>5. \A i \in DOMAIN jobs' : (i \in DOMAIN jobs /\ jobs'[i] = jobs[i]) \/ jobs'[i] = e
      BY <2>4
    <2>6. e.kind = "columns"
      BY <2>2 DEF AskColumns
    <2> QED
      BY <1>4, <2>3, <2>4, <2>5, <2>6 DEF onTreeExpand, TypeInv
  <1>5. CASE ConnectJob \/ TablesJob \/ ColumnsJob
    <2>1. PICK m \in Messages : Answer(m)
      BY <1>5, WorkerAnswers
    <2>2. provider' \in Conns \cup {None}
      <3>1. CASE ConnectJob
        <4>1. Head(jobs).kind = "connect" /\ Head(jobs) \in Jobs
          BY <2>1, <3>1, Answered DEF ConnectJob, Job, Answer
        <4> QED
          BY <3>1, <4>1, JobShape DEF ConnectJob
      <3> QED
        BY <1>5, <3>1 DEF TablesJob, ColumnsJob, TypeInv
    <2> QED
      BY <2>1, <2>2, WorkerTyped
  <1>6. CASE Connected
    <2>1. posted # <<>> /\ posted' = Tail(posted) /\ Head(posted).kind = "connected"
      BY <1>6 DEF Connected, Message
    <2>2. /\ posted' \in Seq(Messages)
          /\ \A k \in DOMAIN posted' : posted'[k].kind = "connected" => pendingConn \in Conns
          /\ pendingConn \in Conns
      BY <2>1, MessageTyped
    <2>3. UNCHANGED <<provider, pendingConn, nodes, generation, misplaced>>
      BY <1>6 DEF Connected
    <2>4. currentConn' \in Conns \cup {None}
      BY <1>6, <2>2 DEF Connected, TypeInv
    <2>5. /\ jobs' \in Seq(Jobs)
          /\ \A n \in DOMAIN jobs' : jobs'[n].kind = "connect" => pendingConn \in Conns
      <3>1. CASE jobs' = jobs
        BY <3>1 DEF TypeInv
      <3>2. CASE fetchTablesAsync(pendingConn.engine)
        <4>1. pendingConn.engine \in Engines
          BY <2>2 DEF Engines
        <4> QED
          BY <2>2, <2>3, <3>1, <3>2, <4>1, FetchAdds, OtherTyped
      <3> QED
        BY <1>6, <3>1, <3>2 DEF Connected
    <2> QED
      BY <2>2, <2>3, <2>4, <2>5 DEF TypeInv
  <1>7. CASE populateTables
    <2>1. posted # <<>> /\ posted' = Tail(posted)
      BY <1>7 DEF populateTables, Message
    <2>2. /\ nodes' \in NodeSets /\ generation' = generation + 1 /\ misplaced' = FALSE
          /\ UNCHANGED <<provider, jobs, pendingConn, currentConn>>
      BY <1>7, FilledTyped DEF populateTables
    <2>3. generation' \in Nat
      BY <2>2 DEF TypeInv
    <2> QED
      BY <2>1, <2>2, <2>3, MessageTyped DEF TypeInv
  <1>8. CASE populateColumns
    <2>1. posted # <<>> /\ posted' = Tail(posted) /\ Head(posted).kind = "columns"
      BY <1>8 DEF populateColumns, Message
    <2>2. Head(posted).lines \in Lines
      BY <2>1, Handled, MessageShape
    <2>3. nodes' \in NodeSets
      BY <1>8, <2>2, NodeAnswered DEF populateColumns, TypeInv
    <2>4. misplaced' \in BOOLEAN
      BY <1>8 DEF populateColumns, TypeInv
    <2> QED
      BY <1>8, <2>1, <2>3, <2>4, MessageTyped DEF populateColumns, TypeInv
  <1> QED
    BY <1>1, <1>2, <1>3, <1>4, <1>5, <1>6, <1>7, <1>8 DEF Next, Work

-----------------------------------------------------------------------------
(* The order of the line.                                                  *)

LEMMA OrderInit == Init => OrderInv
  <1> SUFFICES ASSUME Init PROVE OrderInv
    OBVIOUS
  <1>1. DOMAIN jobs = {} /\ DOMAIN posted = {}
    BY DEF Init
  <1> QED
    BY <1>1 DEF OrderInv

\* Steps that ask for no columns and answer none keep the line, but for a message
\* that may be taken from its front.
JobsKept ==
  /\ DOMAIN jobs \subseteq DOMAIN jobs'
  /\ \A n \in DOMAIN jobs : /\ jobs'[n] = jobs[n]
                            /\ \A k \in DOMAIN jobs' : k < n => k \in DOMAIN jobs
  /\ \A n \in DOMAIN jobs' : jobs'[n].kind = "columns" => n \in DOMAIN jobs

Moved(s) ==
  /\ Len(posted) \in Nat /\ DOMAIN posted = 1..Len(posted)
  /\ Len(posted) >= s
  /\ DOMAIN posted' = 1..(Len(posted) - s)
  /\ \A k \in 1..(Len(posted) - s) : posted'[k] = posted[k + s]

LEMMA JobsAreKept ==
  ASSUME TypeInv, jobs' = jobs \/ \E e \in Jobs : AddOther(e)
  PROVE  JobsKept
  <1>1. CASE jobs' = jobs
    BY <1>1 DEF JobsKept
  <1>2. ASSUME NEW e \in Jobs, AddOther(e) PROVE JobsKept
    <2>1. /\ Len(jobs) \in Nat /\ DOMAIN jobs = 1..Len(jobs)
          /\ DOMAIN jobs' = 1..(Len(jobs) + 1)
          /\ \A i \in 1..Len(jobs) : jobs'[i] = jobs[i]
          /\ jobs'[Len(jobs) + 1] = e
      BY <1>2, Added DEF AddOther
    <2>2. e.kind # "columns"
      BY <1>2 DEF AddOther
    <2> QED
      BY <2>1, <2>2 DEF JobsKept
  <1> QED
    BY <1>1, <1>2

LEMMA PostedMoves ==
  ASSUME TypeInv
  PROVE  /\ posted' = posted => Moved(0)
         /\ posted # <<>> /\ posted' = Tail(posted) => Moved(1)
  <1>1. Len(posted) \in Nat /\ DOMAIN posted = 1..Len(posted)
    BY SeqFacts DEF TypeInv
  <1>2. ASSUME posted' = posted PROVE Moved(0)
    BY <1>1, <1>2 DEF Moved
  <1>3. ASSUME posted # <<>>, posted' = Tail(posted) PROVE Moved(1)
    BY <1>3, Handled DEF Moved
  <1> QED
    BY <1>2, <1>3

\* Opening, refreshing, and the answer to a connect are such steps.
LEMMA QuietSteps ==
  ASSUME TypeInv, Open \/ Refresh \/ Connected
  PROVE  /\ JobsKept
         /\ \E s \in {0, 1} : Moved(s)
         /\ UNCHANGED <<nodes, generation, misplaced>>
  <1>1. ASSUME Open \/ Refresh PROVE JobsKept /\ Moved(0)
    <2>1. posted' = posted
      BY <1>1 DEF Open, Refresh
    <2>2. \E e \in Jobs : AddOther(e)
      BY <1>1, OpenAdds, RefreshAdds
    <2> QED
      BY <2>1, <2>2, JobsAreKept, PostedMoves
  <1>2. ASSUME Connected PROVE JobsKept /\ Moved(1)
    <2>1. posted # <<>> /\ posted' = Tail(posted) /\ Head(posted).kind = "connected"
      BY <1>2 DEF Connected, Message
    <2>2. pendingConn \in Conns
      BY <2>1, MessageTyped
    <2>3. pendingConn.engine \in Engines
      BY <2>2 DEF Engines
    <2>4. jobs' = jobs \/ fetchTablesAsync(pendingConn.engine)
      BY <1>2 DEF Connected
    <2>5. jobs' = jobs \/ \E e \in Jobs : AddOther(e)
      BY <2>3, <2>4, FetchAdds
    <2> QED
      BY <2>1, <2>5, JobsAreKept, PostedMoves
  <1> QED
    BY <1>1, <1>2 DEF Open, Refresh, Connected

LEMMA OrderQuiet ==
  ASSUME TypeInv, OrderInv, JobsKept, NEW s \in {0, 1}, Moved(s),
         generation' = generation
  PROVE  OrderInv'
  <1>1. \A k \in DOMAIN posted' : k + s \in DOMAIN posted /\ posted'[k] = posted[k + s]
    BY DEF Moved
  <1>2. ASSUME NEW n \in DOMAIN posted', posted'[n].kind = "columns",
               NEW k \in DOMAIN posted', k < n, posted'[k].kind = "tables"
        PROVE  posted'[n].refreshing
    <2>1. k + s < n + s /\ n + s \in DOMAIN posted /\ k + s \in DOMAIN posted
      BY <1>1, <1>2 DEF Moved
    <2> QED
      BY <1>1, <1>2, <2>1 DEF OrderInv
  <1>3. ASSUME NEW n \in DOMAIN jobs', jobs'[n].kind = "columns"
        PROVE  /\ jobs'[n].generation <= generation
               /\ Stale(jobs'[n]) => jobs'[n].refreshing
               /\ (\E k \in DOMAIN jobs' : k < n /\ jobs'[k].kind = "tables")
                    => jobs'[n].refreshing
               /\ (\E k \in DOMAIN posted' : posted'[k].kind = "tables")
                    => jobs'[n].refreshing
    <2>1. n \in DOMAIN jobs /\ jobs'[n] = jobs[n]
      BY <1>3 DEF JobsKept
    <2>2. \A k \in DOMAIN jobs' : k < n => k \in DOMAIN jobs /\ jobs'[k] = jobs[k]
      BY <2>1 DEF JobsKept
    <2> QED
      BY <1>1, <1>3, <2>1, <2>2 DEF OrderInv
  <1> QED
    BY <1>1, <1>2, <1>3 DEF OrderInv, Stale

LEMMA OrderAsk ==
  ASSUME TypeInv, OrderInv, NEW h \in Handles, NEW e \in Jobs, AskColumns(h, e),
         UNCHANGED <<posted, generation>>
  PROVE  OrderInv'
  <1>1. /\ Len(jobs) \in Nat /\ DOMAIN jobs = 1..Len(jobs)
        /\ DOMAIN jobs' = 1..(Len(jobs) + 1)
        /\ \A i \in 1..Len(jobs) : jobs'[i] = jobs[i]
        /\ jobs'[Len(jobs) + 1] = e
    BY Added DEF AskColumns
  <1>2. DOMAIN posted = 1..Len(posted)
    BY SeqFacts DEF TypeInv
  <1>3. (\E k \in DOMAIN jobs : jobs[k].kind = "tables")
          \/ (\E k \in DOMAIN posted : posted[k].kind = "tables") => e.refreshing
    BY <1>1, <1>2 DEF AskColumns, Outstanding
  <1>4. e.kind = "columns" /\ e.generation = generation /\ generation \in Nat
    BY DEF AskColumns, TypeInv
  <1>5. \A n \in DOMAIN jobs' :
          /\ \/ n \in DOMAIN jobs /\ jobs'[n] = jobs[n]
             \/ n = Len(jobs) + 1 /\ jobs'[n] = e
          /\ \A k \in DOMAIN jobs' : k < n => k \in DOMAIN jobs /\ jobs'[k] = jobs[k]
    BY <1>1
  <1> QED
    BY <1>3, <1>4, <1>5 DEF OrderInv, Stale

LEMMA OrderWorker ==
  ASSUME TypeInv, OrderInv, NEW m \in Messages, Answer(m)
  PROVE  OrderInv'
  <1>1. /\ Len(jobs) \in Nat \ {0} /\ DOMAIN jobs = 1..Len(jobs)
        /\ Head(jobs) = jobs[1]
        /\ DOMAIN jobs' = 1..(Len(jobs) - 1)
        /\ \A i \in 1..(Len(jobs) - 1) : jobs'[i] = jobs[i + 1]
        /\ Len(posted) \in Nat /\ DOMAIN posted = 1..Len(posted)
        /\ DOMAIN posted' = 1..(Len(posted) + 1)
        /\ \A i \in 1..Len(posted) : posted'[i] = posted[i]
        /\ posted'[Len(posted) + 1] = m
    BY Answered DEF Answer
  <1>2. generation' = generation
    BY DEF Answer
  <1>3. ASSUME NEW n \in DOMAIN jobs', jobs'[n].kind = "columns"
        PROVE  /\ jobs'[n].generation <= generation
               /\ Stale(jobs'[n]) => jobs'[n].refreshing
               /\ (\E k \in DOMAIN jobs' : k < n /\ jobs'[k].kind = "tables")
                    => jobs'[n].refreshing
               /\ (\E k \in DOMAIN posted' : posted'[k].kind = "tables")
                    => jobs'[n].refreshing
    <2>1. n + 1 \in DOMAIN jobs /\ jobs'[n] = jobs[n + 1]
      BY <1>1
    <2>2. ASSUME NEW k \in DOMAIN jobs', k < n, jobs'[k].kind = "tables"
          PROVE  jobs'[n].refreshing
      <3>1. k + 1 \in DOMAIN jobs /\ k + 1 < n + 1 /\ jobs[k + 1].kind = "tables"
        BY <1>1, <2>2
      <3> QED
        BY <1>3, <2>1, <3>1 DEF OrderInv
    <2>3. ASSUME NEW k \in DOMAIN posted', posted'[k].kind = "tables"
          PROVE  jobs'[n].refreshing
      <3>1. CASE k \in DOMAIN posted
        <4>1. posted'[k] = posted[k]
          BY <1>1, <3>1
        <4> QED
          BY <1>3, <2>1, <2>3, <3>1, <4>1 DEF OrderInv
      <3>2. CASE k \notin DOMAIN posted
        <4>1. posted'[k] = m
          BY <1>1, <3>2
        <4>2. jobs[1].kind = "tables" /\ 1 \in DOMAIN jobs /\ 1 < n + 1
          BY <1>1, <2>3, <4>1 DEF Answer
        <4> QED
          BY <1>3, <2>1, <4>2 DEF OrderInv
      <3> QED
        BY <3>1, <3>2
    <2> QED
      BY <1>3, <2>1, <2>2, <2>3 DEF OrderInv
  <1>4. ASSUME NEW n \in DOMAIN posted', posted'[n].kind = "columns"
        PROVE  /\ posted'[n].generation <= generation
               /\ Stale(posted'[n]) => posted'[n].refreshing
               /\ (\E k \in DOMAIN posted' : k < n /\ posted'[k].kind = "tables")
                    => posted'[n].refreshing
    <2>1. \A k \in DOMAIN posted' : k < n => k \in DOMAIN posted /\ posted'[k] = posted[k]
      BY <1>1
    <2>2. CASE n \in DOMAIN posted
      <3>1. posted'[n] = posted[n]
        BY <1>1, <2>2
      <3> QED
        BY <1>4, <2>1, <2>2, <3>1 DEF OrderInv
    <2>3. CASE n \notin DOMAIN posted
      <3>1. posted'[n] = m /\ 1 \in DOMAIN jobs
        BY <1>1, <2>3
      <3>2. /\ jobs[1].kind = "columns" /\ m.generation = jobs[1].generation
            /\ m.refreshing = jobs[1].refreshing /\ m.kind = "columns"
        BY <1>1, <1>4, <3>1 DEF Answer
      <3>3. /\ jobs[1].generation <= generation
            /\ Stale(jobs[1]) => jobs[1].refreshing
            /\ (\E k \in DOMAIN posted : posted[k].kind = "tables") => jobs[1].refreshing
        BY <3>1, <3>2 DEF OrderInv
      <3> QED
        BY <2>1, <3>1, <3>2, <3>3 DEF Stale
    <2> QED
      BY <2>2, <2>3
  <1> QED
    BY <1>2, <1>3, <1>4 DEF OrderInv, Stale

\* The tree is filled again: what was current becomes stale, but it stood behind
\* the tables in line.
LEMMA OrderFilled == TypeInv /\ OrderInv /\ populateTables => OrderInv'
  <1> SUFFICES ASSUME TypeInv, OrderInv, populateTables PROVE OrderInv'
    OBVIOUS
  <1>1. /\ posted # <<>> /\ posted' = Tail(posted) /\ Head(posted).kind = "tables"
        /\ generation' = generation + 1 /\ generation \in Nat /\ jobs' = jobs
    BY DEF populateTables, Message, TypeInv
  <1>2. /\ Len(posted) \in Nat \ {0} /\ DOMAIN posted = 1..Len(posted)
        /\ DOMAIN posted' = 1..(Len(posted) - 1)
        /\ Head(posted) = posted[1]
        /\ \A i \in 1..(Len(posted) - 1) : posted'[i] = posted[i + 1]
    BY <1>1, Handled
  <1>3. 1 \in DOMAIN posted /\ posted[1].kind = "tables"
    BY <1>1, <1>2
  <1>4. \A n \in DOMAIN jobs : jobs[n] \in Jobs
    BY SeqFacts DEF TypeInv
  <1>5. ASSUME NEW n \in DOMAIN jobs, jobs[n].kind = "columns"
        PROVE  jobs[n].refreshing /\ jobs[n].generation <= generation + 1
    <2>1. jobs[n].refreshing /\ jobs[n].generation <= generation
      BY <1>3, <1>5 DEF OrderInv
    <2> QED
      BY <1>1, <1>4, <1>5, <2>1, JobShape
  <1>6. ASSUME NEW n \in DOMAIN posted', posted'[n].kind = "columns"
        PROVE  posted'[n].refreshing /\ posted'[n].generation <= generation + 1
    <2>1. n + 1 \in DOMAIN posted /\ posted'[n] = posted[n + 1] /\ 1 < n + 1
      BY <1>2
    <2>2. posted[n + 1] \in Messages
      BY <2>1, SeqFacts DEF TypeInv
    <2>3. posted[n + 1].refreshing /\ posted[n + 1].generation <= generation
      BY <1>3, <1>6, <2>1 DEF OrderInv
    <2> QED
      BY <1>1, <1>6, <2>1, <2>2, <2>3, MessageShape
  <1> QED
    BY <1>1, <1>5, <1>6 DEF OrderInv

LEMMA OrderStep == TypeInv /\ OrderInv /\ [Next]_vars => OrderInv'
  <1> SUFFICES ASSUME TypeInv, OrderInv, [Next]_vars PROVE OrderInv'
    OBVIOUS
  <1>1. CASE UNCHANGED vars
    BY <1>1 DEF OrderInv, Stale, vars
  <1>2. CASE Open \/ Refresh \/ Connected
    BY <1>2, QuietSteps, OrderQuiet
  <1>3. CASE onTreeExpand
    BY <1>3, ExpandAsks, OrderAsk DEF onTreeExpand
  <1>4. CASE ConnectJob \/ TablesJob \/ ColumnsJob
    BY <1>4, WorkerAnswers, OrderWorker
  <1>5. CASE populateTables
    BY <1>5, OrderFilled
  <1>6. CASE populateColumns
    <2>1. posted # <<>> /\ posted' = Tail(posted) /\ UNCHANGED <<jobs, generation>>
      BY <1>6 DEF populateColumns, Message
    <2> QED
      BY <2>1, PostedMoves, JobsAreKept, OrderQuiet
  <1> QED
    BY <1>1, <1>2, <1>3, <1>4, <1>5, <1>6 DEF Next, Work

-----------------------------------------------------------------------------
(* The answers that are due.                                               *)

LEMMA DueInit == Init => DueInv
  BY DEF Init, NoNodes, DueInv

LEMMA DueQuiet ==
  ASSUME JobsKept, NEW s \in {0, 1}, Moved(s), generation' = generation,
         NEW h, s = 1 => ~DueMessage(1, h)
  PROVE  (NoneDue(h) => NoneDue(h)') /\ (OneDue(h) => OneDue(h)')
  <1>1. \A n : DueJob(n, h)' <=> DueJob(n, h)
    BY DEF JobsKept, DueJob
  <1>2. \A k \in DOMAIN posted' : /\ k + s \in DOMAIN posted
                                  /\ DueMessage(k, h)' <=> DueMessage(k + s, h)
    BY DEF Moved, DueMessage
  <1>3. \A k \in DOMAIN posted : DueMessage(k, h) => k - s \in DOMAIN posted'
    BY DEF Moved
  <1>4. \A n : (DueJob(n, h) => n \in DOMAIN jobs) /\ (DueJob(n, h)' => n \in DOMAIN jobs')
    BY DEF DueJob
  <1>5. \A k \in DOMAIN posted : k \in Int
    BY DEF Moved
  <1>6. \A k \in DOMAIN posted' : k \in Int
    BY DEF Moved
  <1>7. ASSUME NoneDue(h) PROVE NoneDue(h)'
    BY <1>1, <1>2, <1>4, <1>7 DEF NoneDue
  <1>8. ASSUME OneDue(h) PROVE OneDue(h)'
    <2>1. CASE /\ \E n \in DOMAIN jobs :
                    DueJob(n, h) /\ \A i \in DOMAIN jobs : DueJob(i, h) => i = n
               /\ \A k \in DOMAIN posted : ~DueMessage(k, h)
      BY <1>1, <1>2, <1>4, <2>1 DEF OneDue
    <2>2. CASE /\ \E k \in DOMAIN posted :
                    DueMessage(k, h) /\ \A i \in DOMAIN posted : DueMessage(i, h) => i = k
               /\ \A n \in DOMAIN jobs : ~DueJob(n, h)
      <3>1. PICK k \in DOMAIN posted :
              DueMessage(k, h) /\ \A i \in DOMAIN posted : DueMessage(i, h) => i = k
        BY <2>2
      <3>2. k - s \in DOMAIN posted' /\ (k - s) + s = k
        BY <1>3, <1>5, <3>1
      <3>3. DueMessage(k - s, h)'
        BY <1>2, <3>1, <3>2
      <3>4. \A i \in DOMAIN posted' : DueMessage(i, h)' => i = k - s
        BY <1>2, <1>5, <1>6, <3>1
      <3>5. \A n \in DOMAIN jobs' : ~DueJob(n, h)'
        BY <1>1, <1>4, <2>2
      <3> QED
        BY <3>2, <3>3, <3>4, <3>5 DEF OneDue
    <2> QED
      BY <1>8, <2>1, <2>2 DEF OneDue
  <1> QED
    BY <1>7, <1>8

\* The answer a node was waiting for is taken: no other is due.
LEMMA DueTaken ==
  ASSUME JobsKept, Moved(1), generation' = generation, NEW h, OneDue(h), DueMessage(1, h)
  PROVE  NoneDue(h)'
  <1>1. \A n : DueJob(n, h)' <=> DueJob(n, h)
    BY DEF JobsKept, DueJob
  <1>2. \A k \in DOMAIN posted' : /\ k + 1 \in DOMAIN posted /\ k + 1 # 1
                                  /\ DueMessage(k, h)' <=> DueMessage(k + 1, h)
    BY DEF Moved, DueMessage
  <1>3. 1 \in DOMAIN posted /\ \A k \in DOMAIN posted : DueMessage(k, h) => k = 1
    BY DEF OneDue, DueMessage
  <1>4. \A n \in DOMAIN jobs : ~DueJob(n, h)
    BY <1>3 DEF OneDue
  <1>5. \A n : DueJob(n, h) => n \in DOMAIN jobs
    BY DEF DueJob
  <1> QED
    BY <1>1, <1>2, <1>3, <1>4, <1>5 DEF NoneDue

\* The worker's answer keeps the place of the question.
LEMMA DueWorker ==
  ASSUME TypeInv, NEW m \in Messages, Answer(m), NEW h
  PROVE  (NoneDue(h) => NoneDue(h)') /\ (OneDue(h) => OneDue(h)')
  <1>1. /\ Len(jobs) \in Nat \ {0} /\ DOMAIN jobs = 1..Len(jobs)
        /\ Head(jobs) = jobs[1]
        /\ DOMAIN jobs' = 1..(Len(jobs) - 1)
        /\ \A i \in 1..(Len(jobs) - 1) : jobs'[i] = jobs[i + 1]
        /\ Len(posted) \in Nat /\ DOMAIN posted = 1..Len(posted)
        /\ DOMAIN posted' = 1..(Len(posted) + 1)
        /\ \A i \in 1..Len(posted) : posted'[i] = posted[i]
        /\ posted'[Len(posted) + 1] = m
    BY Answered DEF Answer
  <1>0. PICK last : last = Len(posted) + 1
    OBVIOUS
  <1>2. generation' = generation
    BY DEF Answer
  <1>3. \A n \in DOMAIN jobs' : /\ n \in Int /\ n + 1 \in DOMAIN jobs /\ n + 1 # 1
                                /\ DueJob(n, h)' <=> DueJob(n + 1, h)
    BY <1>1, <1>2 DEF DueJob
  <1>4. \A n \in DOMAIN jobs : n \in Int /\ (n # 1 => n - 1 \in DOMAIN jobs')
    BY <1>1
  <1>5. \A k \in DOMAIN posted : /\ k \in DOMAIN posted' /\ k # last
                                 /\ DueMessage(k, h)' <=> DueMessage(k, h)
    BY <1>1, <1>2, <1>0 DEF DueMessage
  <1>6. /\ last \in DOMAIN posted' /\ 1 \in DOMAIN jobs
        /\ \A k \in DOMAIN posted' : k \in DOMAIN posted \/ k = last
        /\ DueMessage(last, h)' <=> DueJob(1, h)
    <2>1. posted'[last] = m /\ last \in DOMAIN posted' /\ 1 \in DOMAIN jobs
      BY <1>1, <1>0
    <2>2. \A k \in DOMAIN posted' : k \in DOMAIN posted \/ k = last
      BY <1>1, <1>0
    <2> QED
      BY <1>1, <1>2, <2>1, <2>2 DEF DueMessage, DueJob, Answer
  <1>7. ASSUME NoneDue(h) PROVE NoneDue(h)'
    BY <1>3, <1>5, <1>6, <1>7 DEF NoneDue
  <1>8. ASSUME NEW n \in DOMAIN jobs, DueJob(n, h),
               \A i \in DOMAIN jobs : DueJob(i, h) => i = n,
               \A k \in DOMAIN posted : ~DueMessage(k, h)
        PROVE  OneDue(h)'
    <2>1. CASE n = 1
      <3>1. DueMessage(last, h)'
        BY <1>6, <1>8, <2>1
      <3>2. \A k \in DOMAIN posted' : DueMessage(k, h)' => k = last
        BY <1>5, <1>6, <1>8
      <3>3. \A i \in DOMAIN jobs' : ~DueJob(i, h)'
        BY <1>3, <1>8, <2>1
      <3> QED
        BY <1>6, <3>1, <3>2, <3>3 DEF OneDue
    <2>2. CASE n # 1
      <3>1. n - 1 \in DOMAIN jobs' /\ (n - 1) + 1 = n
        BY <1>4, <2>2
      <3>2. DueJob(n - 1, h)'
        BY <1>3, <1>8, <3>1
      <3>3. \A i \in DOMAIN jobs' : DueJob(i, h)' => i = n - 1
        BY <1>3, <1>4, <1>8
      <3>4. ~DueJob(1, h)
        BY <1>6, <1>8, <2>2
      <3>5. \A k \in DOMAIN posted' : ~DueMessage(k, h)'
        BY <1>5, <1>6, <1>8, <3>4
      <3> QED
        BY <3>1, <3>2, <3>3, <3>5 DEF OneDue
    <2> QED
      BY <2>1, <2>2
  <1>9. ASSUME NEW k \in DOMAIN posted, DueMessage(k, h),
               \A i \in DOMAIN posted : DueMessage(i, h) => i = k,
               \A n \in DOMAIN jobs : ~DueJob(n, h)
        PROVE  OneDue(h)'
    <2>1. k \in DOMAIN posted' /\ DueMessage(k, h)'
      BY <1>5, <1>9
    <2>2. \A i \in DOMAIN posted' : DueMessage(i, h)' => i = k
      BY <1>5, <1>6, <1>9
    <2>3. \A n \in DOMAIN jobs' : ~DueJob(n, h)'
      BY <1>3, <1>9
    <2> QED
      BY <2>1, <2>2, <2>3 DEF OneDue
  <1>10. OneDue(h) => OneDue(h)'
    BY <1>8, <1>9 DEF OneDue
  <1> QED
    BY <1>7, <1>10

\* Expanding a node makes one answer due to it, and none to another.
LEMMA DueAsk ==
  ASSUME TypeInv, NEW g \in Handles, NEW e \in Jobs, AskColumns(g, e),
         UNCHANGED <<posted, generation>>, NEW h
  PROVE  /\ h = g /\ NoneDue(h) => OneDue(h)'
         /\ h # g /\ NoneDue(h) => NoneDue(h)'
         /\ h # g /\ OneDue(h) => OneDue(h)'
  <1>0. PICK last : last = Len(jobs) + 1
    OBVIOUS
  <1>1. /\ Len(jobs) \in Nat /\ DOMAIN jobs = 1..Len(jobs)
        /\ DOMAIN jobs' = 1..(Len(jobs) + 1)
        /\ \A i \in 1..Len(jobs) : jobs'[i] = jobs[i]
        /\ jobs'[last] = e
    BY <1>0, Added DEF AskColumns
  <1>2. \A n \in DOMAIN jobs : /\ n \in DOMAIN jobs' /\ n # last
                               /\ DueJob(n, h)' <=> DueJob(n, h)
    BY <1>1, <1>0 DEF DueJob
  <1>3. /\ last \in DOMAIN jobs'
        /\ \A n \in DOMAIN jobs' : n \in DOMAIN jobs \/ n = last
        /\ DueJob(last, h)' <=> h = g
    <2>1. last \in DOMAIN jobs' /\ \A n \in DOMAIN jobs' : n \in DOMAIN jobs \/ n = last
      BY <1>1, <1>0
    <2> QED
      BY <1>1, <2>1 DEF DueJob, AskColumns
  <1>4. \A k : DueMessage(k, h)' <=> DueMessage(k, h)
    BY DEF DueMessage
  <1>5. DOMAIN posted' = DOMAIN posted
    OBVIOUS
  <1> QED
    BY <1>2, <1>3, <1>4, <1>5 DEF NoneDue, OneDue

LEMMA DueFilled == TypeInv /\ OrderInv /\ populateTables => DueInv'
  <1> SUFFICES ASSUME TypeInv, OrderInv, populateTables PROVE DueInv'
    OBVIOUS
  <1>1. /\ posted # <<>> /\ posted' = Tail(posted)
        /\ generation' = generation + 1 /\ generation \in Nat /\ jobs' = jobs
    BY DEF populateTables, Message, TypeInv
  <1>2. Moved(1)
    BY <1>1, PostedMoves
  <1>3. \A n \in DOMAIN jobs : jobs[n].kind = "columns" => jobs[n].generation # generation + 1
    BY <1>1 DEF OrderInv
  <1>4. \A k \in DOMAIN posted' : posted'[k].kind = "columns" => posted'[k].generation # generation + 1
    <2>1. \A k \in DOMAIN posted' : k + 1 \in DOMAIN posted /\ posted'[k] = posted[k + 1]
      BY <1>2 DEF Moved
    <2> QED
      BY <1>1, <2>1 DEF OrderInv
  <1>5. \A h \in DOMAIN nodes' : NoneDue(h)'
    BY <1>1, <1>3, <1>4 DEF NoneDue, DueJob, DueMessage
  <1>6. \A h \in DOMAIN nodes' : nodes'[h].param = "unloaded"
    BY FilledTyped
  <1> QED
    BY <1>5, <1>6 DEF DueInv

\* An answer is given: to the node that waits for it, or misplaced.
LEMMA DueAnswered == TypeInv /\ DueInv /\ populateColumns => DueInv'
  <1> SUFFICES ASSUME TypeInv, DueInv, populateColumns PROVE DueInv'
    OBVIOUS
  <1> DEFINE m == Head(posted)
  <1>1. /\ posted # <<>> /\ posted' = Tail(posted) /\ m.kind = "columns"
        /\ jobs' = jobs /\ generation' = generation
    BY DEF populateColumns, Message
  <1>2. JobsKept /\ Moved(1)
    BY <1>1, JobsAreKept, PostedMoves
  <1>3. m = posted[1] /\ 1 \in DOMAIN posted /\ m.lines \in Lines
    BY <1>1, Handled, MessageShape
  <1> HIDE DEF m
  <1>4. CASE m.node \notin DOMAIN nodes
    <2>1. nodes' = nodes /\ misplaced' = misplaced
      BY <1>4 DEF populateColumns, m
    <2>2. \A h \in DOMAIN nodes : ~DueMessage(1, h)
      BY <1>3, <1>4 DEF DueMessage
    <2>3. \A h \in DOMAIN nodes : (NoneDue(h) => NoneDue(h)') /\ (OneDue(h) => OneDue(h)')
      BY <1>1, <1>2, <2>2, DueQuiet
    <2> QED
      BY <2>1, <2>3 DEF DueInv
  <1>5. ASSUME NEW g \in DOMAIN nodes, g = m.node PROVE DueInv'
    <2>1. /\ nodes' = [nodes EXCEPT ![g].param = "loaded", ![g].lines = m.lines]
          /\ misplaced' = (misplaced \/ m.generation # generation)
      BY <1>5 DEF populateColumns, m
    <2>2. /\ DOMAIN nodes' = DOMAIN nodes
          /\ nodes'[g].param = "loaded"
          /\ \A h \in DOMAIN nodes : h # g => nodes'[h] = nodes[h]
      BY <1>3, <1>5, <2>1, NodeAnswered DEF TypeInv
    <2>3. \A h \in DOMAIN nodes :
            h # g => (NoneDue(h) => NoneDue(h)') /\ (OneDue(h) => OneDue(h)')
      <3>1. \A h \in DOMAIN nodes : h # g => ~DueMessage(1, h)
        BY <1>3, <1>5 DEF DueMessage
      <3> QED
        BY <1>1, <1>2, <3>1, DueQuiet
    <2>4. ~misplaced' => NoneDue(g)'
      <3> SUFFICES ASSUME ~misplaced, m.generation = generation PROVE NoneDue(g)'
        BY <2>1
      <3>1. DueMessage(1, g)
        BY <1>1, <1>3, <1>5 DEF DueMessage
      <3>2. ~NoneDue(g)
        BY <1>3, <3>1 DEF NoneDue
      <3>3. nodes[g].param \in Params
        BY <1>5, NodeShape DEF TypeInv
      <3>4. OneDue(g)
        BY <1>5, <3>2, <3>3 DEF DueInv, Params
      <3> QED
        BY <1>1, <1>2, <3>1, <3>4, DueTaken
    <2> QED
      BY <2>1, <2>2, <2>3, <2>4 DEF DueInv
  <1> QED
    BY <1>4, <1>5

LEMMA DueStep == TypeInv /\ OrderInv /\ DueInv /\ [Next]_vars => DueInv'
  <1> SUFFICES ASSUME TypeInv, OrderInv, DueInv, [Next]_vars PROVE DueInv'
    OBVIOUS
  <1>1. CASE UNCHANGED vars
    BY <1>1 DEF DueInv, NoneDue, OneDue, DueJob, DueMessage, vars
  <1>2. CASE Open \/ Refresh \/ Connected
    <2>1. JobsKept /\ UNCHANGED <<nodes, generation, misplaced>>
      BY <1>2, QuietSteps
    <2>2. PICK s \in {0, 1} : Moved(s) /\ (s = 1 => Connected)
      <3>1. posted' = posted => Moved(0)
        BY PostedMoves
      <3> QED
        BY <1>2, <3>1, PostedMoves DEF Open, Refresh, Connected, Message
    <2>3. s = 1 => posted[1].kind # "columns"
      BY <2>2, Handled DEF Connected, Message
    <2>4. \A h \in DOMAIN nodes : (NoneDue(h) => NoneDue(h)') /\ (OneDue(h) => OneDue(h)')
      BY <2>1, <2>2, <2>3, DueQuiet DEF DueMessage
    <2> QED
      BY <2>1, <2>4 DEF DueInv
  <1>3. CASE onTreeExpand
    <2>1. PICK g \in Handles : \E e \in Jobs : AskColumns(g, e)
      BY <1>3, ExpandAsks
    <2>2. PICK e \in Jobs : AskColumns(g, e)
      BY <2>1
    <2>3. UNCHANGED <<posted, generation, misplaced>>
      BY <1>3 DEF onTreeExpand
    <2>4. /\ DOMAIN nodes' = DOMAIN nodes
          /\ nodes'[g].param = "loading"
          /\ \A h \in DOMAIN nodes : h # g => nodes'[h] = nodes[h]
      BY <2>2, NodeMarked DEF AskColumns, TypeInv, Params
    <2>5. g \in DOMAIN nodes /\ NoneDue(g)
      BY <2>2 DEF AskColumns, DueInv
    <2>6. OneDue(g)'
      BY <2>2, <2>3, <2>5, DueAsk
    <2>7. \A h \in DOMAIN nodes :
            h # g => (NoneDue(h) => NoneDue(h)') /\ (OneDue(h) => OneDue(h)')
      BY <2>2, <2>3, DueAsk
    <2> QED
      BY <2>3, <2>4, <2>5, <2>6, <2>7 DEF DueInv
  <1>4. CASE ConnectJob \/ TablesJob \/ ColumnsJob
    <2>1. PICK m \in Messages : Answer(m)
      BY <1>4, WorkerAnswers
    <2>2. \A h \in DOMAIN nodes : (NoneDue(h) => NoneDue(h)') /\ (OneDue(h) => OneDue(h)')
      BY <2>1, DueWorker
    <2> QED
      BY <2>1, <2>2 DEF DueInv, Answer
  <1>5. CASE populateTables
    BY <1>5, DueFilled
  <1>6. CASE populateColumns
    BY <1>6, DueAnswered
  <1> QED
    BY <1>1, <1>2, <1>3, <1>4, <1>5, <1>6 DEF Next, Work

\* One answer due by position is one by the count of LoadingIsPending.
LEMMA DueCounted ==
  ASSUME TypeInv, NEW h
  PROVE  /\ NoneDue(h) => AnswersDue(h) = {}
         /\ OneDue(h) => Cardinality(AnswersDue(h)) = 1
  <1>1. /\ Len(jobs) \in Nat /\ DOMAIN jobs = 1..Len(jobs)
        /\ Len(posted) \in Nat /\ DOMAIN posted = 1..Len(posted)
    BY SeqFacts DEF TypeInv
  <1>2. AnswersDue(h) = {n \in DOMAIN jobs : DueJob(n, h)}
                          \cup {-n : n \in {k \in DOMAIN posted : DueMessage(k, h)}}
    BY <1>1 DEF AnswersDue, DueJob, DueMessage
  <1>3. NoneDue(h) => AnswersDue(h) = {}
    BY <1>2 DEF NoneDue
  <1>4. ASSUME OneDue(h) PROVE \E x : AnswersDue(h) = {x}
    <2>1. ASSUME NEW n \in DOMAIN jobs, DueJob(n, h),
                 \A i \in DOMAIN jobs : DueJob(i, h) => i = n,
                 \A k \in DOMAIN posted : ~DueMessage(k, h)
          PROVE  AnswersDue(h) = {n}
      BY <1>2, <2>1
    <2>2. ASSUME NEW k \in DOMAIN posted, DueMessage(k, h),
                 \A i \in DOMAIN posted : DueMessage(i, h) => i = k,
                 \A n \in DOMAIN jobs : ~DueJob(n, h)
          PROVE  AnswersDue(h) = {-k}
      BY <1>2, <2>2
    <2> QED
      BY <1>4, <2>1, <2>2 DEF OneDue
  <1> QED
    BY <1>3, <1>4, FS_Singleton

LEMMA LoadingInvariant == Spec => [](TypeInv /\ OrderInv /\ DueInv)
  BY TypeInit, TypeStep, OrderInit, OrderStep, DueInit, DueStep, PTL DEF Spec

\* A node is neither fetched twice nor left loading, and an answer outlives its node
\* only where a refresh was under way when the node was expanded: onTreeExpand's
\* look at the mark is enough, whatever refreshes and connects overlap.
THEOREM TreeLoadingIsPending == Spec => []LoadingIsPending
  <1>1. TypeInv /\ OrderInv /\ DueInv => LoadingIsPending
    <2> SUFFICES ASSUME TypeInv, OrderInv, DueInv PROVE LoadingIsPending
      OBVIOUS
    <2>1. DOMAIN jobs = 1..Len(jobs) /\ DOMAIN posted = 1..Len(posted)
      BY SeqFacts DEF TypeInv
    <2>2. \A h \in DOMAIN nodes :
            /\ nodes[h].param = "loading" => Cardinality(AnswersDue(h)) = 1
            /\ nodes[h].param = "unloaded" => AnswersDue(h) = {}
            /\ nodes[h].param = "loaded" /\ ~misplaced => AnswersDue(h) = {}
      BY DueCounted DEF DueInv
    <2> QED
      BY <2>1, <2>2 DEF LoadingIsPending, OrderInv, Stale
  <1> QED
    BY <1>1, LoadingInvariant, PTL

-----------------------------------------------------------------------------
(* The table an answer is of.                                              *)

LEMMA TextInit == Init => TextInv
  <1> SUFFICES ASSUME Init PROVE TextInv
    OBVIOUS
  <1>1. DOMAIN jobs = {} /\ DOMAIN posted = {} /\ DOMAIN nodes = {}
    BY DEF Init, NoNodes
  <1> QED
    BY <1>1 DEF TextInv

LEMMA TextQuiet ==
  ASSUME TextInv, JobsKept, NEW s \in {0, 1}, Moved(s),
         UNCHANGED <<nodes, generation, misplaced>>
  PROVE  TextInv'
  <1>1. \A k \in DOMAIN posted' : k + s \in DOMAIN posted /\ posted'[k] = posted[k + s]
    BY DEF Moved
  <1>2. \A n \in DOMAIN jobs' :
          jobs'[n].kind = "columns" => n \in DOMAIN jobs /\ jobs'[n] = jobs[n]
    BY DEF JobsKept
  <1> QED
    BY <1>1, <1>2 DEF TextInv

LEMMA TextAsk ==
  ASSUME TypeInv, TextInv, NEW h \in Handles, NEW e \in Jobs, AskColumns(h, e),
         UNCHANGED <<posted, generation, misplaced>>
  PROVE  TextInv'
  <1>1. /\ DOMAIN nodes' = DOMAIN nodes
        /\ \A g \in DOMAIN nodes : /\ nodes'[g].text = nodes[g].text
                                   /\ nodes'[g].lines = nodes[g].lines
    BY NodeMarked DEF AskColumns, TypeInv, Params
  <1>2. /\ Len(jobs) \in Nat /\ DOMAIN jobs = 1..Len(jobs)
        /\ DOMAIN jobs' = 1..(Len(jobs) + 1)
        /\ \A i \in 1..Len(jobs) : jobs'[i] = jobs[i]
        /\ jobs'[Len(jobs) + 1] = e
    BY Added DEF AskColumns
  <1>3. \A n \in DOMAIN jobs' : (n \in DOMAIN jobs /\ jobs'[n] = jobs[n]) \/ jobs'[n] = e
    BY <1>2
  <1>4. e.node \in DOMAIN nodes /\ e.table = nodes[e.node].text
    BY DEF AskColumns
  <1> QED
    BY <1>1, <1>3, <1>4 DEF TextInv

LEMMA TextWorker ==
  ASSUME TypeInv, TextInv, NEW m \in Messages, Answer(m)
  PROVE  TextInv'
  <1>1. /\ Len(jobs) \in Nat \ {0} /\ DOMAIN jobs = 1..Len(jobs)
        /\ Head(jobs) = jobs[1]
        /\ DOMAIN jobs' = 1..(Len(jobs) - 1)
        /\ \A i \in 1..(Len(jobs) - 1) : jobs'[i] = jobs[i + 1]
        /\ Len(posted) \in Nat /\ DOMAIN posted = 1..Len(posted)
        /\ DOMAIN posted' = 1..(Len(posted) + 1)
        /\ \A i \in 1..Len(posted) : posted'[i] = posted[i]
        /\ posted'[Len(posted) + 1] = m
    BY Answered DEF Answer
  <1>2. \A n \in DOMAIN jobs' : n + 1 \in DOMAIN jobs /\ jobs'[n] = jobs[n + 1]
    BY <1>1
  <1>3. \A k \in DOMAIN posted' : (k \in DOMAIN posted /\ posted'[k] = posted[k]) \/ posted'[k] = m
    BY <1>1
  <1>4. 1 \in DOMAIN jobs
    BY <1>1
  <1>5. m.kind = "columns" /\ m.generation = generation =>
          /\ m.node \in DOMAIN nodes
          /\ m.lines # None => m.lines.table = nodes[m.node].text
    BY <1>1, <1>4 DEF Answer, TextInv
  <1>6. UNCHANGED <<nodes, generation, misplaced>>
    BY DEF Answer
  <1> QED
    BY <1>2, <1>3, <1>5, <1>6 DEF TextInv

\* Nothing is asked of the new filling yet.
LEMMA TextFilled == TypeInv /\ OrderInv /\ populateTables => TextInv'
  <1> SUFFICES ASSUME TypeInv, OrderInv, populateTables PROVE TextInv'
    OBVIOUS
  <1>1. /\ posted # <<>> /\ posted' = Tail(posted)
        /\ generation' = generation + 1 /\ generation \in Nat /\ jobs' = jobs
    BY DEF populateTables, Message, TypeInv
  <1>2. \A k \in DOMAIN posted' : k + 1 \in DOMAIN posted /\ posted'[k] = posted[k + 1]
    <2>1. Moved(1)
      BY <1>1, PostedMoves
    <2> QED
      BY <2>1 DEF Moved
  <1>3. \A n \in DOMAIN jobs : jobs[n].kind = "columns" => jobs[n].generation # generation + 1
    BY <1>1 DEF OrderInv
  <1>4. \A k \in DOMAIN posted' :
          posted'[k].kind = "columns" => posted'[k].generation # generation + 1
    BY <1>1, <1>2 DEF OrderInv
  <1> QED
    BY <1>1, <1>3, <1>4, FilledTyped DEF TextInv

LEMMA TextAnswered == TypeInv /\ TextInv /\ populateColumns => TextInv'
  <1> SUFFICES ASSUME TypeInv, TextInv, populateColumns PROVE TextInv'
    OBVIOUS
  <1> DEFINE m == Head(posted)
  <1>1. /\ posted # <<>> /\ posted' = Tail(posted) /\ m.kind = "columns"
        /\ jobs' = jobs /\ generation' = generation
    BY DEF populateColumns, Message
  <1>2. m = posted[1] /\ 1 \in DOMAIN posted /\ m.lines \in Lines
    BY <1>1, Handled, MessageShape
  <1>3. \A k \in DOMAIN posted' : k + 1 \in DOMAIN posted /\ posted'[k] = posted[k + 1]
    <2>1. Moved(1)
      BY <1>1, PostedMoves
    <2> QED
      BY <2>1 DEF Moved
  <1> HIDE DEF m
  <1>4. CASE m.node \notin DOMAIN nodes
    <2>1. nodes' = nodes /\ misplaced' = misplaced
      BY <1>4 DEF populateColumns, m
    <2> QED
      BY <1>1, <1>3, <2>1 DEF TextInv
  <1>5. CASE m.node \in DOMAIN nodes
    <2>1. /\ nodes' = [nodes EXCEPT ![m.node].param = "loaded", ![m.node].lines = m.lines]
          /\ misplaced' = (misplaced \/ m.generation # generation)
      BY <1>5 DEF populateColumns, m
    <2>2. /\ DOMAIN nodes' = DOMAIN nodes
          /\ nodes'[m.node].lines = m.lines
          /\ \A g \in DOMAIN nodes : /\ g # m.node => nodes'[g] = nodes[g]
                                     /\ nodes'[g].text = nodes[g].text
      BY <1>2, <1>5, <2>1, NodeAnswered DEF TypeInv
    <2>3. ~misplaced' => /\ ~misplaced
                         /\ m.lines # None => m.lines.table = nodes[m.node].text
      BY <1>1, <1>2, <2>1 DEF TextInv
    <2>4. ~misplaced' => \A g \in DOMAIN nodes' :
            nodes'[g].lines # None => nodes'[g].lines.table = nodes'[g].text
      BY <2>2, <2>3 DEF TextInv
    <2> QED
      BY <1>1, <1>3, <2>2, <2>4 DEF TextInv
  <1> QED
    BY <1>4, <1>5

LEMMA TextStep == TypeInv /\ OrderInv /\ TextInv /\ [Next]_vars => TextInv'
  <1> SUFFICES ASSUME TypeInv, OrderInv, TextInv, [Next]_vars PROVE TextInv'
    OBVIOUS
  <1>1. CASE UNCHANGED vars
    BY <1>1 DEF TextInv, vars
  <1>2. CASE Open \/ Refresh \/ Connected
    BY <1>2, QuietSteps, TextQuiet
  <1>3. CASE onTreeExpand
    BY <1>3, ExpandAsks, TextAsk DEF onTreeExpand
  <1>4. CASE ConnectJob \/ TablesJob \/ ColumnsJob
    BY <1>4, WorkerAnswers, TextWorker
  <1>5. CASE populateTables
    BY <1>5, TextFilled
  <1>6. CASE populateColumns
    BY <1>6, TextAnswered
  <1> QED
    BY <1>1, <1>2, <1>3, <1>4, <1>5, <1>6 DEF Next, Work

-----------------------------------------------------------------------------
(* The connection an answer is of.                                         *)

LEMMA ConnInit == Init => ConnInv
  BY DEF Init, ConnInv

\* The parts of ConnInv.
PostedConn ==
  \A n \in DOMAIN posted :
    posted[n].kind = "columns" /\ posted[n].lines # None =>
      \/ posted[n].lines.conn = provider
      \/ \E k \in DOMAIN posted : k > n /\ posted[k].kind = "connected" /\ posted[k].ok

TreeConn ==
  RefillDue \/ \A h \in DOMAIN nodes :
                 nodes[h].lines # None => nodes[h].lines.conn = provider

\* What stays of PostedConn when the first message is taken.
LEMMA PostedConnMoves ==
  ASSUME PostedConn, NEW s \in {0, 1}, Moved(s), provider' = provider
  PROVE  PostedConn'
  <1>1. \A k \in DOMAIN posted' : k + s \in DOMAIN posted /\ posted'[k] = posted[k + s]
    BY DEF Moved
  <1>2. ASSUME NEW n \in DOMAIN posted', posted'[n].kind = "columns",
               posted'[n].lines # None, posted'[n].lines.conn # provider
        PROVE  \E k \in DOMAIN posted' :
                 k > n /\ posted'[k].kind = "connected" /\ posted'[k].ok
    <2>1. PICK k \in DOMAIN posted :
            k > n + s /\ posted[k].kind = "connected" /\ posted[k].ok
      BY <1>1, <1>2 DEF PostedConn
    <2>2. k - s \in DOMAIN posted' /\ k - s > n /\ (k - s) + s = k
      BY <1>2, <2>1 DEF Moved
    <2> QED
      BY <1>1, <2>1, <2>2
  <1> QED
    BY <1>2 DEF PostedConn

\* What the worker's answer does to it: old columns have a connect behind them.
LEMMA PostedConnAnswered ==
  ASSUME TypeInv, NEW m \in Messages, Answer(m),
         \/ m.kind = "connected" /\ m.ok
         \/ /\ PostedConn /\ provider' = provider
            /\ m.kind = "columns" /\ m.lines # None => m.lines.conn = provider
  PROVE  PostedConn'
  <1>1. /\ Len(posted) \in Nat /\ DOMAIN posted = 1..Len(posted)
        /\ DOMAIN posted' = 1..(Len(posted) + 1)
        /\ \A i \in 1..Len(posted) : posted'[i] = posted[i]
        /\ posted'[Len(posted) + 1] = m
    BY Answered DEF Answer
  <1>2. \A n \in DOMAIN posted' : \/ n \in DOMAIN posted /\ posted'[n] = posted[n]
                                  \/ n = Len(posted) + 1 /\ posted'[n] = m
    BY <1>1
  <1>3. \A n \in DOMAIN posted : n \in DOMAIN posted' /\ posted'[n] = posted[n]
    BY <1>1
  <1>4. CASE m.kind = "connected" /\ m.ok
    <2>1. \A n \in DOMAIN posted : Len(posted) + 1 > n
      BY <1>1
    <2>2. Len(posted) + 1 \in DOMAIN posted'
      BY <1>1
    <2> QED
      BY <1>1, <1>2, <1>4, <2>1, <2>2 DEF PostedConn
  <1>5. CASE /\ PostedConn /\ provider' = provider
             /\ m.kind = "columns" /\ m.lines # None => m.lines.conn = provider
    BY <1>2, <1>3, <1>5 DEF PostedConn
  <1> QED
    BY <1>4, <1>5

LEMMA ConnWorker ==
  ASSUME TypeInv, ConnInv, ConnectJob \/ TablesJob \/ ColumnsJob
  PROVE  ConnInv'
  <1>1. PICK m \in Messages :
          /\ Answer(m)
          /\ ColumnsJob => (m.lines # None => m.lines.conn = provider)
    BY WorkerAnswers
  <1>2. /\ Len(jobs) \in Nat \ {0} /\ DOMAIN jobs = 1..Len(jobs)
        /\ Head(jobs) = jobs[1]
        /\ DOMAIN jobs' = 1..(Len(jobs) - 1)
        /\ \A i \in 1..(Len(jobs) - 1) : jobs'[i] = jobs[i + 1]
        /\ Len(posted) \in Nat /\ DOMAIN posted = 1..Len(posted)
        /\ DOMAIN posted' = 1..(Len(posted) + 1)
        /\ \A i \in 1..Len(posted) : posted'[i] = posted[i]
        /\ posted'[Len(posted) + 1] = m
    BY <1>1, Answered DEF Answer
  <1>3. Len(posted) + 1 \in DOMAIN posted'
    BY <1>2
  <1>4. RefillDue => RefillDue'
    <2>1. ASSUME NEW n \in DOMAIN jobs, jobs[n].kind = "tables" PROVE RefillDue'
      <3>1. CASE n = 1
        <4>1. m.kind = "tables"
          BY <1>1, <1>2, <2>1, <3>1 DEF Answer
        <4> QED
          BY <1>2, <1>3, <4>1 DEF RefillDue
      <3>2. CASE n # 1
        <4>1. n - 1 \in DOMAIN jobs' /\ jobs'[n - 1] = jobs[n]
          BY <1>2, <3>2
        <4> QED
          BY <2>1, <4>1 DEF RefillDue
      <3> QED
        BY <3>1, <3>2
    <2>2. \A n \in DOMAIN posted : n \in DOMAIN posted' /\ posted'[n] = posted[n]
      BY <1>2
    <2> QED
      BY <2>1, <2>2 DEF RefillDue
  <1>5. CASE ConnectJob
    <2>1. PICK ok \in BOOLEAN :
            /\ ~ok => provider' = None
            /\ posted' = Append(posted, [kind |-> "connected", ok |-> ok])
      BY <1>5 DEF ConnectJob
    <2>2. posted'[Len(posted) + 1] = [kind |-> "connected", ok |-> ok]
      BY <2>1, AppendProperties DEF TypeInv
    <2>3. m.kind = "connected" /\ m.ok = ok
      BY <1>2, <2>2
    <2>4. CASE ok
      <3>1. PostedConn'
        BY <1>1, <2>3, <2>4, PostedConnAnswered
      <3>2. RefillDue'
        BY <1>2, <1>3, <2>3, <2>4 DEF RefillDue
      <3> QED
        BY <3>1, <3>2 DEF ConnInv, PostedConn
    <2>5. CASE ~ok
      BY <2>1, <2>5 DEF ConnInv
    <2> QED
      BY <2>4, <2>5
  <1>6. CASE TablesJob \/ ColumnsJob
    <2> SUFFICES ASSUME provider # None PROVE PostedConn' /\ TreeConn'
      BY <1>6 DEF ConnInv, PostedConn, TreeConn, TablesJob, ColumnsJob
    <2>1. PostedConn /\ TreeConn /\ provider' = provider /\ nodes' = nodes
      BY <1>6 DEF ConnInv, PostedConn, TreeConn, TablesJob, ColumnsJob
    <2>2. m.kind = "columns" /\ m.lines # None => m.lines.conn = provider
      BY <1>1, <1>6 DEF Answer, TablesJob, Job
    <2>3. PostedConn'
      BY <1>1, <2>1, <2>2, PostedConnAnswered
    <2> QED
      BY <1>4, <2>1, <2>3 DEF TreeConn
  <1> QED
    BY <1>5, <1>6

\* Opening, refreshing and expanding only add to the end of the line.
LEMMA ConnUser ==
  ASSUME TypeInv, ConnInv, Open \/ Refresh \/ onTreeExpand
  PROVE  ConnInv'
  <1>1. UNCHANGED <<posted, provider>>
    BY DEF Open, Refresh, onTreeExpand
  <1>2. \A n \in DOMAIN jobs : n \in DOMAIN jobs' /\ jobs'[n] = jobs[n]
    <2>1. \E e \in Jobs : jobs' = Append(jobs, e)
      BY OpenAdds, RefreshAdds, ExpandAsks DEF AddOther, AskColumns
    <2> QED
      BY <2>1, Added
  <1>3. RefillDue => RefillDue'
    BY <1>1, <1>2 DEF RefillDue
  <1>4. /\ DOMAIN nodes' = DOMAIN nodes
        /\ \A g \in DOMAIN nodes : nodes'[g].lines = nodes[g].lines
    <2>1. CASE Open \/ Refresh
      BY <2>1 DEF Open, Refresh
    <2>2. CASE onTreeExpand
      BY <2>2, ExpandAsks, NodeMarked DEF AskColumns, TypeInv, Params
    <2> QED
      BY <2>1, <2>2
  <1> QED
    BY <1>1, <1>3, <1>4 DEF ConnInv

LEMMA ConnWindow ==
  ASSUME TypeInv, ConnInv, Connected \/ populateTables \/ populateColumns
  PROVE  ConnInv'
  <1> SUFFICES ASSUME provider # None PROVE PostedConn' /\ TreeConn'
    BY DEF ConnInv, PostedConn, TreeConn, Connected, populateTables, populateColumns
  <1>1. PostedConn /\ TreeConn
    BY DEF ConnInv, PostedConn, TreeConn
  <1>2. posted # <<>> /\ posted' = Tail(posted) /\ provider' = provider
    BY DEF Connected, populateTables, populateColumns, Message
  <1>3. Moved(1)
    BY <1>2, PostedMoves
  <1>4. PostedConn'
    BY <1>1, <1>2, <1>3, PostedConnMoves
  <1>5. Head(posted) = posted[1] /\ Head(posted) \in Messages /\ 1 \in DOMAIN posted
    BY <1>2, Handled
  <1>6. \A k \in DOMAIN posted :
          k # 1 => /\ k - 1 \in DOMAIN posted' /\ posted'[k - 1] = posted[k]
                   /\ k > 1
    BY <1>3 DEF Moved
  <1>7. CASE populateTables
    BY <1>4, <1>7, FilledTyped DEF TreeConn
  <1>8. CASE Connected
    <2>1. Head(posted).kind = "connected" /\ nodes' = nodes
      BY <1>8 DEF Connected, Message
    <2>2. CASE Head(posted).ok
      <3>1. pendingConn.engine \in Engines /\ fetchTablesAsync(pendingConn.engine)
        BY <1>2, <1>8, <2>1, <2>2, MessageTyped DEF Connected, Engines
      <3>2. PICK e \in Jobs : AddOther(e) /\ e.kind = "tables"
        BY <3>1, FetchAdds
      <3>3. jobs'[Len(jobs) + 1].kind = "tables" /\ Len(jobs) + 1 \in DOMAIN jobs'
        BY <3>2, Added DEF AddOther
      <3>4. RefillDue'
        BY <3>3 DEF RefillDue
      <3> QED
        BY <1>4, <3>4 DEF TreeConn
    <2>3. CASE ~Head(posted).ok
      <3>1. jobs' = jobs
        BY <1>8, <2>3 DEF Connected
      <3>2. RefillDue => RefillDue'
        BY <1>5, <1>6, <2>1, <2>3, <3>1 DEF RefillDue
      <3> QED
        BY <1>1, <1>2, <1>4, <2>1, <3>2 DEF TreeConn
    <2> QED
      BY <2>2, <2>3
  <1>9. CASE populateColumns
    <2> DEFINE m == Head(posted)
    <2>1. m.kind = "columns" /\ jobs' = jobs /\ m.lines \in Lines
      BY <1>5, <1>9, MessageShape DEF populateColumns, Message
    <2>2. RefillDue => RefillDue'
      BY <1>5, <1>6, <2>1 DEF RefillDue
    <2>3. RefillDue' \/ (m.lines # None => m.lines.conn = provider)
      <3>1. ASSUME NEW k \in DOMAIN posted, k > 1, posted[k].kind = "connected", posted[k].ok
            PROVE  RefillDue'
        BY <1>6, <3>1 DEF RefillDue
      <3> QED
        BY <1>1, <1>5, <2>1, <3>1 DEF PostedConn
    <2>4. CASE RefillDue'
      BY <1>4, <2>4 DEF TreeConn
    <2>5. CASE ~RefillDue'
      <3>1. \A h \in DOMAIN nodes : nodes[h].lines # None => nodes[h].lines.conn = provider
        BY <1>1, <2>2, <2>5 DEF TreeConn
      <3>2. m.lines # None => m.lines.conn = provider
        BY <2>3, <2>5
      <3>3. CASE m.node \notin DOMAIN nodes
        BY <1>2, <1>4, <1>9, <3>1, <3>3 DEF populateColumns, TreeConn
      <3>4. CASE m.node \in DOMAIN nodes
        <4>1. nodes' = [nodes EXCEPT ![m.node].param = "loaded", ![m.node].lines = m.lines]
          BY <1>9, <3>4 DEF populateColumns
        <4>2. /\ DOMAIN nodes' = DOMAIN nodes
              /\ nodes'[m.node].lines = m.lines
              /\ \A g \in DOMAIN nodes : g # m.node => nodes'[g] = nodes[g]
          BY <2>1, <3>4, <4>1, NodeAnswered DEF TypeInv
        <4>3. \A g \in DOMAIN nodes' : nodes'[g].lines # None => nodes'[g].lines.conn = provider
          BY <3>1, <3>2, <4>2
        <4> QED
          BY <1>2, <1>4, <4>3 DEF TreeConn
      <3> QED
        BY <3>3, <3>4
    <2> QED
      BY <2>4, <2>5
  <1> QED
    BY <1>7, <1>8, <1>9

LEMMA ConnStep == TypeInv /\ ConnInv /\ [Next]_vars => ConnInv'
  <1>1. TypeInv /\ ConnInv /\ UNCHANGED vars => ConnInv'
    BY DEF ConnInv, RefillDue, vars
  <1> QED
    BY <1>1, ConnUser, ConnWorker, ConnWindow DEF Next, Work

\* IInv, on which all of this rests, holds in every reachable state.
THEOREM TreeInvariant == Spec => []IInv
  BY LoadingInvariant, TypeInit, TypeStep, OrderInit, OrderStep, TextInit, TextStep,
     ConnInit, ConnStep, PTL DEF Spec, IInv

\* As long as no answer was given to a node that took over a handle, the columns
\* below a table are its own, and once nothing is on its way those of the database
\* in use: no fetch made on an earlier connection survives in the tree.
THEOREM TreeColumnsOfTheirTable == Spec => []ColumnsOfTheirTable
  <1>1. IInv => ColumnsOfTheirTable
    <2> SUFFICES ASSUME IInv, ~misplaced PROVE
          \A h \in DOMAIN nodes : nodes[h].lines # None =>
            /\ nodes[h].lines.table = nodes[h].text
            /\ Quiet /\ provider # None => nodes[h].lines.conn = provider
      BY DEF ColumnsOfTheirTable
    <2>1. \A h \in DOMAIN nodes :
            nodes[h].lines # None => nodes[h].lines.table = nodes[h].text
      BY DEF IInv, TextInv
    <2>2. Quiet => ~RefillDue
      <3>1. Quiet => DOMAIN jobs = {} /\ DOMAIN posted = {}
        BY DEF Quiet
      <3> QED
        BY <3>1 DEF RefillDue
    <2> QED
      BY <2>1, <2>2 DEF IInv, ConnInv
  <1> QED
    BY <1>1, TreeInvariant, PTL
=============================================================================
