----------------------------- MODULE SchemaTree -----------------------------
(***************************************************************************)
(* The schema sidebar of src/ui/MainWindow.cpp: tables are fetched when a  *)
(* connection is made or on request, the columns of a table when its node  *)
(* is first expanded.  Fetches are jobs of the session's queue, which one  *)
(* worker serves in order (DatabaseSession models it in detail); answers   *)
(* are messages posted to the window.  An answer with columns names its    *)
(* node by the tree view's handle.  Handles of deleted nodes may be given  *)
(* to new ones, and a handle that no table has is refused by the control,  *)
(* or is that of a column, which then gets children nobody asked for.      *)
(***************************************************************************)
EXTENDS Integers, Sequences, FiniteSets

CONSTANTS
  None,
  Conns,         \* connections: [engine, tables]
  Handles,       \* HTREEITEMs
  MaxCommands    \* bound: commands of the user

ASSUME TreeAssumption ==
  /\ None \notin Conns
  /\ \A c \in Conns : Cardinality(c.tables) <= Cardinality(Handles)
  /\ MaxCommands \in Nat

VARIABLES
  provider,      \* the connection of the session, or None
  jobs,          \* the session's queue
  posted,        \* the window's messages
  pendingConn, currentConn,   \* the window's
  nodes,         \* table nodes: handle -> [text, param, lines]
  commands,
  generation,    \* history: how often the tree has been filled
  misplaced      \* history: an answer was given to a node that had not asked

vars == <<provider, jobs, posted, pendingConn, currentConn, nodes, commands, generation,
          misplaced>>

NoNodes == [h \in {} |-> None]

Init ==
  /\ provider = None /\ jobs = <<>> /\ posted = <<>>
  /\ pendingConn = None /\ currentConn = None
  /\ nodes = NoNodes
  /\ commands = 0 /\ generation = 0 /\ misplaced = FALSE

Outstanding(kind) ==
  {<<"job", n>> : n \in {k \in 1..Len(jobs) : jobs[k].kind = kind}} \cup
  {<<"posted", n>> : n \in {k \in 1..Len(posted) : posted[k].kind = kind}}

\* What the window knows of the database: SQLite's queries are not PostgreSQL's.
Engine == IF currentConn = None THEN "Sqlite" ELSE currentConn.engine

-----------------------------------------------------------------------------
\* The user.

Command == commands < MaxCommands /\ commands' = commands + 1

\* doOpen, once the dialog has been answered
Open ==
  /\ Command
  /\ \E c \in Conns :
       /\ pendingConn' = c
       /\ jobs' = Append(jobs, [kind |-> "connect", conn |-> c])
  /\ UNCHANGED <<provider, posted, currentConn, nodes, generation, misplaced>>

fetchTablesAsync(engine) ==
  jobs' = IF provider = None THEN jobs
          ELSE Append(jobs, [kind |-> "tables", engine |-> engine])

\* ID_REFRESH_SCHEMA
Refresh ==
  /\ Command
  /\ provider # None
  /\ fetchTablesAsync(Engine)
  /\ UNCHANGED <<provider, posted, pendingConn, currentConn, nodes, generation, misplaced>>

fetchColumnsForNode(h) ==
  jobs' = Append(jobs, [kind |-> "columns", engine |-> Engine, table |-> nodes[h].text,
                        node |-> h, generation |-> generation,
                        refreshing |-> Outstanding("tables") # {}])

\* Mutant of onTreeExpand: the node is not marked.
ExpandWithoutMark ==
  /\ Command
  /\ \E h \in DOMAIN nodes : nodes[h].param = "unloaded" /\ fetchColumnsForNode(h)
  /\ UNCHANGED <<provider, posted, pendingConn, currentConn, nodes, generation, misplaced>>

\* TVN_ITEMEXPANDING; only a node that is neither loaded nor loading is fetched.
onTreeExpand ==
  /\ Command
  /\ \E h \in DOMAIN nodes :
       /\ nodes[h].param = "unloaded"
       /\ nodes' = [nodes EXCEPT ![h].param = "loading"]
       /\ fetchColumnsForNode(h)
  /\ UNCHANGED <<provider, posted, pendingConn, currentConn, generation, misplaced>>

-----------------------------------------------------------------------------
\* The session's worker takes the next job and posts its answer.

Job(kind) == jobs # <<>> /\ Head(jobs).kind = kind /\ jobs' = Tail(jobs)
Understood == provider # None /\ provider.engine = Head(jobs).engine

\* A connect job, from the teardown of the old connection to the answer, is one
\* step: no other job and no message depends on what lies between.
ConnectJob ==
  /\ Job("connect")
  /\ \E ok \in BOOLEAN :
       /\ provider' = IF ok THEN Head(jobs).conn ELSE None
       /\ posted' = Append(posted, [kind |-> "connected", ok |-> ok])
  /\ UNCHANGED <<pendingConn, currentConn, nodes, commands, generation, misplaced>>

TablesJob ==
  /\ Job("tables")
  /\ \E tables \in {{}} \cup (IF Understood THEN {provider.tables} ELSE {}) :
       posted' = Append(posted, [kind |-> "tables", tables |-> tables])
  /\ UNCHANGED <<provider, pendingConn, currentConn, nodes, commands, generation, misplaced>>

\* The lines are those of a table of a connection, or none: the query failed, or
\* the database has no such table.
ColumnsJob ==
  /\ Job("columns")
  /\ LET j == Head(jobs)
         there == Understood /\ j.table \in provider.tables
     IN  \E lines \in {None} \cup
                      (IF there THEN {[conn |-> provider, table |-> j.table]} ELSE {}) :
           posted' = Append(posted, [kind |-> "columns", node |-> j.node, lines |-> lines,
                                     generation |-> j.generation,
                                     refreshing |-> j.refreshing])
  /\ UNCHANGED <<provider, pendingConn, currentConn, nodes, commands, generation, misplaced>>

-----------------------------------------------------------------------------
\* The window handles the next message.

Message(kind) == posted # <<>> /\ Head(posted).kind = kind /\ posted' = Tail(posted)

\* Mutant of Connected: the tree of the old connection stays.
ConnectedKeepsTree ==
  /\ Message("connected")
  /\ currentConn' = IF Head(posted).ok THEN pendingConn ELSE currentConn
  /\ UNCHANGED <<provider, jobs, pendingConn, nodes, commands, generation, misplaced>>

\* WM_APP_CONNECTED: a connection that was made is the pending one, whichever that
\* is by now; a failed one leaves the tree as it is.
Connected ==
  /\ Message("connected")
  /\ IF Head(posted).ok
     THEN /\ currentConn' = pendingConn
          /\ fetchTablesAsync(pendingConn.engine)
     ELSE UNCHANGED <<currentConn, jobs>>
  /\ UNCHANGED <<provider, pendingConn, nodes, commands, generation, misplaced>>

\* WM_APP_TABLES deletes every node before it inserts the new ones.
populateTables ==
  /\ Message("tables")
  /\ LET tables == Head(posted).tables
     IN  \E hs \in SUBSET Handles : \E name \in [hs -> tables] :
           /\ Cardinality(hs) = Cardinality(tables)
           /\ \A t \in tables : \E h \in hs : name[h] = t
           /\ nodes' = [h \in hs |->
                          [text |-> name[h], param |-> "unloaded", lines |-> None]]
  /\ generation' = generation + 1
  /\ misplaced' = FALSE
  /\ UNCHANGED <<provider, jobs, pendingConn, currentConn, commands>>

\* WM_APP_COLUMNS marks the node its handle now names loaded, answered or not, and
\* replaces what is below it.
populateColumns ==
  /\ Message("columns")
  /\ LET m == Head(posted)
     IN  IF m.node \in DOMAIN nodes
         THEN /\ nodes' = [nodes EXCEPT ![m.node].param = "loaded", ![m.node].lines = m.lines]
              /\ misplaced' = (misplaced \/ m.generation # generation)
         ELSE UNCHANGED <<nodes, misplaced>>
  /\ UNCHANGED <<provider, jobs, pendingConn, currentConn, commands, generation>>

Work ==
  \/ ConnectJob \/ TablesJob \/ ColumnsJob
  \/ Connected \/ populateTables \/ populateColumns

Next == Open \/ Refresh \/ onTreeExpand \/ Work

Spec == Init /\ [][Next]_vars

-----------------------------------------------------------------------------
AnswersDue(h) ==
  {n \in 1..Len(jobs) : /\ jobs[n].kind = "columns"
                        /\ jobs[n].node = h /\ jobs[n].generation = generation}
  \cup
  {-n : n \in {k \in 1..Len(posted) : /\ posted[k].kind = "columns"
                                      /\ posted[k].node = h
                                      /\ posted[k].generation = generation}}

Stale(m) == m.kind = "columns" /\ m.generation # generation

\* A node is marked loading exactly while one answer is on its way to it, so it is
\* neither fetched twice nor left with "(loading...)" for ever; and an answer
\* outlives its node only if the node was expanded while a refresh was under way.
\* (Once such an answer has been given to another node, that node may be loaded
\* while its own answer is due.)
LoadingIsPending ==
  /\ \A h \in DOMAIN nodes :
       /\ nodes[h].param = "loading" => Cardinality(AnswersDue(h)) = 1
       /\ nodes[h].param = "unloaded" => AnswersDue(h) = {}
       /\ nodes[h].param = "loaded" /\ ~misplaced => AnswersDue(h) = {}
  /\ \A n \in 1..Len(jobs) : Stale(jobs[n]) => jobs[n].refreshing
  /\ \A n \in 1..Len(posted) : Stale(posted[n]) => posted[n].refreshing

Quiet == jobs = <<>> /\ posted = <<>>

\* The columns below a table are that table's, however refreshes, expansions and
\* connects overlap; and once nothing is on its way, those of the database the
\* window is connected to.  The exception is the one above: an answer given to a
\* node that took over the handle of the node that had asked.
ColumnsOfTheirTable ==
  ~misplaced =>
    \A h \in DOMAIN nodes : nodes[h].lines # None =>
      /\ nodes[h].lines.table = nodes[h].text
      /\ Quiet /\ provider # None => nodes[h].lines.conn = provider
=============================================================================
