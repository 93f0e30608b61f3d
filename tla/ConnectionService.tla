------------------------- MODULE ConnectionService -------------------------
(***************************************************************************)
(* What DatabaseSession promises its caller, without its thread, queue     *)
(* mutex or connection mutex: jobs are run one at a time in the order they *)
(* were posted, each completes at most once, the connection in use changes *)
(* only inside a connect or disconnect job, and closing the service        *)
(* discards what has not begun.  The threading contract at the top of      *)
(* DatabaseSession.h states it in words; DatabaseSession is shown to       *)
(* implement it.                                                           *)
(***************************************************************************)
EXTENDS Naturals, Sequences

CONSTANT None   \* "no job" and "no connection"

VARIABLES
  accepted,    \* how many jobs have been accepted; jobs are numbered in order
  pending,     \* jobs accepted and not begun, oldest first
  running,     \* the job being run, or None
  conn,        \* the id of the connect job whose connection is in use, or None
  completed,   \* every completed job with the connection it completed under
  closed       \* the service accepts and begins nothing more

svars == <<accepted, pending, running, conn, completed, closed>>

Kinds == {"connect", "disconnect", "execute", "schema"}
ConnKinds == {"connect", "disconnect"}

SInit ==
  /\ accepted = 0
  /\ pending = <<>>
  /\ running = None
  /\ conn = None
  /\ completed = <<>>
  /\ closed = FALSE

Accept ==
  /\ ~closed
  /\ accepted' = accepted + 1
  /\ \E k \in Kinds :
       pending' = Append(pending, [id |-> accepted + 1, kind |-> k])
  /\ UNCHANGED <<running, conn, completed, closed>>

Begin ==
  /\ ~closed
  /\ running = None
  /\ pending # <<>>
  /\ running' = Head(pending)
  /\ pending' = Tail(pending)
  /\ UNCHANGED <<accepted, conn, completed, closed>>

\* A connect job gives up the old connection before it tries the new one.
Drop ==
  /\ running # None
  /\ running.kind \in ConnKinds
  /\ conn' = None
  /\ UNCHANGED <<accepted, pending, running, completed, closed>>

Establish ==
  /\ running # None
  /\ running.kind = "connect"
  /\ conn = None
  /\ conn' = running.id
  /\ UNCHANGED <<accepted, pending, running, completed, closed>>

\* A query completes under the connection in use at that moment: it cannot
\* have been changed under it.
Complete ==
  /\ running # None
  /\ completed' = Append(completed, [job |-> running, conn |-> conn])
  /\ running' = None
  /\ UNCHANGED <<accepted, pending, conn, closed>>

Close ==
  /\ ~closed
  /\ closed' = TRUE
  /\ UNCHANGED <<accepted, pending, running, conn, completed>>

\* The last connection is released only when nothing runs any more.
Release ==
  /\ closed
  /\ running = None
  /\ conn' = None
  /\ UNCHANGED <<accepted, pending, running, completed, closed>>

SNext ==
  \/ Accept \/ Begin \/ Drop \/ Establish \/ Complete \/ Close \/ Release

ServiceSpec == SInit /\ [][SNext]_svars
=============================================================================
