------------------------------- MODULE Stores -------------------------------
(***************************************************************************)
(* The stores of src/persistence as the program's processes use them: the  *)
(* JSON files of %APPDATA%\SQLTerminal and the Credential Manager, shared  *)
(* by every process, and the dialogs that read and change them.  A change  *)
(* is three steps (the list is loaded, the file truncated, the file        *)
(* written) between which another process may run and this one may die;    *)
(* g_mutex excludes only threads of one process, and a process has one     *)
(* thread that uses the stores.  What a handler does after it has changed  *)
(* a store is kept as the work left to it.                                 *)
(*                                                                         *)
(* Two windows of one process act like two processes whose changes never   *)
(* overlap.  A window that has asked for a connection asks for no second   *)
(* one before the answer.                                                  *)
(***************************************************************************)
EXTENDS StoreLists

CONSTANTS
  Processes,
  Targets,      \* what connections go to
  Conns,        \* connections: [engine, target, sslMode]
  Sqls,         \* texts, trimmed and not empty
  Searches,     \* texts typed into the search box
  Names,        \* names of profiles and snippets: [letter, upper]
  Kept,         \* what earlier sessions may have left: the list in each file
  MaxCommands,  \* bound: commands that change a store
  MaxCrashes    \* bound: processes that die

Files == {"recents", "profiles", "history", "snippets"}

\* What the lists hold.  A recent profile has no name, and one that an older
\* version wrote has no SSL mode.  An id of an earlier session is none that
\* newGuid gives in this one, where ids are counted from 0.
DatabaseConnection == [engine : Engine, target : Targets, sslMode : SslMode]
ProfilesOf(names) ==
  [name : names, engine : Engine, target : Targets, sslMode : SslMode \cup {None}]
HistoryEntries(texts) == [id : Int, sql : texts, runCount : Nat]
Snippets(texts) == [id : Int, name : Name, sql : texts]

ASSUME StoresAssumption ==
  /\ MaxRecents \in Nat \ {0} /\ MaxHistory \in Nat \ {0}
  /\ MaxCommands \in Nat /\ MaxCrashes \in Nat
  /\ Conns \subseteq DatabaseConnection
  /\ Names \subseteq Name
  /\ None \notin ProfilesOf({None}) /\ None \notin Name

\* An earlier session has left the stores as their header promises.
ASSUME KeptAssumption ==
  \A kept \in Kept :
    /\ kept = [f \in Files |-> kept[f]]
    /\ kept["recents"] \in Seq(ProfilesOf({None}))
    /\ kept["profiles"] \in Seq(ProfilesOf(Name))
    /\ kept["history"] \in Seq(HistoryEntries({e.sql : e \in EntriesOf(kept["history"])}))
    /\ kept["snippets"] \in Seq(Snippets({e.sql : e \in EntriesOf(kept["snippets"])}))
    /\ \A f \in {"history", "snippets"} : \A e \in EntriesOf(kept[f]) : e.id < 0
    /\ \A f \in Files : SoundList(f, kept[f])

VARIABLES
  files,       \* the JSON array in each file; a missing or truncated file, which
               \* readFile and parse turn into no list at all, is the empty array
  creds,       \* the Credential Manager: the password of each target, or None
  work,        \* what the handler a process runs has still to do
  stage,       \* how far the change at its head has come: "ready", "loaded", "truncated"
  changed,     \* the list it will write
  dialog,      \* the dialog a process shows, or the connection it waits for
  needle,      \* the text in the search box, or None
  shown,       \* the entries the list box shows, with their index in the store
  form,        \* the connection dialog's profiles and fields
  commands, crashes,
  \* history
  ideal,       \* the lists as they would be if every change were one step
  disturbed,   \* the files whose changes overlapped or were cut short
  lastConn,    \* the connection last added to the recents
  outdated,    \* the processes whose list another process has since made outdated
  aim          \* the last snippet deletion: what was selected and what was hit

storeVars == <<files, creds, work, stage, changed>>
uiVars == <<dialog, needle, shown, form>>
countVars == <<commands, crashes>>
historyVars == <<ideal, disturbed, lastConn, outdated, aim>>
vars == <<storeVars, uiVars, countVars, historyVars>>

EmptyForm == [profiles |-> <<>>, conn |-> None, password |-> "", remember |-> FALSE]

\* loadVec.
Load(f) ==
  IF f \in {"recents", "profiles"}
  THEN [n \in 1..Len(files[f]) |-> profileFromJson(files[f][n])] ELSE files[f]

\* saveVec's array.
Encoded(f, list) ==
  IF f \in {"recents", "profiles"}
  THEN [n \in 1..Len(list) |-> profileToJson(list[n])] ELSE list

Init ==
  /\ ideal \in Kept
  /\ files = [f \in Files |-> Encoded(f, ideal[f])]
  /\ creds = [t \in Targets |-> None]
  /\ work = [p \in Processes |-> <<>>]
  /\ stage = [p \in Processes |-> "ready"]
  /\ changed = [p \in Processes |-> <<>>]
  /\ dialog = [p \in Processes |-> "none"]
  /\ needle = [p \in Processes |-> None]
  /\ shown = [p \in Processes |-> <<>>]
  /\ form = [p \in Processes |-> EmptyForm]
  /\ commands = 0 /\ crashes = 0
  /\ disturbed = {}
  /\ lastConn = IF ideal["recents"] = <<>> THEN None ELSE ideal["recents"][1]
  /\ outdated = {}
  /\ aim = None

-----------------------------------------------------------------------------
\* Work: a change of a store, in three steps.

Doing(p, op) == work[p] # <<>> /\ Head(work[p]).op = op
Done(p) == work' = [work EXCEPT ![p] = Tail(@)]

\* The lists a change may make of a store's list.
Results(c, list) ==
  CASE c.op = "addRecent" -> WithRecent(list, c.profile)
    [] c.op = "saveProfile" -> WithProfile(list, c.profile)
    [] c.op = "record" -> WithRecorded(list, c.sql, c.id)
    [] c.op = "saveSnippet" -> WithSnippet(list, c.name, c.sql, c.id)
    [] c.op = "removeSnippet" -> WithoutSnippet(list, c.id)

FileOf(op) ==
  CASE op = "addRecent" -> "recents"
    [] op = "saveProfile" -> "profiles"
    [] op = "record" -> "history"
    [] op \in {"saveSnippet", "removeSnippet"} -> "snippets"

Changes == {"addRecent", "saveProfile", "record", "saveSnippet", "removeSnippet"}
Changing(p) == work[p] # <<>> /\ Head(work[p]).op \in Changes
FileOfWork(p) == FileOf(Head(work[p]).op)

\* Another process is between its load and its write of the same file.
Overlaps(p) ==
  \E q \in Processes \ {p} : stage[q] # "ready" /\ FileOfWork(q) = FileOfWork(p)

LoadList(p) ==
  /\ Changing(p)
  /\ stage[p] = "ready"
  /\ stage' = [stage EXCEPT ![p] = "loaded"]
  /\ \E list \in Results(Head(work[p]), Load(FileOfWork(p))) :
       changed' = [changed EXCEPT ![p] = list]
  /\ disturbed' = IF Overlaps(p) THEN disturbed \cup {FileOfWork(p)} ELSE disturbed
  /\ UNCHANGED <<files, creds, work, uiVars, countVars, ideal, lastConn, outdated, aim>>

Outdates(p) ==
  IF FileOfWork(p) = "snippets" THEN outdated \cup (Processes \ {p}) ELSE outdated

\* writeFile opens the file with ios::trunc.
TruncateFile(p) ==
  /\ stage[p] = "loaded"
  /\ stage' = [stage EXCEPT ![p] = "truncated"]
  /\ files' = [files EXCEPT ![FileOfWork(p)] = <<>>]
  /\ outdated' = Outdates(p)
  /\ UNCHANGED <<creds, work, changed, uiVars, countVars, ideal, disturbed, lastConn, aim>>

WriteFile(p) ==
  /\ stage[p] = "truncated"
  /\ stage' = [stage EXCEPT ![p] = "ready"]
  /\ files' = [files EXCEPT ![FileOfWork(p)] = Encoded(FileOfWork(p), changed[p])]
  /\ changed' = [changed EXCEPT ![p] = <<>>]
  /\ Done(p)
  /\ ideal' = [ideal EXCEPT ![FileOfWork(p)] =
                 CHOOSE list \in Results(Head(work[p]), @) : TRUE]
  /\ lastConn' = IF Doing(p, "addRecent") THEN Head(work[p]).profile ELSE lastConn
  /\ outdated' = Outdates(p)
  /\ UNCHANGED <<creds, uiVars, countVars, disturbed, aim>>

\* QueryHistoryStore::clear removes the file.
ClearFile(p) ==
  /\ Doing(p, "clear")
  /\ files' = [files EXCEPT !["history"] = <<>>]
  /\ Done(p)
  /\ ideal' = [ideal EXCEPT !["history"] = <<>>]
  /\ disturbed' = IF \E q \in Processes : stage[q] # "ready" /\ FileOfWork(q) = "history"
                  THEN disturbed \cup {"history"} ELSE disturbed
  /\ UNCHANGED <<creds, stage, changed, uiVars, countVars, lastConn, outdated, aim>>

\* savePassword, or deletePassword, of the account just connected to.
TouchCredentials(p) ==
  /\ Doing(p, "credentials")
  /\ LET c == Head(work[p])
     IN  creds' = [creds EXCEPT ![c.target] =
                     IF c.remember /\ c.password # "" THEN c.password ELSE None]
  /\ Done(p)
  /\ UNCHANGED <<files, stage, changed, uiVars, countVars, historyVars>>

-----------------------------------------------------------------------------
\* History & Snippets dialog.

Matches(e, f, n) == n = None \/ e.sql = n \/ (f = "snippets" /\ e.name = n)

\* Mutant of Shown: a row keeps its place in the list box.
ShownByRow(f, n) ==
  LET list == Load(f)
      found == Without(list, {e \in EntriesOf(list) : ~Matches(e, f, n)})
  IN  [k \in 1..Len(found) |-> [index |-> k, id |-> found[k].id]]

\* repopulate: the entries that match the search, each with its index.
Shown(f, n) ==
  LET list == Load(f)
      rows == [k \in 1..Len(list) |-> [index |-> k, id |-> list[k].id]]
  IN  Without(rows, {s \in EntriesOf(rows) : ~Matches(list[s.index], f, n)})

Repopulate(p) ==
  /\ Doing(p, "repopulate")
  /\ shown' = [shown EXCEPT ![p] = Shown(dialog[p], needle[p])]
  /\ Done(p)
  /\ outdated' = outdated \ {p}
  /\ UNCHANGED <<files, creds, stage, changed, dialog, needle, form, countVars, ideal,
                 disturbed, lastConn, aim>>

Idle(p) == work[p] = <<>>
Command(p, d) == Idle(p) /\ dialog[p] = d /\ commands < MaxCommands
Counted == commands' = commands + 1

\* runText records what it runs.
Run(p) ==
  /\ Command(p, "none")
  /\ \E s \in Sqls :
       work' = [work EXCEPT ![p] = <<[op |-> "record", sql |-> s, id |-> commands]>>]
  /\ Counted
  /\ UNCHANGED <<files, creds, stage, changed, uiVars, crashes, historyVars>>

\* The dialog opens, changes its mode or its search; closing it includes loading
\* the selection, a copy made when the list was filled.
ShowList(p) ==
  /\ Idle(p)
  /\ dialog[p] \in {"none", "history", "snippets"}
  /\ \/ /\ dialog[p] = "none"
        /\ dialog' = [dialog EXCEPT ![p] = "history"]
        /\ UNCHANGED needle
     \/ /\ dialog[p] # "none"
        /\ \E m \in {"history", "snippets"} \ {dialog[p]} :
             dialog' = [dialog EXCEPT ![p] = m]
        /\ UNCHANGED needle
     \/ /\ dialog[p] # "none"
        /\ \E n \in (Searches \cup {None}) \ {needle[p]} : needle' = [needle EXCEPT ![p] = n]
        /\ UNCHANGED dialog
  /\ shown' = [shown EXCEPT ![p] = Shown(dialog'[p], needle'[p])]
  /\ outdated' = outdated \ {p}
  /\ UNCHANGED <<storeVars, form, countVars, ideal, disturbed, lastConn, aim>>

\* Mutant of CloseList: the rows outlive the dialog.
CloseListKeepsRows(p) ==
  /\ Idle(p)
  /\ dialog[p] \in {"history", "snippets"}
  /\ dialog' = [dialog EXCEPT ![p] = "none"]
  /\ needle' = [needle EXCEPT ![p] = None]
  /\ UNCHANGED <<storeVars, shown, form, countVars, historyVars>>

CloseList(p) ==
  /\ Idle(p)
  /\ dialog[p] \in {"history", "snippets"}
  /\ dialog' = [dialog EXCEPT ![p] = "none"]
  /\ needle' = [needle EXCEPT ![p] = None]
  /\ shown' = [shown EXCEPT ![p] = <<>>]
  /\ UNCHANGED <<storeVars, form, countVars, historyVars>>

SaveSnippet(p) ==
  /\ Command(p, "snippets")
  /\ \E n \in Names, s \in Sqls :
       work' = [work EXCEPT ![p] =
                  <<[op |-> "saveSnippet", name |-> n, sql |-> s, id |-> commands],
                    [op |-> "repopulate"]>>]
  /\ Counted
  /\ UNCHANGED <<files, creds, stage, changed, uiVars, crashes, historyVars>>

\* Delete loads the store again and removes what now is at the index kept for
\* the selected row.
DeleteSnippet(p) ==
  /\ Command(p, "snippets")
  /\ \E sel \in 1..Len(shown[p]) :
       LET snips == Load("snippets")
           index == shown[p][sel].index
       IN  IF index <= Len(snips)
           THEN /\ work' = [work EXCEPT ![p] =
                              <<[op |-> "removeSnippet", id |-> snips[index].id],
                                [op |-> "repopulate"]>>]
                /\ aim' = [selected |-> shown[p][sel].id, hit |-> snips[index].id,
                           outdated |-> p \in outdated]
           ELSE /\ work' = [work EXCEPT ![p] = <<[op |-> "repopulate"]>>]
                /\ UNCHANGED aim
  /\ Counted
  /\ UNCHANGED <<files, creds, stage, changed, uiVars, crashes, ideal, disturbed,
                 lastConn, outdated>>

ClearHistory(p) ==
  /\ Command(p, "history")
  /\ work' = [work EXCEPT ![p] = <<[op |-> "clear"], [op |-> "repopulate"]>>]
  /\ Counted
  /\ UNCHANGED <<files, creds, stage, changed, uiVars, crashes, historyVars>>

-----------------------------------------------------------------------------
\* Connection dialog.

\* applyProfile: the password comes from the Credential Manager.
Applied(p, profile) ==
  LET kept == profile.engine = "Postgres" /\ creds[profile.target] # None
  IN  [form[p] EXCEPT
         !.conn = [engine |-> profile.engine, target |-> profile.target,
                   sslMode |-> IF profile.sslMode = None THEN "prefer"
                               ELSE profile.sslMode],
         !.password = IF kept THEN creds[profile.target] ELSE "",
         !.remember = kept]

\* createControls lists the recent and the saved profiles...
OpenConnect(p) ==
  /\ Command(p, "none")
  /\ dialog' = [dialog EXCEPT ![p] = "connect"]
  /\ form' = [form EXCEPT ![p] =
                [EmptyForm EXCEPT !.profiles = Load("recents") \o Load("profiles")]]
  /\ work' = [work EXCEPT ![p] = <<[op |-> "prefill"]>>]
  /\ UNCHANGED <<files, creds, stage, changed, needle, shown, countVars, historyVars>>

\* ...and, if the recents it then loads again are not empty, applies the first.
Prefill(p) ==
  /\ Doing(p, "prefill")
  /\ IF form[p].profiles # <<>> /\ Load("recents") # <<>>
     THEN form' = [form EXCEPT ![p] = Applied(p, form[p].profiles[1])]
     ELSE UNCHANGED form
  /\ Done(p)
  /\ UNCHANGED <<files, creds, stage, changed, dialog, needle, shown, countVars,
                 historyVars>>

ChooseProfile(p) ==
  /\ Command(p, "connect")
  /\ \E n \in 1..Len(form[p].profiles) :
       form' = [form EXCEPT ![p] = Applied(p, form[p].profiles[n])]
  /\ UNCHANGED <<storeVars, dialog, needle, shown, countVars, historyVars>>

\* The user completes the form and presses Connect.
Submit(p) ==
  /\ Command(p, "connect")
  /\ \E c \in Conns, pw \in {form[p].password, "pw"}, r \in BOOLEAN :
       form' = [form EXCEPT ![p] = [profiles |-> <<>>, conn |-> c, password |-> pw,
                                    remember |-> r]]
  /\ dialog' = [dialog EXCEPT ![p] = "connecting"]
  /\ Counted
  /\ UNCHANGED <<storeVars, needle, shown, crashes, historyVars>>

CancelConnect(p) ==
  /\ Idle(p)
  /\ dialog[p] = "connect"
  /\ dialog' = [dialog EXCEPT ![p] = "none"]
  /\ form' = [form EXCEPT ![p] = EmptyForm]
  /\ UNCHANGED <<storeVars, needle, shown, countVars, historyVars>>

\* WM_APP_CONNECTED: applyConnectionPersistence if it succeeded.
Connected(p) ==
  /\ Idle(p)
  /\ dialog[p] = "connecting"
  /\ LET c == form[p].conn
         save(n) == IF n = None THEN <<>>
                    ELSE <<[op |-> "saveProfile", profile |-> Profile(c, n)]>>
         touch == IF c.engine # "Postgres" THEN <<>>
                  ELSE <<[op |-> "credentials", target |-> c.target,
                          remember |-> form[p].remember, password |-> form[p].password]>>
     IN  \/ \E saveAs \in Names \cup {None} :
              work' = [work EXCEPT ![p] =
                         <<[op |-> "addRecent", profile |-> Profile(c, None)]>>
                           \o save(saveAs) \o touch]
         \/ UNCHANGED work
  /\ dialog' = [dialog EXCEPT ![p] = "none"]
  /\ form' = [form EXCEPT ![p] = EmptyForm]
  /\ UNCHANGED <<files, creds, stage, changed, needle, shown, countVars, historyVars>>

-----------------------------------------------------------------------------
\* The process dies and is started again.
Crash(p) ==
  /\ crashes < MaxCrashes
  /\ crashes' = crashes + 1
  /\ disturbed' = IF stage[p] = "truncated" THEN disturbed \cup {FileOfWork(p)}
                  ELSE disturbed
  /\ work' = [work EXCEPT ![p] = <<>>]
  /\ stage' = [stage EXCEPT ![p] = "ready"]
  /\ changed' = [changed EXCEPT ![p] = <<>>]
  /\ dialog' = [dialog EXCEPT ![p] = "none"]
  /\ needle' = [needle EXCEPT ![p] = None]
  /\ shown' = [shown EXCEPT ![p] = <<>>]
  /\ form' = [form EXCEPT ![p] = EmptyForm]
  /\ outdated' = outdated \ {p}
  /\ UNCHANGED <<files, creds, commands, ideal, lastConn, aim>>

Work(p) ==
  \/ LoadList(p) \/ TruncateFile(p) \/ WriteFile(p) \/ ClearFile(p)
  \/ TouchCredentials(p) \/ Repopulate(p) \/ Prefill(p)

Commands(p) ==
  \/ Run(p) \/ ShowList(p) \/ CloseList(p) \/ SaveSnippet(p) \/ DeleteSnippet(p)
  \/ ClearHistory(p)
  \/ OpenConnect(p) \/ ChooseProfile(p) \/ Submit(p) \/ CancelConnect(p) \/ Connected(p)

Next == \E p \in Processes : Work(p) \/ Commands(p) \/ Crash(p)

Spec == Init /\ [][Next]_vars

-----------------------------------------------------------------------------
TypeOK ==
  /\ \A f \in Files : Len(files[f]) \in Nat
  /\ \A t \in Targets : creds[t] \in {None, "pw"}
  /\ \A p \in Processes :
       /\ stage[p] \in {"ready", "loaded", "truncated"}
       /\ stage[p] # "ready" => Changing(p)
       /\ dialog[p] \in {"none", "history", "snippets", "connect", "connecting"}
       /\ needle[p] \in Searches \cup {None}
       /\ shown[p] # <<>> => dialog[p] \in {"history", "snippets"}
       /\ form[p] # EmptyForm => dialog[p] \in {"connect", "connecting"}
       /\ Doing(p, "repopulate") => dialog[p] \in {"history", "snippets"}
  /\ commands \in 0..MaxCommands
  /\ crashes \in 0..MaxCrashes
  /\ disturbed \subseteq Files

\* Whatever processes overlap and wherever one dies, every store that can be read
\* is what its header promises: recents and history capped, no two recents or
\* profiles of one id, no two history entries of one text, no two snippets whose
\* names compare equal, saved profiles and snippets sorted by name.
ListsSound == \A f \in Files : SoundList(f, Load(f))

Settled(f) == \A p \in Processes : stage[p] = "truncated" => FileOfWork(p) # f

\* A store holds exactly what the changes made to it, one after the other, leave:
\* an entry is lost only when two processes' changes of the file overlap or a
\* process dies between truncating and writing it.  What is read back through
\* JSON is what was saved, most recent first where the order means that.
NothingLostAlone ==
  \A f \in Files \ disturbed :
    Settled(f) =>
      IF f \in {"recents", "history"} THEN Load(f) = ideal[f]
      ELSE EntriesOf(Load(f)) = EntriesOf(ideal[f])

\* While no other process changes the snippets after a dialog's list was filled,
\* Delete removes the snippet that is selected, whatever was saved, deleted or
\* searched for in the dialog before.  (After such a change the index kept for the
\* row may name another snippet.)
DeleteHitsSelected == aim # None /\ ~aim.outdated => aim.hit = aim.selected

\* The connection dialog opens on the connection made last, with its SSL mode (or
\* "prefer", if an older version recorded none), if the stores do not change while
\* it opens and no change of the recents was disturbed; and it offers to remember
\* exactly a password it has found.
OpensOnLastConnection ==
  [][\A p \in Processes :
       /\ Doing(p, "prefill")
       /\ work'[p] = <<>> /\ dialog'[p] = "connect"
       /\ "recents" \notin disturbed /\ Settled("recents")
       /\ form[p].profiles = Load("recents") \o Load("profiles")
       => /\ lastConn = None => form'[p] = form[p]
          /\ lastConn # None =>
               Profile(form'[p].conn, None)
                 = [lastConn EXCEPT !.sslMode = IF @ = None THEN "prefer" ELSE @]
          /\ form'[p].remember <=> form'[p].password # ""]_vars
=============================================================================
