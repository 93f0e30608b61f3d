----------------------------- MODULE StoreLists -----------------------------
(***************************************************************************)
(* What src/persistence/Stores.cpp does to its four lists, and the JSON    *)
(* form they have in their files.  A name is a letter and a case, so that  *)
(* names can differ and yet compare equal; a target stands for the fields  *)
(* that identify a connection (file path, or host, port, database, user).  *)
(***************************************************************************)
EXTENDS Integers, Sequences, Functions, Lists

CONSTANTS
  None,         \* an absent optional
  MaxRecents,   \* 10 in the code
  MaxHistory    \* 200 in the code

Engine == {"Postgres", "Sqlite"}
SslMode == {"off", "prefer", "require"}
Name == [letter : Int, upper : BOOLEAN]

Capped(list, n) == SubSeq(list, 1, IF Len(list) < n THEN Len(list) ELSE n)

InOrder(list) ==
  \A a, b \in 1..Len(list) : a < b => list[a].name.letter <= list[b].name.letter

\* The orders std::sort by name may leave a list in: equal names in any order.
Sorted(list) ==
  {s \in {[n \in 1..Len(list) |-> list[o[n]]] : o \in Bijection(1..Len(list), 1..Len(list))} :
     InOrder(s)}

-----------------------------------------------------------------------------
\* ConnectionProfile(c, name); the password of a connection is never part of it.
Profile(c, name) ==
  [name |-> name, engine |-> c.engine, target |-> c.target, sslMode |-> c.sslMode]

\* ConnectionProfile::id: a saved profile's by name, a recent one's by target.
ProfileId(p) == IF p.name # None THEN <<"named", p.name>> ELSE <<p.engine, p.target>>

\* Mutant of profileToJson: the SSL mode is not written.
ProfileToJsonNoSsl(p) ==
  [k \in {"engine", "target"} \cup {o \in {"name"} : p[o] # None} |->
     IF k = "engine" THEN IF p.engine = "Postgres" THEN "PostgreSQL" ELSE "SQLite"
     ELSE p[k]]

\* Keys that are absent in JSON are those of absent optionals.
profileToJson(p) ==
  [k \in {"engine", "target"} \cup {o \in {"name", "sslMode"} : p[o] # None} |->
     IF k = "engine" THEN IF p.engine = "Postgres" THEN "PostgreSQL" ELSE "SQLite"
     ELSE p[k]]

profileFromJson(j) ==
  [name |-> IF "name" \in DOMAIN j THEN j.name ELSE None,
   engine |-> IF j.engine = "PostgreSQL" THEN "Postgres" ELSE "Sqlite",
   target |-> j.target,
   sslMode |-> IF "sslMode" \in DOMAIN j THEN j.sslMode ELSE None]

-----------------------------------------------------------------------------
SameId(list, p) == {e \in EntriesOf(list) : ProfileId(e) = ProfileId(p)}

\* Mutant of WithRecent: the newest goes to the end.
WithRecentLast(list, p) == {Capped(Without(list, SameId(list, p)) \o <<p>>, MaxRecents)}

\* RecentConnectionsStore::add
WithRecent(list, p) == {Capped(<<p>> \o Without(list, SameId(list, p)), MaxRecents)}

\* SavedProfilesStore::save (displayName of a named profile is its name)
WithProfile(list, p) == Sorted(Append(Without(list, SameId(list, p)), p))

\* QueryHistoryStore::record; id is what newGuid() gives.
WithRecorded(list, sql, id) ==
  LET same == {n \in 1..Len(list) : list[n].sql = sql}
      first == CHOOSE n \in same : \A m \in same : n <= m
      entry == IF same = {} THEN [id |-> id, sql |-> sql, runCount |-> 1]
               ELSE [list[first] EXCEPT !.runCount = @ + 1]
      rest == IF same = {} THEN list
              ELSE SubSeq(list, 1, first - 1) \o SubSeq(list, first + 1, Len(list))
  IN  {Capped(<<entry>> \o rest, MaxHistory)}

\* Mutant of WithSnippet: names are compared with their case.
WithSnippetOfCase(list, name, sql, id) ==
  Sorted(Append(Without(list, {e \in EntriesOf(list) : e.name = name}),
                [id |-> id, name |-> name, sql |-> sql]))

\* SnippetStore::save
WithSnippet(list, name, sql, id) ==
  Sorted(Append(Without(list, {e \in EntriesOf(list) : e.name.letter = name.letter}),
                [id |-> id, name |-> name, sql |-> sql]))

\* SnippetStore::remove
WithoutSnippet(list, id) == {Without(list, {e \in EntriesOf(list) : e.id = id})}

-----------------------------------------------------------------------------
Distinct(list, Key(_)) ==
  \A a, b \in 1..Len(list) : Key(list[a]) = Key(list[b]) => a = b

\* What Stores.h promises of each list.
SoundList(f, list) ==
  CASE f = "recents" -> /\ Len(list) <= MaxRecents
                        /\ Distinct(list, ProfileId)
    [] f = "profiles" -> /\ Distinct(list, ProfileId)
                         /\ InOrder(list)
    [] f = "history" -> /\ Len(list) <= MaxHistory
                        /\ Distinct(list, LAMBDA e : e.sql)
                        /\ Distinct(list, LAMBDA e : e.id)
    [] f = "snippets" -> /\ Distinct(list, LAMBDA e : e.name.letter)
                         /\ Distinct(list, LAMBDA e : e.id)
                         /\ InOrder(list)
=============================================================================
