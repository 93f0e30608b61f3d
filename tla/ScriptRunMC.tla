---------------------------- MODULE ScriptRunMC ----------------------------
(* Scripts of three chunks each, and some longer ones.                     *)
EXTENDS ScriptRun

MCWords == {"SELECT", "DELETE", "WHERE", "x", "tables", "count", "columns",
            "WITH", "EXPLAIN", "ANALYZE", "DROP", "dbinfo", "databases",
            "journal", "connect", "clear", "indexes", "first", "E", "1"}

Chunks == {<<"SELECT">>, <<"DELETE">>, <<"semi">>, <<"quote">>, <<"newline">>,
           <<"dash", "dash">>, <<"slash", "star">>, <<"star", "slash">>,
           <<"dollar", "dollar">>, <<"dollar", "x", "dollar">>}
Two == {a \o b : a \in Chunks, b \in Chunks}

\* Strings, comments and dollar quotes that hold semicolons and each other's
\* delimiters, between two statements.
Bodies == {<<"quote", "semi", "quote">>, <<"quote", "quote", "quote", "semi", "quote">>,
           <<"slash", "star", "quote", "semi", "star", "slash">>,
           <<"slash", "star", "slash", "semi">>,
           <<"dash", "dash", "semi", "slash", "star", "newline">>,
           <<"dollar", "x", "dollar", "semi", "dollar", "dollar", "quote", "dollar", "x", "dollar">>,
           <<"dollar", "dollar", "DELETE", "semi", "dollar", "dollar">>,
           <<"curly", "semi", "curly">>, <<"emdash", "emdash", "semi", "newline">>}
Long == {<<"DELETE", "space">> \o b \o <<"semi", "space">> \o c :
           b \in Bodies, c \in {<<"SELECT">>, <<"DELETE", "space", "WHERE", "semi">>,
                                 <<"backslash", "x">>, <<"dash", "dash", "x">>}}

\* Quoted names that hold what src/core looks for, and what else the engines read
\* in their own way, before and after a semicolon.
Quoted == {<<"double", "x", "double">>, <<"double", "quote", "double">>,
           <<"double", "semi", "double">>, <<"double", "dash", "dash", "double">>,
           <<"double", "quote", "quote", "double">>, <<"double", "double", "double", "double">>,
           <<"curlydouble", "x", "curlydouble">>, <<"curlydouble", "curly", "curlydouble">>,
           <<"backquote", "x", "backquote">>, <<"backquote", "quote", "backquote">>,
           <<"bracket", "x", "endbracket">>, <<"bracket", "quote", "endbracket">>,
           <<"bracket", "semi", "endbracket">>, <<"double", "x">>, <<"endbracket">>}
Peculiar == {<<"E", "quote", "backslash", "quote">>, <<"E", "quote", "x", "quote">>,
             <<"x", "dollar", "dollar">>, <<"1", "dollar", "x", "dollar">>,
             <<"dollar", "1", "dollar">>, <<"slash", "star", "slash", "star", "star", "slash">>}
Named(bodies) == {<<"SELECT">> \o b \o <<"semi">> \o c :
                    b \in bodies,
                    c \in {<<"DELETE">>, <<"x", "quote">>, <<"dash", "dash", "quote">>}}

\* Statements the guard judges by more than their first word.
Judged == {<<"WITH", "space", "x", "semi">>, <<"WITH", "x", "space", "DELETE">>,
           <<"EXPLAIN", "space", "DELETE">>, <<"EXPLAIN", "space", "ANALYZE", "space", "x">>,
           <<"DROP", "semi", "SELECT">>}

Command(w) == <<"dot", w>>
Dots == {Command(w) : w \in MCWords} \cup
        {Command(w) \o <<"space", "x">> : w \in {"count", "columns", "indexes", "connect"}} \cup
        {<<"dot", "columns", "space", "quote", "semi", "DELETE">>, <<"dot">>,
         <<"dot", "count", "space", "double", "semi", "DELETE">>,
         <<"dot", "first", "space", "x", "quote">>} \cup
        {<<"x", "semi", "space">> \o Command(w) : w \in {"tables", "dbinfo"}}

MCTexts == {<<>>, <<"space">>} \cup Chunks \cup Two
             \cup {a \o b : a \in Two, b \in Chunks} \cup Long \cup Judged \cup Dots
             \cup Named(Quoted \cup Peculiar)

\* The texts of the run in which a quoted name misleads the guard.
MCNamed == Named(Quoted)
=============================================================================
