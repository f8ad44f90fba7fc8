--------------------------- MODULE MCMigrationGuard ---------------------------
(***************************************************************************)
(* Every operation on a table of the corpus and on others, in every        *)
(* spelling, alone or after statements that could mislead the reader of    *)
(* the text.                                                               *)
(***************************************************************************)
EXTENDS MigrationGuard, TLC

MCCorpusTables  == {"evidence"}
MCCorpusColumns == {<<"evidence", "id">>, <<"evidence", "digest">>}
MCFolded        == ("drop" :> "DROP") @@ ("alter" :> "ALTER") @@ ("EVIDENCE" :> "evidence")

\* Blanks, and comments that hold marks: the block comment does not nest.
MCGaps == {<<" ">>, <<" ", "/*", "note", "/*", "'", "*/">>, <<"--", "dq", ";", "\n">>}

Statement(before, table, after, effect) ==
  [before |-> before, table |-> table, after |-> after, effect |-> effect,
   schema |-> FALSE, mark |-> "bare"]

DropTable(verb, option, table) ==
  Statement(<<<<verb>>, <<"TABLE">>>> \o option, table, <<>>, "DROP TABLE")

Alter(verb, table, words, effect) ==
  Statement(<<<<verb>>, <<"TABLE">>>>, table, words, effect)

Evidence == {<<"evidence">>, <<"EVIDENCE">>}
Others   == {<<"notes">>}

IfExists == <<<<"IF">>, <<"EXISTS">>>>

Operations ==
  {DropTable(verb, option, table) :
     verb \in {"DROP", "drop"}, option \in {<<>>, IfExists}, table \in Evidence \cup Others}
    \cup {Alter("ALTER", table, <<<<"DROP">>, <<"COLUMN">>, <<"digest">>>>, "DROP COLUMN") :
            table \in Evidence \cup Others}
    \cup {Alter("alter", table, <<<<"drop">>, <<"digest">>>>, "DROP COLUMN") :
            table \in Evidence \cup Others}
    \cup {Alter("ALTER", table, <<<<"RENAME">>, <<"TO">>, <<"old">>>>, "RENAME") :
            table \in Evidence \cup Others}
    \cup {Alter("ALTER", table, <<<<"DROP">>, <<"CONSTRAINT">>, <<"c">>>>, "nothing") :
            table \in Evidence}
    \cup {Alter("ALTER", table, <<<<"ADD">>, <<"COLUMN">>, <<"c">>>>, "nothing") :
            table \in Evidence}

Spelled(statements) ==
  {[s EXCEPT !.schema = schema, !.mark = mark] :
     s \in statements, schema \in BOOLEAN, mark \in {"bare", "'", "dq", "bq", "["}}

\* A dot inside a quoted name is part of the name.
DotNamed ==
  {[DropTable("DROP", <<>>, <<"archive", ".", "evidence">>) EXCEPT !.mark = mark] :
     mark \in {"dq", "bq", "["}}

Insert(literal) ==
  Statement(<<<<"INSERT">>, <<"INTO">>>>, <<"notes">>, <<<<"VALUES">>, <<"'">> \o literal \o <<"'">>>>,
            "nothing")

Misleading ==
  {Insert(<<"--">>), Insert(<<"/*">>), Insert(<<"'", "'">>),
   Insert(<<"a", "'", "'", ";", "--">>),
   Insert(<<"DROP", " ", "TABLE", " ", "evidence">>)}
    \cup {Statement(<<<<"INSERT">>, <<"INTO">>>>, <<"notes">>,
                    <<<<"VALUES">>, <<"'", "DROP", "'">>, <<"'", "TABLE", "'">>, <<"'", "evidence", "'">>>>,
                    "nothing")}

Finals == Spelled(Operations) \cup DotNamed

MCScripts ==
  {<<s>> : s \in Finals} \cup {<<first, s>> : first \in Misleading, s \in Finals}
    \cup {<<first, s>> : first \in Operations, s \in Operations}

=============================================================================
