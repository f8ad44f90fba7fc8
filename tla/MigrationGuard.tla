---------------------------- MODULE MigrationGuard ----------------------------
(***************************************************************************)
(* The guard before a packaged migration is applied (local_db.rs): its SQL *)
(* is cut into tokens, and the tokens are searched for operations that     *)
(* would lose a table or a column of the persisted corpus.                 *)
(*                                                                         *)
(* A caller of `open_with_packaged_migrations` supplies the migration.     *)
(* Here it is a script of statements; how they are spelled varies, and the *)
(* guard sees the text only.  A text is a sequence of pieces: words, and   *)
(* the marks that tokens depend on ("dq" is the double quote and "bq" the  *)
(* backquote).  What the statements do to the tables is SQLite's part;     *)
(* locks, ledger and version are in Migrations.                            *)
(***************************************************************************)
EXTENDS Integers, SequencesExt

CONSTANTS
  Scripts,       \* sequences of statements
  Gaps,          \* what may stand between two words of a statement
  CorpusTables,  \* PERSISTED_CORPUS_TABLES
  CorpusColumns, \* pairs of a corpus table and a column
  Folded         \* words spelled in another case than the guard compares, with that one

VARIABLES
  script, gap,    \* the migration and how it is spelled
  rest,           \* the text not yet read
  mode,           \* code, line comment, block comment, or the mark that ends a quoted text
  token, tokens,  \* the token being read, and those read before
  index,          \* the token the search is at
  operation,      \* what the search found
  stage,          \* reading, searching, rejected, accepted, then applied or failed
  columns         \* the columns of the corpus

vars == <<script, gap, rest, mode, token, tokens, index, operation, stage, columns>>

-----------------------------------------------------------------------------
(***************************************************************************)
(* Statements: words, a table, words.  The table may be named with its     *)
(* schema and between marks.                                               *)
(***************************************************************************)
Fold(word) == IF word \in DOMAIN Folded THEN Folded[word] ELSE word

Quoted(mark, name) ==
  CASE mark = "bare" -> name
    [] mark = "["    -> <<"[">> \o name \o <<"]">>
    [] OTHER         -> <<mark>> \o name \o <<mark>>

TableText(s) ==
  (IF s.schema THEN Quoted(s.mark, <<"main">>) \o <<".">> ELSE <<>>) \o Quoted(s.mark, s.table)

StatementText(s, between) ==
  LET words == s.before \o <<TableText(s)>> \o s.after
  IN  FoldLeft(LAMBDA text, w : text \o between \o w, Head(words), Tail(words)) \o <<";">>

Text(statements, between) ==
  FlattenSeq([i \in DOMAIN statements |-> StatementText(statements[i], between)])

IsOfCorpus(s) == Len(s.table) = 1 /\ Fold(s.table[1]) \in CorpusTables

\* A table renamed is lost under its name.
LosesSchema(s) == IsOfCorpus(s) /\ s.effect \in {"DROP TABLE", "DROP COLUMN", "RENAME"}

LostColumns(s) ==
  {c \in CorpusColumns : /\ LosesSchema(s) /\ c[1] = Fold(s.table[1])
                         /\ s.effect = "DROP COLUMN" => c[2] = "digest"}

-----------------------------------------------------------------------------
(***************************************************************************)
(* sql_tokens.  Words that follow each other without a mark are one token; *)
(* commas, parentheses and the like are blanks.                            *)
(***************************************************************************)
Closing == [m \in {"'", "dq", "bq", "["} |-> IF m = "[" THEN "]" ELSE m]
Ends    == {Closing[m] : m \in DOMAIN Closing}
Blanks  == {" ", "\n", ";", "]", "*/"}
IsWord(piece) == piece \notin DOMAIN Closing \cup Blanks \cup {".", "--", "/*"}

\* push_sql_token
Pushed(list, word) == IF word = <<>> THEN list ELSE Append(list, word)

\* Not the code: a literal is a token like any other.
BareToken(end, text) == text

\* A literal keeps its quotes, a name loses its own.
QuotedToken(end, text) == IF end = "'" THEN <<"'">> \o text \o <<"'">> ELSE text

ReadsCode(piece) == stage = "reading" /\ mode = "code" /\ rest # <<>> /\ Head(rest) = piece

Comment(mark, comment) ==
  /\ ReadsCode(mark)
  /\ tokens' = Pushed(tokens, token) /\ token' = <<>>
  /\ rest' = Tail(rest) /\ mode' = comment
  /\ UNCHANGED <<script, gap, index, operation, stage, columns>>

\* skip_line_comment, skip_block_comment
CommentEnd(comment) == IF comment = "block comment" THEN "*/" ELSE "\n"

SkipComment ==
  /\ stage = "reading" /\ mode \in {"line comment", "block comment"} /\ rest # <<>>
  /\ rest' = Tail(rest)
  /\ mode' = IF Head(rest) = CommentEnd(mode) THEN "code" ELSE mode
  /\ UNCHANGED <<script, gap, token, tokens, index, operation, stage, columns>>

OpenQuote(mark) ==
  /\ ReadsCode(mark)
  /\ tokens' = Pushed(tokens, token) /\ token' = <<>>
  /\ rest' = Tail(rest) /\ mode' = Closing[mark]
  /\ UNCHANGED <<script, gap, index, operation, stage, columns>>

IsDoubled(mark) == mark # "]" /\ Len(rest) > 1 /\ rest[2] = mark

\* collect_quoted_identifier
Collect ==
  /\ stage = "reading" /\ mode \in Ends /\ rest # <<>>
  /\ \/ /\ Head(rest) # mode
        /\ token' = Append(token, Head(rest)) /\ rest' = Tail(rest)
        /\ UNCHANGED <<tokens, mode>>
     \/ /\ Head(rest) = mode /\ IsDoubled(mode)
        /\ token' = Append(token, mode) /\ rest' = Tail(Tail(rest))
        /\ UNCHANGED <<tokens, mode>>
     \/ /\ Head(rest) = mode /\ ~IsDoubled(mode)
        /\ tokens' = Append(tokens, QuotedToken(mode, token)) /\ token' = <<>>
        /\ rest' = Tail(rest) /\ mode' = "code"
  /\ UNCHANGED <<script, gap, index, operation, stage, columns>>

Dot ==
  /\ ReadsCode(".")
  /\ tokens' = Append(Pushed(tokens, token), <<".">>) /\ token' = <<>>
  /\ rest' = Tail(rest)
  /\ UNCHANGED <<script, gap, mode, index, operation, stage, columns>>

Word ==
  /\ \E piece \in {p \in ToSet(rest) : IsWord(p)} : ReadsCode(piece)
  /\ token' = Append(token, Head(rest)) /\ rest' = Tail(rest)
  /\ UNCHANGED <<script, gap, mode, tokens, index, operation, stage, columns>>

Blank ==
  /\ \E piece \in Blanks : ReadsCode(piece)
  /\ tokens' = Pushed(tokens, token) /\ token' = <<>> /\ rest' = Tail(rest)
  /\ UNCHANGED <<script, gap, mode, index, operation, stage, columns>>

EndOfText ==
  /\ stage = "reading" /\ rest = <<>>
  /\ tokens' = Pushed(tokens, token) /\ token' = <<>>
  /\ stage' = "searching"
  /\ UNCHANGED <<script, gap, rest, mode, index, operation, columns>>

-----------------------------------------------------------------------------
(***************************************************************************)
(* destructive_migration_operation                                         *)
(***************************************************************************)
Is(i, word) == i <= Len(tokens) /\ Len(tokens[i]) = 1 /\ Fold(tokens[i][1]) = word

\* canonical_sql_identifier
Canonical(text) ==
  LET kept == {n \in DOMAIN text : text[n] \notin DOMAIN Closing \cup Ends}
  IN  IF kept = {} THEN <<>>
      ELSE LET first == CHOOSE n \in kept : \A m \in kept : n <= m
               last  == CHOOSE n \in kept : \A m \in kept : m <= n
           IN  [n \in 1..(last - first + 1) |-> Fold(text[first + n - 1])]

\* Not the code: the name before a dot is taken.
UnqualifiedName(at) ==
  IF at > Len(tokens) THEN {} ELSE {[name |-> Canonical(tokens[at]), next |-> at + 1]}

\* sql_table_name, as the set of what it returns.
TableName(at) ==
  LET name == IF at + 1 <= Len(tokens) /\ tokens[at + 1] = <<".">> THEN at + 2 ELSE at
  IN  IF name > Len(tokens) THEN {}
      ELSE {[name |-> Canonical(tokens[name]), next |-> name + 1]}

CorpusTableAt(at) == {t \in TableName(at) : \E name \in CorpusTables : t.name = <<name>>}

DroppedTable ==
  LET at == IF Is(index + 2, "IF") /\ Is(index + 3, "EXISTS") THEN index + 4 ELSE index + 2
  IN  IF Is(index, "DROP") /\ Is(index + 1, "TABLE")
        THEN {<<"DROP TABLE", t.name[1]>> : t \in CorpusTableAt(at)}
        ELSE {}

DropsColumn(t) ==
  Is(t.next, "DROP") /\ t.next + 1 <= Len(tokens) /\ ~Is(t.next + 1, "CONSTRAINT")

AlteredTable ==
  IF Is(index, "ALTER") /\ Is(index + 1, "TABLE")
    THEN {<<"DROP COLUMN", t.name[1]>> : t \in {t \in CorpusTableAt(index + 2) : DropsColumn(t)}}
           \cup {<<"RENAME", t.name[1]>> :
                   t \in {t \in CorpusTableAt(index + 2) : Is(t.next, "RENAME")}}
    ELSE {}

Found == DroppedTable \cup AlteredTable

Reject ==
  /\ stage = "searching" /\ index + 2 <= Len(tokens)
  /\ \E found \in Found : operation' = found
  /\ stage' = "rejected"
  /\ UNCHANGED <<script, gap, rest, mode, token, tokens, index, columns>>

Advance ==
  /\ stage = "searching" /\ index + 2 <= Len(tokens)
  /\ Found = {}
  /\ index' = index + 1
  /\ UNCHANGED <<script, gap, rest, mode, token, tokens, operation, stage, columns>>

Accept ==
  /\ stage = "searching" /\ index + 2 > Len(tokens)
  /\ stage' = "accepted"
  /\ UNCHANGED <<script, gap, rest, mode, token, tokens, index, operation, columns>>

\* The statements are executed in one transaction.
Apply ==
  /\ stage = "accepted"
  /\ columns' = columns \ UNION {LostColumns(script[i]) : i \in DOMAIN script}
  /\ stage' = "applied"
  /\ UNCHANGED <<script, gap, rest, mode, token, tokens, index, operation>>

ApplyFails ==
  /\ stage = "accepted"
  /\ stage' = "failed"
  /\ UNCHANGED <<script, gap, rest, mode, token, tokens, index, operation, columns>>

-----------------------------------------------------------------------------
Init ==
  /\ script \in Scripts /\ gap \in Gaps
  /\ rest = Text(script, gap)
  /\ mode = "code" /\ token = <<>> /\ tokens = <<>>
  /\ index = 1 /\ operation = <<>>
  /\ stage = "reading"
  /\ columns = CorpusColumns

Next ==
  \/ Comment("--", "line comment") \/ Comment("/*", "block comment") \/ SkipComment
  \/ \E mark \in DOMAIN Closing : OpenQuote(mark)
  \/ Collect \/ Dot \/ Word \/ Blank \/ EndOfText
  \/ Reject \/ Advance \/ Accept \/ Apply \/ ApplyFails

Spec == Init /\ [][Next]_vars

-----------------------------------------------------------------------------
(***************************************************************************)
(* No migration that is applied takes a table or a column from the         *)
(* persisted corpus, however its statements are spelled: with comments in  *)
(* between or comment marks inside literals, quoted in any way, qualified, *)
(* in any case, and whatever statements stand before them.                 *)
(***************************************************************************)
AppliedScriptsKeepTheSchema == columns = CorpusColumns

(***************************************************************************)
(* A migration is refused for something it would do: the operation the     *)
(* error names is that of its first statement that loses schema.  Words in *)
(* comments and literals, other tables, and changes that lose nothing are  *)
(* no reason.                                                              *)
(***************************************************************************)
RefusalsNameTheFirstLoss ==
  stage = "rejected" =>
    \E i \in DOMAIN script :
      /\ LosesSchema(script[i])
      /\ \A j \in 1..(i - 1) : ~LosesSchema(script[j])
      /\ operation = <<script[i].effect, Fold(script[i].table[1])>>

=============================================================================
