-------------------------------- MODULE RowIds --------------------------------
(***************************************************************************)
(* The id of a result row, and how a migration reads the run, the          *)
(* framework, the control and the rule back from it (local_db.rs).         *)
(*                                                                         *)
(* A text is a sequence of characters, each of one or more bytes; lengths  *)
(* are counted in bytes, as Rust does.  What may be missing is a set of    *)
(* one element or none.                                                    *)
(***************************************************************************)
EXTENDS Integers, SequencesExt

CONSTANT Width  \* the bytes of each character

ASSUME WidthsArePositive == \A c \in DOMAIN Width : Width[c] \in Nat \ {0}

Colon == ":"
Digit == <<"0", "1", "2", "3", "4", "5", "6", "7", "8", "9">>

ByteLength(text) == FoldLeft(LAMBDA n, c : n + Width[c], 0, text)

Decimal(n) ==
  LET digits[m \in Nat] ==
        IF m < 10 THEN <<Digit[m + 1]>> ELSE Append(digits[m \div 10], Digit[(m % 10) + 1])
  IN  digits[n]

\* parse::<usize>, which takes a plus sign and leading zeros.
Unsigned(text) == IF text # <<>> /\ text[1] = "+" THEN Tail(text) ELSE text
IsNumber(text) == Unsigned(text) # <<>> /\ ToSet(Unsigned(text)) \subseteq ToSet(Digit)

Number(text) ==
  FoldLeft(LAMBDA n, c : 10 * n + (CHOOSE d \in 0..9 : Digit[d + 1] = c), 0, Unsigned(text))

-----------------------------------------------------------------------------
(***************************************************************************)
(* Writing: the rule has no length.                                        *)
(***************************************************************************)
Prefixed(text) == Decimal(ByteLength(text)) \o <<Colon>> \o text \o <<Colon>>

ControlResultRowId(run, framework, control, rule) ==
  Prefixed(run) \o Prefixed(framework) \o Prefixed(control) \o rule

-----------------------------------------------------------------------------
(***************************************************************************)
(* Reading.  split_once cuts at the first colon; `get` cuts at a number of *)
(* bytes, if that is inside the text and between two characters.           *)
(***************************************************************************)
Colons(text) == {n \in DOMAIN text : text[n] = Colon}

SplitOnce(text) ==
  {[before |-> SubSeq(text, 1, n - 1), after |-> SubSeq(text, n + 1, Len(text))] :
     n \in {n \in Colons(text) : \A m \in Colons(text) : n <= m}}

\* Not the code: characters are counted, not bytes.
CutAtCharacter(text, count) == {p \in Prefixes(text) : Len(p) = count}

CutAt(text, bytes) == {p \in Prefixes(text) : ByteLength(p) = bytes}

TakeLengthPrefixedField(text) ==
  UNION {{[value |-> v, rest |-> SubSeq(split.after, Len(v) + 2, Len(split.after))] :
            v \in {p \in CutAt(split.after, Number(split.before)) :
                     IsPrefix(Append(p, Colon), split.after)}} :
         split \in {s \in SplitOnce(text) : IsNumber(s.before)}}

ControlResultIdentity(text) ==
  {i \in UNION {UNION {{<<run.value, framework.value, control.value, control.rest>> :
                  control   \in TakeLengthPrefixedField(framework.rest)} :
                  framework \in TakeLengthPrefixedField(run.rest)} :
                  run       \in TakeLengthPrefixedField(text)} :
     i[1] # <<>> /\ i[3] # <<>> /\ i[4] # <<>>}

=============================================================================
