------------------------ MODULE ReportCommand_proofs ------------------------
(***************************************************************************)
(* What a report of ReportCommand tells, for any set of records with any   *)
(* controls, signals and damage: its sections agree with each other, and   *)
(* it shows every record it is made from.                                  *)
(***************************************************************************)
EXTENDS ReportCommand, PdfDocument_proofs

(***************************************************************************)
(* The order of the records.                                               *)
(***************************************************************************)

\* Finitely many records whose ids and controls have a place in the order.
IsKnown(S) ==
  /\ IsFiniteSet(S) /\ S \subseteq DOMAIN Rank
  /\ \A id \in S : Content[id].control \in DOMAIN Rank \cup {None}

\* records_ordered_by_control loses no record and repeats none.
LEMMA ByControlOnce ==
  ASSUME IsKnown(log)
  PROVE  ByControl \in Bijection(1..Cardinality(log), log)
<1>1. PICK a : a = [id \in log |-> IF Content[id].control = None THEN Blank ELSE Content[id].control]
  OBVIOUS
<1>2. PICK b : b = [id \in log |-> id]
  OBVIOUS
<1>3. PICK Before : Before = {p \in log \X log : Precedes(<<a[p[1]], b[p[1]]>>, <<a[p[2]], b[p[2]]>>)}
  OBVIOUS
<1>4. \A x, y \in log : <<x, y>> \in Before <=> Precedes(<<a[x], b[x]>>, <<a[y], b[y]>>)
  BY <1>3
<1>5. Orders(Before, log)
  <2>1. \A x \in log : a[x] \in DOMAIN Rank /\ b[x] \in DOMAIN Rank
    BY <1>1, <1>2, RankOrders DEF IsKnown
  <2>2. \A x, y \in log : b[x] = b[y] => x = y
    BY <1>2
  <2> QED
    BY <1>4, <2>1, <2>2, PairsOrder
<1>6. PICK order : order = ByControl
  OBVIOUS
<1>7. IsOrderOf(order, log, Before)
  <2> DEFINE Key(id) == <<IF Content[id].control = None THEN Blank ELSE Content[id].control, id>>
  <2>1. \A x \in log : Key(x) = <<a[x], b[x]>>
    BY <1>1, <1>2
  <2>2. \A x \in log : {y \in log : Precedes(Key(y), Key(x))} = EarlierIn(log, Before, x)
    BY <1>4, <2>1 DEF EarlierIn
  <2>3. PICK told : told = {<<Cardinality({y \in log : Precedes(Key(y), Key(x))}) + 1, x>> : x \in log}
    OBVIOUS
  <2>4. told = {<<Cardinality(EarlierIn(log, Before, x)) + 1, x>> : x \in log}
    BY <2>2, <2>3
  <2>5. order = [n \in 1..Cardinality(log) |-> (CHOOSE p \in told : p[1] = n)[2]]
    BY <1>6, <2>3 DEF ByControl, InOrderOf, Ordered
  <2> QED
    BY <2>4, <2>5 DEF IsOrderOf
<1>8. order \in Bijection(1..Cardinality(log), log)
  <2>1. IsFiniteSet(log)
    BY DEF IsKnown
  <2> QED
    BY <1>5, <1>7, <2>1, OrderedIsBijection DEF Orders
<1> QED
  BY <1>6, <1>8

LackingInOrder == InOrderOf(lacking, LAMBDA id : <<id>>)

LEMMA LackingOnce ==
  ASSUME IsKnown(lacking)
  PROVE  LackingInOrder \in Bijection(1..Cardinality(lacking), lacking)
<1>1. PICK Before : Before = {p \in lacking \X lacking : Precedes(<<p[1]>>, <<p[2]>>)}
  OBVIOUS
<1>2. \A x, y \in lacking : <<x, y>> \in Before <=> Precedes(<<x>>, <<y>>)
  BY <1>1
<1>3. Orders(Before, lacking)
  BY <1>2, IdsOrder DEF IsKnown
<1>4. PICK order : order = LackingInOrder
  OBVIOUS
<1>5. IsOrderOf(order, lacking, Before)
  <2>1. \A x \in lacking : {y \in lacking : Precedes(<<y>>, <<x>>)} = EarlierIn(lacking, Before, x)
    BY <1>2 DEF EarlierIn
  <2>2. PICK told :
          told = {<<Cardinality({y \in lacking : Precedes(<<y>>, <<x>>)}) + 1, x>> : x \in lacking}
    OBVIOUS
  <2>3. told = {<<Cardinality(EarlierIn(lacking, Before, x)) + 1, x>> : x \in lacking}
    BY <2>1, <2>2
  <2>4. order = [n \in 1..Cardinality(lacking) |-> (CHOOSE p \in told : p[1] = n)[2]]
    BY <1>4, <2>2 DEF LackingInOrder, InOrderOf, Ordered
  <2> QED
    BY <2>3, <2>4 DEF IsOrderOf
<1>6. order \in Bijection(1..Cardinality(lacking), lacking)
  <2>1. IsFiniteSet(lacking)
    BY DEF IsKnown
  <2> QED
    BY <1>3, <1>5, <2>1, OrderedIsBijection DEF Orders
<1> QED
  BY <1>4, <1>6

(***************************************************************************)
(* The sections, one by one.                                               *)
(***************************************************************************)
LEMMA OneLine ==
  ASSUME NEW l
  PROVE  IsList(<<l>>) /\ TagsOf(<<l>>) = {l.tag} /\ Said(<<l>>, l.tag) = {l.what}
<1>1. PICK s : s = <<l>>
  OBVIOUS
<1>2. s \in Seq({l}) /\ DOMAIN s = {1} /\ s[1] = l
  BY <1>1
<1>3. IsList(s) /\ TagsOf(s) = {l.tag} /\ Said(s, l.tag) = {l.what}
  BY <1>2, ListOfSeq DEF TagsOf, Said
<1> QED
  BY <1>1, <1>3

\* The lines of all records, each with its id.
LinesByControl(tag) == MapSeq(ByControl, LAMBDA id : Line(tag, id, None))

LEMMA LinesByControlTell ==
  ASSUME IsKnown(log), NEW tag
  PROVE  /\ IsList(LinesByControl(tag)) /\ TagsOf(LinesByControl(tag)) \subseteq {tag}
         /\ Said(LinesByControl(tag), tag) = log
<1>1. PICK u \in Bijection(1..Cardinality(log), log) : u = ByControl
  BY ByControlOnce
<1>2. PICK s : s = LinesByControl(tag)
  OBVIOUS
<1>3. PICK what, status : what = [id \in log |-> id] /\ status = [id \in log |-> None]
  OBVIOUS
<1>4. AreLinesOf(s, log, u, tag, what, status)
  <2>1. u \in [1..Cardinality(log) -> log]
    BY DEF Bijection, Injection
  <2>2. \A n \in 1..Cardinality(log) : what[u[n]] = u[n] /\ status[u[n]] = None
    BY <1>3, <2>1
  <2>3. s = [n \in 1..Cardinality(log) |-> [tag |-> tag, what |-> u[n], status |-> None]]
    BY <1>1, <1>2, <2>1 DEF LinesByControl, MapSeq, Line
  <2> QED
    BY <2>2, <2>3 DEF AreLinesOf
<1>5. /\ IsList(s) /\ TagsOf(s) \subseteq {tag}
      /\ Said(s, tag) = {what[x] : x \in log}
  <2>1. IsFiniteSet(log)
    BY DEF IsKnown
  <2> QED
    BY <1>4, <2>1, LinesTell
<1>6. {what[x] : x \in log} = log
  BY <1>3
<1> QED
  BY <1>2, <1>5, <1>6

Limitations == MapSeq(LackingInOrder, LAMBDA id : Line("limitation", id, None))

LEMMA LimitationsTell ==
  ASSUME IsKnown(lacking)
  PROVE  /\ IsList(Limitations) /\ TagsOf(Limitations) \subseteq {"limitation"}
         /\ Said(Limitations, "limitation") = lacking
<1>1. PICK u \in Bijection(1..Cardinality(lacking), lacking) : u = LackingInOrder
  BY LackingOnce
<1>2. PICK s : s = Limitations
  OBVIOUS
<1>3. PICK what, status : what = [id \in lacking |-> id] /\ status = [id \in lacking |-> None]
  OBVIOUS
<1>4. AreLinesOf(s, lacking, u, "limitation", what, status)
  <2>1. u \in [1..Cardinality(lacking) -> lacking]
    BY DEF Bijection, Injection
  <2>2. \A n \in 1..Cardinality(lacking) : what[u[n]] = u[n] /\ status[u[n]] = None
    BY <1>3, <2>1
  <2>3. s = [n \in 1..Cardinality(lacking) |->
               [tag |-> "limitation", what |-> u[n], status |-> None]]
    BY <1>1, <1>2, <2>1 DEF Limitations, MapSeq, Line
  <2> QED
    BY <2>2, <2>3 DEF AreLinesOf
<1>5. /\ IsList(s) /\ TagsOf(s) \subseteq {"limitation"}
      /\ Said(s, "limitation") = {what[x] : x \in lacking}
  <2>1. IsFiniteSet(lacking)
    BY DEF IsKnown
  <2> QED
    BY <1>4, <2>1, LinesTell
<1>6. {what[x] : x \in lacking} = lacking
  BY <1>3
<1> QED
  BY <1>2, <1>5, <1>6

LEMMA EvidenceSummaryTells ==
  ASSUME IsKnown(log)
  PROVE  /\ IsList(EvidenceSummary) /\ TagsOf(EvidenceSummary) \subseteq {"no evidence", "summary"}
         /\ Said(EvidenceSummary, "summary") = log
<1>1. CASE log = {}
  <2>1. EvidenceSummary = <<Line("no evidence", Blank, None)>>
    BY <1>1 DEF EvidenceSummary
  <2>2. IsList(EvidenceSummary) /\ TagsOf(EvidenceSummary) = {"no evidence"}
    BY <2>1, OneLine DEF Line
  <2>3. Said(EvidenceSummary, "summary") = {}
    BY <2>2, OtherTags
  <2> QED
    BY <1>1, <2>2, <2>3
<1>2. CASE log # {}
  <2>1. PICK u \in Bijection(1..Cardinality(log), log) : u = ByControl
    BY ByControlOnce
  <2>2. PICK s : s = EvidenceSummary
    OBVIOUS
  <2>3. PICK what, status :
          /\ what = [id \in log |-> id]
          /\ status = [id \in log |-> IF IsShownRedacted(Content[id]) THEN "redacted" ELSE "open"]
    OBVIOUS
  <2>4. AreLinesOf(s, log, u, "summary", what, status)
    <3>1. u \in [1..Cardinality(log) -> log]
      BY DEF Bijection, Injection
    <3>2. \A n \in 1..Cardinality(log) :
            /\ what[u[n]] = u[n]
            /\ status[u[n]] = IF IsShownRedacted(Content[u[n]]) THEN "redacted" ELSE "open"
      BY <2>3, <3>1
    <3>3. s = [n \in 1..Cardinality(log) |->
                 [tag |-> "summary", what |-> u[n],
                  status |-> IF IsShownRedacted(Content[u[n]]) THEN "redacted" ELSE "open"]]
      BY <1>2, <2>1, <2>2, <3>1 DEF EvidenceSummary, MapSeq, Line
    <3> QED
      BY <3>2, <3>3 DEF AreLinesOf
  <2>5. /\ IsList(s) /\ TagsOf(s) \subseteq {"summary"}
        /\ Said(s, "summary") = {what[x] : x \in log}
    <3>1. IsFiniteSet(log)
      BY DEF IsKnown
    <3> QED
      BY <2>4, <3>1, LinesTell
  <2>6. {what[x] : x \in log} = log
    BY <2>3
  <2> QED
    BY <2>2, <2>5, <2>6
<1> QED
  BY <1>1, <1>2

\* The records that have a status of some kind, and the lines made of them.
LEMMA NonConclusiveRowsTell ==
  ASSUME IsKnown(log)
  PROVE  /\ IsList(NonConclusiveRows) /\ TagsOf(NonConclusiveRows) \subseteq {"row"}
         /\ \A st : st # None =>
              Cardinality(Lined(NonConclusiveRows, "row", st))
                = Cardinality({id \in log : NonConclusive(Content[id]) = st})
<1>1. PICK t \in Bijection(1..Cardinality(log), log) : t = ByControl
  BY ByControlOnce
<1>2. PICK G, K : /\ G = {id \in log : NonConclusive(Content[id]) # None}
                  /\ K = {i \in DOMAIN t : NonConclusive(Content[t[i]]) # None}
  OBVIOUS
<1>3. PICK s, u : s = NonConclusiveRows /\ u = Chosen(t, K)
  OBVIOUS
<1>4. PICK what, status : /\ what = [id \in G |-> Content[id].control]
                          /\ status = [id \in G |-> NonConclusive(Content[id])]
  OBVIOUS
<1>5. G \in SUBSET log /\ IsFiniteSet(log) /\ IsFiniteSet(G)
  BY <1>2, FS_Subset DEF IsKnown
<1>6. u \in Bijection(1..Cardinality(G), G)
  <2>1. t \in [1..Cardinality(log) -> log]
    BY DEF Bijection, Injection
  <2>2. K = {i \in DOMAIN t : t[i] \in G}
    BY <1>2, <2>1
  <2> QED
    BY <1>3, <1>5, <2>2, ChosenOnce
<1>7. AreLinesOf(s, G, u, "row", what, status)
  <2>1. u \in [1..Cardinality(G) -> G]
    BY <1>6 DEF Bijection, Injection
  <2>2. \A n \in 1..Cardinality(G) : /\ what[u[n]] = Content[u[n]].control
                                     /\ status[u[n]] = NonConclusive(Content[u[n]])
    BY <1>4, <2>1
  <2>3. Kept(ByControl, LAMBDA id : NonConclusive(Content[id]) # None) = u
    BY <1>1, <1>2, <1>3 DEF Kept, Chosen, MapSeq, Ordered
  <2>4. s = [n \in 1..Cardinality(G) |->
               [tag |-> "row", what |-> Content[u[n]].control,
                status |-> NonConclusive(Content[u[n]])]]
    BY <1>3, <2>1, <2>3 DEF NonConclusiveRows, MapSeq, Line
  <2> QED
    BY <2>2, <2>4 DEF AreLinesOf
<1>8. /\ IsList(s) /\ TagsOf(s) \subseteq {"row"}
      /\ \A st : Cardinality(Lined(s, "row", st)) = Cardinality({x \in G : status[x] = st})
  BY <1>5, <1>6, <1>7, LinesTell
<1>9. ASSUME NEW st, st # None
      PROVE  {x \in G : status[x] = st} = {id \in log : NonConclusive(Content[id]) = st}
  BY <1>2, <1>4, <1>9
<1> QED
  BY <1>3, <1>8, <1>9

LEMMA GapLinesTell ==
  ASSUME IsKnown(log)
  PROVE  /\ IsList(GapLines) /\ TagsOf(GapLines) \subseteq {"no gaps", "gap"}
         /\ \A st : st # None =>
              Cardinality(Lined(GapLines, "gap", st))
                = Cardinality({id \in log : GapStatus(Content[id]) = st})
<1>1. PICK t \in Bijection(1..Cardinality(log), log) : t = ByControl
  BY ByControlOnce
<1>2. PICK G, K : /\ G = {id \in log : GapStatus(Content[id]) # None}
                  /\ K = {i \in DOMAIN t : GapStatus(Content[t[i]]) # None}
  OBVIOUS
<1>3. PICK s, u : s = GapLines /\ u = Chosen(t, K)
  OBVIOUS
<1>4. PICK what, status : /\ what = [id \in G |-> Content[id].control]
                          /\ status = [id \in G |-> GapStatus(Content[id])]
  OBVIOUS
<1>5. G \in SUBSET log /\ IsFiniteSet(log) /\ IsFiniteSet(G)
  BY <1>2, FS_Subset DEF IsKnown
<1>6. u \in Bijection(1..Cardinality(G), G)
  <2>1. t \in [1..Cardinality(log) -> log]
    BY DEF Bijection, Injection
  <2>2. K = {i \in DOMAIN t : t[i] \in G}
    BY <1>2, <2>1
  <2> QED
    BY <1>3, <1>5, <2>2, ChosenOnce
<1>7. Kept(ByControl, LAMBDA id : GapStatus(Content[id]) # None) = u
  BY <1>1, <1>2, <1>3 DEF Kept, Chosen, MapSeq, Ordered
<1>8. u \in [1..Cardinality(G) -> G] /\ \A x \in G : \E n \in 1..Cardinality(G) : u[n] = x
  BY <1>6 DEF Bijection, Injection, Surjection
<1>9. ASSUME NEW st, st # None
      PROVE  {x \in G : status[x] = st} = {id \in log : GapStatus(Content[id]) = st}
  BY <1>2, <1>4, <1>9
<1>10. CASE u = <<>>
  <2>1. G = {}
    <3>1. DOMAIN u = {} /\ DOMAIN u = 1..Cardinality(G)
      BY <1>8, <1>10
    <3> QED
      BY <1>8, <3>1
  <2>2. s = <<Line("no gaps", Blank, None)>>
    BY <1>3, <1>7, <1>10 DEF GapLines
  <2>3. IsList(s) /\ TagsOf(s) = {"no gaps"}
    BY <2>2, OneLine DEF Line
  <2>4. \A st : Cardinality(Lined(s, "gap", st)) = 0
    BY <2>3, OtherTags
  <2>5. \A st : st # None => Cardinality({id \in log : GapStatus(Content[id]) = st}) = 0
    <3>1. \A st : {x \in G : status[x] = st} = {}
      BY <2>1
    <3> QED
      BY <1>9, <3>1, FS_EmptySet
  <2> QED
    BY <1>3, <2>3, <2>4, <2>5
<1>11. CASE u # <<>>
  <2>1. AreLinesOf(s, G, u, "gap", what, status)
    <3>1. \A n \in 1..Cardinality(G) : /\ what[u[n]] = Content[u[n]].control
                                       /\ status[u[n]] = GapStatus(Content[u[n]])
      BY <1>4, <1>8
    <3>2. s = [n \in 1..Cardinality(G) |->
                 [tag |-> "gap", what |-> Content[u[n]].control,
                  status |-> GapStatus(Content[u[n]])]]
      BY <1>3, <1>7, <1>8, <1>11 DEF GapLines, MapSeq, Line
    <3> QED
      BY <3>1, <3>2 DEF AreLinesOf
  <2>2. /\ IsList(s) /\ TagsOf(s) \subseteq {"gap"}
        /\ \A st : Cardinality(Lined(s, "gap", st)) = Cardinality({x \in G : status[x] = st})
    BY <1>5, <1>6, <2>1, LinesTell
  <2> QED
    BY <1>3, <1>9, <2>2
<1> QED
  BY <1>10, <1>11

\* The counts of the summary are at least those of the records, and differ from
\* them only for the statuses of the consent corpus.
LEMMA CountsAreNaturals ==
  ASSUME IsKnown(log), NEW s \in Status
  PROVE  /\ CountOf(s) \in Nat /\ ShownCounts[s] \in Nat /\ CountOf(s) <= ShownCounts[s]
         /\ s \notin {"FAIL", "PASS"} => ShownCounts[s] = CountOf(s)
<1>1. CountOf(s) \in Nat
  <2>1. IsFiniteSet({id \in log : s \in CountedAs(Content[id])})
    BY FS_Subset DEF IsKnown
  <2> QED
    BY <2>1, FS_CardinalityType DEF CountOf
<1>2. CASE \A st \in Status : CountOf(st) = 0
  <2>1. ShownCounts = [st \in Status |-> IF st \in {"FAIL", "PASS"} THEN 1 ELSE 0]
    BY <1>2 DEF ShownCounts, ConsentCounts
  <2>2. CountOf(s) = 0 /\ ShownCounts[s] = IF s \in {"FAIL", "PASS"} THEN 1 ELSE 0
    BY <1>2, <2>1
  <2> QED
    BY <2>2
<1>3. CASE ~ \A st \in Status : CountOf(st) = 0
  <2>1. ShownCounts = [st \in Status |-> CountOf(st)]
    BY <1>3 DEF ShownCounts
  <2>2. ShownCounts[s] = CountOf(s)
    BY <2>1
  <2> QED
    BY <1>1, <2>2
<1> QED
  BY <1>2, <1>3

StatusList == <<"FAIL", "PASS", "WARNING", "SKIPPED", "ERROR">>

LEMMA StatusListOnce ==
  /\ StatusList \in Bijection(1..Cardinality(Status), Status)
  /\ IsFiniteSet(Status)
<1>1. PICK t : t = StatusList
  OBVIOUS
<1>2. /\ DOMAIN t = 1..5 /\ t = [n \in 1..5 |-> t[n]]
      /\ t[1] = "FAIL" /\ t[2] = "PASS" /\ t[3] = "WARNING" /\ t[4] = "SKIPPED" /\ t[5] = "ERROR"
  BY <1>1 DEF StatusList
<1>3. \A n \in 1..5 : n = 1 \/ n = 2 \/ n = 3 \/ n = 4 \/ n = 5
  OBVIOUS
<1>4. \A n \in 1..5 : t[n] \in Status
  BY <1>2, <1>3 DEF Status
<1>5. t \in [1..5 -> Status]
  BY <1>2, <1>4
<1>6. \A m, n \in 1..5 : t[m] = t[n] => m = n
  BY <1>2, <1>3
<1>7. \A st \in Status : \E n \in 1..5 : t[n] = st
  <2>1. 1 \in 1..5 /\ 2 \in 1..5 /\ 3 \in 1..5 /\ 4 \in 1..5 /\ 5 \in 1..5
    OBVIOUS
  <2> QED
    BY <1>2, <2>1 DEF Status
<1>8. t \in Bijection(1..5, Status)
  BY <1>5, <1>6, <1>7 DEF Bijection, Injection, Surjection, IsInjective
<1>9. IsFiniteSet(1..5) /\ Cardinality(1..5) = 5
  <2>1. PICK i \in Int, j \in Int : i = 1 /\ j = 5
    OBVIOUS
  <2>2. IsFiniteSet(i..j) /\ Cardinality(i..j) = IF i > j THEN 0 ELSE j - i + 1
    BY FS_Interval
  <2> QED
    BY <2>1, <2>2
<1>10. IsFiniteSet(Status) /\ Cardinality(Status) = 5
  <2>1. ExistsBijection(1..5, Status)
    BY <1>8 DEF ExistsBijection
  <2> QED
    BY <1>9, <2>1, FS_Bijection
<1> QED
  BY <1>1, <1>8, <1>10

LEMMA CountLinesTell ==
  ASSUME IsKnown(log)
  PROVE  /\ IsList(CountLines) /\ TagsOf(CountLines) \subseteq {"count"}
         /\ \A st \in Status :
              SaidAs(CountLines, "count", st) = IF ShownCounts[st] > 0 THEN {ShownCounts[st]} ELSE {}
<1>1. PICK t \in Bijection(1..Cardinality(Status), Status) : t = StatusList
  BY StatusListOnce
<1>2. PICK G, K : G = {st \in Status : ShownCounts[st] > 0} /\ K = {i \in DOMAIN t : ShownCounts[t[i]] > 0}
  OBVIOUS
<1>3. PICK s, u : s = CountLines /\ u = Chosen(t, K)
  OBVIOUS
<1>4. PICK what, status : what = [st \in G |-> ShownCounts[st]] /\ status = [st \in G |-> st]
  OBVIOUS
<1>5. G \in SUBSET Status /\ IsFiniteSet(Status) /\ IsFiniteSet(G)
  BY <1>2, StatusListOnce, FS_Subset
<1>6. u \in Bijection(1..Cardinality(G), G)
  <2>1. t \in [1..Cardinality(Status) -> Status]
    BY DEF Bijection, Injection
  <2>2. K = {i \in DOMAIN t : t[i] \in G}
    BY <1>2, <2>1
  <2> QED
    BY <1>3, <1>5, <2>2, ChosenOnce
<1>7. AreLinesOf(s, G, u, "count", what, status)
  <2>1. u \in [1..Cardinality(G) -> G]
    BY <1>6 DEF Bijection, Injection
  <2>2. \A n \in 1..Cardinality(G) : what[u[n]] = ShownCounts[u[n]] /\ status[u[n]] = u[n]
    BY <1>4, <2>1
  <2>3. Kept(<<"FAIL", "PASS", "WARNING", "SKIPPED", "ERROR">>, LAMBDA st : ShownCounts[st] > 0) = u
    BY <1>1, <1>2, <1>3 DEF StatusList, Kept, Chosen, MapSeq, Ordered
  <2>4. s = [n \in 1..Cardinality(G) |-> [tag |-> "count", what |-> ShownCounts[u[n]], status |-> u[n]]]
    BY <1>3, <2>1, <2>3 DEF CountLines, MapSeq, Line
  <2> QED
    BY <2>2, <2>4 DEF AreLinesOf
<1>8. /\ IsList(s) /\ TagsOf(s) \subseteq {"count"}
      /\ \A st : SaidAs(s, "count", st) = {what[x] : x \in {x \in G : status[x] = st}}
  BY <1>5, <1>6, <1>7, LinesTell
<1>9. ASSUME NEW st \in Status
       PROVE  {what[x] : x \in {x \in G : status[x] = st}}
                = IF ShownCounts[st] > 0 THEN {ShownCounts[st]} ELSE {}
  BY <1>2, <1>4
<1> QED
  BY <1>3, <1>8, <1>9

LEMMA SummaryTells ==
  ASSUME IsKnown(log)
  PROVE  /\ IsList(SummaryLines) /\ TagsOf(SummaryLines) \subseteq {"no controls", "count", "incomplete"}
         /\ \A st \in Status : SaidAs(SummaryLines, "count", st) =
              IF log # {} /\ ShownCounts[st] > 0 THEN {ShownCounts[st]} ELSE {}
         /\ Said(SummaryLines, "incomplete") = IF ErrorCount > 0 THEN {ErrorCount} ELSE {}
<1>1. PICK a : a = IF log = {} THEN <<Line("no controls", 0, None)>> ELSE CountLines
  OBVIOUS
<1>2. PICK b : b = IF ErrorCount > 0 THEN <<Line("incomplete", ErrorCount, None)>> ELSE <<>>
  OBVIOUS
<1>3. /\ IsList(a) /\ TagsOf(a) \subseteq {"no controls", "count"}
      /\ \A st \in Status : SaidAs(a, "count", st) =
           IF log # {} /\ ShownCounts[st] > 0 THEN {ShownCounts[st]} ELSE {}
  <2>1. CASE log = {}
    <3>1. a = <<Line("no controls", 0, None)>>
      BY <1>1, <2>1
    <3>2. IsList(a) /\ TagsOf(a) = {"no controls"}
      BY <3>1, OneLine DEF Line
    <3>3. \A st : SaidAs(a, "count", st) = {}
      BY <3>2, OtherTags
    <3> QED
      BY <2>1, <3>2, <3>3
  <2>2. CASE log # {}
    BY <1>1, <2>2, CountLinesTell
  <2> QED
    BY <2>1, <2>2
<1>4. /\ IsList(b) /\ TagsOf(b) \subseteq {"incomplete"}
      /\ Said(b, "incomplete") = IF ErrorCount > 0 THEN {ErrorCount} ELSE {}
  <2>1. CASE ErrorCount > 0
    <3>1. b = <<Line("incomplete", ErrorCount, None)>>
      BY <1>2, <2>1
    <3>2. IsList(b) /\ TagsOf(b) = {"incomplete"} /\ Said(b, "incomplete") = {ErrorCount}
      BY <3>1, OneLine DEF Line
    <3> QED
      BY <2>1, <3>2
  <2>2. CASE ~(ErrorCount > 0)
    <3>1. b = <<>> /\ DOMAIN b = {} /\ b \in Seq({})
      BY <1>2, <2>2
    <3>2. IsList(b) /\ TagsOf(b) = {} /\ Said(b, "incomplete") = {}
      BY <3>1, ListOfSeq DEF TagsOf, Said
    <3> QED
      BY <2>2, <3>2
  <2> QED
    BY <2>1, <2>2
<1>5. SummaryLines = a \o b
  BY <1>1, <1>2 DEF SummaryLines
<1>6. IsList(a \o b) /\ TagsOf(a \o b) \subseteq {"no controls", "count", "incomplete"}
  BY <1>3, <1>4, JoinedList, JoinTags
<1>7. \A st : SaidAs(a \o b, "count", st) = SaidAs(a, "count", st)
  <2>1. "count" \notin TagsOf(b)
    BY <1>4
  <2>2. TellsTheSame(a \o b, a, "count")
    BY <1>3, <1>4, <2>1, FirstPartTells
  <2> QED
    BY <2>2 DEF TellsTheSame
<1>8. Said(a \o b, "incomplete") = Said(b, "incomplete")
  <2>1. "incomplete" \notin TagsOf(a)
    BY <1>3
  <2>2. TellsTheSame(a \o b, b, "incomplete")
    BY <1>3, <1>4, <2>1, LastPartTells
  <2> QED
    BY <2>2 DEF TellsTheSame
<1> QED
  BY <1>3, <1>4, <1>5, <1>6, <1>7, <1>8

\* The constant counts next to the score.
LEMMA ScoreCountsTell == IsList(ScoreCounts) /\ TagsOf(ScoreCounts) \subseteq {"score count"}
<1>1. PICK t, s : t = StatusList /\ s = ScoreCounts
  OBVIOUS
<1>2. DOMAIN t = 1..5
  BY <1>1 DEF StatusList
<1>3. s = [n \in 1..5 |-> [tag |-> "score count", what |-> ConsentCounts[t[n]], status |-> t[n]]]
  BY <1>1, <1>2 DEF ScoreCounts, StatusList, MapSeq, Line
<1>4. IsList(s)
  <2>1. s = [n \in 1..5 |-> s[n]]
    BY <1>3
  <2> QED
    BY <2>1, ListOfPlaces
<1>5. TagsOf(s) \subseteq {"score count"}
  BY <1>3 DEF TagsOf
<1> QED
  BY <1>1, <1>4, <1>5

LEMMA OtherSections ==
  /\ IsList(ScoreLines) /\ TagsOf(ScoreLines) \subseteq {"no scores", "score", "score count"}
  /\ IsList(ConsentRows) /\ TagsOf(ConsentRows) \subseteq {"rule", "row"}
  /\ \A st : st # "FAIL" => Cardinality(Lined(ConsentRows, "row", st)) = 0
<1>1. IsList(ScoreLines) /\ TagsOf(ScoreLines) \subseteq {"no scores", "score", "score count"}
  <2>1. PICK k, l : /\ k = Line("no scores", Blank, None)
                    /\ l = Line("score", IF settings["--framework-score"] = None THEN "0.0%"
                                         ELSE settings["--framework-score"], None)
    OBVIOUS
  <2>2. k.tag = "no scores" /\ l.tag = "score"
    BY <2>1 DEF Line
  <2>3. ScoreLines = <<k>> \/ ScoreLines = <<l>> \o ScoreCounts
    BY <2>1 DEF ScoreLines
  <2>4. IsList(<<k>>) /\ TagsOf(<<k>>) = {k.tag} /\ IsList(<<l>>) /\ TagsOf(<<l>>) = {l.tag}
    BY OneLine
  <2>5. /\ IsList(<<l>> \o ScoreCounts)
        /\ TagsOf(<<l>> \o ScoreCounts) = TagsOf(<<l>>) \cup TagsOf(ScoreCounts)
    BY <2>4, ScoreCountsTell, JoinedList, JoinTags
  <2> QED
    BY <2>2, <2>3, <2>4, <2>5, ScoreCountsTell
<1>2. PICK k, l, m : /\ ConsentRows = <<k, l, m>> /\ k.tag = "rule" /\ l.tag = "rule"
                     /\ m.tag = "row" /\ m.status = "FAIL"
  <2>1. PICK k, l, m :
          /\ k = Line("rule", "cmp", IF \E id \in log : Content[id].signal = Inconclusive
                                       THEN "WARNING" ELSE "PASS")
          /\ l = Line("rule", "tracker", "FAIL")
          /\ m = Line("row", ConsentControl, "FAIL")
    OBVIOUS
  <2>2. k.tag = "rule" /\ l.tag = "rule" /\ m.tag = "row" /\ m.status = "FAIL"
    BY <2>1 DEF Line
  <2>3. ConsentRows = <<k, l, m>>
    BY <2>1 DEF ConsentRows
  <2> QED
    BY <2>2, <2>3
<1>3. PICK s : s = ConsentRows
  OBVIOUS
<1>4. /\ s \in Seq({k, l, m}) /\ DOMAIN s = {1, 2, 3} /\ s[1] = k /\ s[2] = l /\ s[3] = m
  BY <1>2, <1>3
<1>5. IsList(s) /\ TagsOf(s) \subseteq {"rule", "row"}
  BY <1>2, <1>4, ListOfSeq DEF TagsOf
<1>6. ASSUME NEW st, st # "FAIL"
      PROVE  Cardinality(Lined(s, "row", st)) = 0
  <2>1. Lined(s, "row", st) = {}
    BY <1>2, <1>4, <1>6 DEF Lined
  <2> QED
    BY <2>1, FS_EmptySet
<1> QED
  BY <1>1, <1>3, <1>5, <1>6

(***************************************************************************)
(* The report: under each tag it tells what one section tells.             *)
(***************************************************************************)
Opening == <<Line("run", settings["--run"], None), Line("date", settings["--executed-at"], None)>>

LEMMA OpeningTells == IsList(Opening) /\ TagsOf(Opening) \subseteq {"run", "date"}
<1>1. PICK k, l : /\ k = Line("run", settings["--run"], None)
                  /\ l = Line("date", settings["--executed-at"], None)
  OBVIOUS
<1>2. k.tag = "run" /\ l.tag = "date"
  BY <1>1 DEF Line
<1>3. PICK s : s = Opening
  OBVIOUS
<1>4. s \in Seq({k, l}) /\ DOMAIN s = {1, 2} /\ s[1] = k /\ s[2] = l
  BY <1>1, <1>3 DEF Opening
<1>5. IsList(s) /\ TagsOf(s) \subseteq {"run", "date"}
  BY <1>2, <1>4, ListOfSeq DEF TagsOf
<1> QED
  BY <1>3, <1>5

\* Tags that only one of two joined lists has, from either side.
LEMMA JoinTells ==
  ASSUME NEW a, IsList(a), NEW b, IsList(b), NEW A, TagsOf(a) \subseteq A, NEW B, TagsOf(b) \subseteq B
  PROVE  /\ IsList(a \o b) /\ TagsOf(a \o b) \subseteq A \cup B
         /\ \A tag : tag \notin B => TellsTheSame(a \o b, a, tag)
         /\ \A tag : tag \notin A => TellsTheSame(a \o b, b, tag)
<1>1. IsList(a \o b) /\ TagsOf(a \o b) \subseteq A \cup B
  BY JoinedList, JoinTags
<1>2. ASSUME NEW tag, tag \notin B
      PROVE  TellsTheSame(a \o b, a, tag)
  <2>1. tag \notin TagsOf(b)
    BY <1>2
  <2> QED
    BY <2>1, FirstPartTells
<1>3. ASSUME NEW tag, tag \notin A
      PROVE  TellsTheSame(a \o b, b, tag)
  <2>1. tag \notin TagsOf(a)
    BY <1>3
  <2> QED
    BY <2>1, LastPartTells
<1> QED
  BY <1>1, <1>2, <1>3

LEMMA TellsOnward ==
  ASSUME NEW a, NEW b, NEW c, NEW tag, TellsTheSame(a, b, tag), TellsTheSame(b, c, tag)
  PROVE  TellsTheSame(a, c, tag)
BY DEF TellsTheSame

LEMMA SectionsTell ==
  ASSUME IsKnown(log), IsKnown(lacking)
  PROVE  /\ IsList(ReportText)
         /\ TellsTheSame(ReportText, SummaryLines, "count")
         /\ TellsTheSame(ReportText, SummaryLines, "incomplete")
         /\ TellsTheSame(ReportText, LinesByControl("evidence"), "evidence")
         /\ \A st : Cardinality(Lined(ReportText, "row", st))
                      = Cardinality(Lined(ConsentRows, "row", st))
                          + Cardinality(Lined(NonConclusiveRows, "row", st))
         /\ TellsTheSame(ReportText, GapLines, "gap")
         /\ TellsTheSame(ReportText, EvidenceSummary, "summary")
         /\ TellsTheSame(ReportText, LinesByControl("digest"), "digest")
         /\ TellsTheSame(ReportText, Limitations, "limitation")
<1>1. PICK p1, p2, p3, p4, p5, p6, p7, p8, a, b :
        /\ p1 = Opening /\ p2 = SummaryLines /\ p3 = ScoreLines /\ p4 = LinesByControl("evidence")
        /\ p5 = ConsentRows /\ p6 = NonConclusiveRows /\ p7 = GapLines /\ p8 = EvidenceSummary
        /\ a = LinesByControl("digest") /\ b = Limitations
  OBVIOUS
<1>2. /\ IsList(p1) /\ TagsOf(p1) \subseteq {"run", "date"}
      /\ IsList(p2) /\ TagsOf(p2) \subseteq {"no controls", "count", "incomplete"}
      /\ IsList(p3) /\ TagsOf(p3) \subseteq {"no scores", "score", "score count"}
      /\ IsList(p4) /\ TagsOf(p4) \subseteq {"evidence"}
      /\ IsList(p5) /\ TagsOf(p5) \subseteq {"rule", "row"}
  BY <1>1, OpeningTells, SummaryTells, OtherSections, LinesByControlTell
<1>3. /\ IsList(p6) /\ TagsOf(p6) \subseteq {"row"}
      /\ IsList(p7) /\ TagsOf(p7) \subseteq {"no gaps", "gap"}
      /\ IsList(p8) /\ TagsOf(p8) \subseteq {"no evidence", "summary"}
      /\ IsList(a) /\ TagsOf(a) \subseteq {"digest"}
      /\ IsList(b) /\ TagsOf(b) \subseteq {"limitation"}
  BY <1>1, NonConclusiveRowsTell, GapLinesTell, EvidenceSummaryTells, LinesByControlTell,
     LimitationsTell
<1>4. PICK p9 : p9 = a \o b
  OBVIOUS
<1>5. /\ IsList(p9) /\ TagsOf(p9) \subseteq {"digest", "limitation"}
      /\ TellsTheSame(p9, a, "digest") /\ TellsTheSame(p9, b, "limitation")
  <2>1. /\ IsList(p9) /\ TagsOf(p9) \subseteq {"digest"} \cup {"limitation"}
        /\ \A tag : tag \notin {"limitation"} => TellsTheSame(p9, a, tag)
        /\ \A tag : tag \notin {"digest"} => TellsTheSame(p9, b, tag)
    BY <1>3, <1>4, JoinTells
  <2> QED
    BY <2>1
<1>6. PICK q2, q3, q4, q5, q6, q7, q8, q9 :
        /\ q2 = p1 \o p2 /\ q3 = q2 \o p3 /\ q4 = q3 \o p4 /\ q5 = q4 \o p5
        /\ q6 = q5 \o p6 /\ q7 = q6 \o p7 /\ q8 = q7 \o p8 /\ q9 = q8 \o p9
  OBVIOUS
<1>7. q9 = ReportText
  BY <1>1, <1>4, <1>6 DEF ReportText, Opening, LinesByControl, Appendix, Limitations, LackingInOrder
<1>. DEFINE T2 == {"run", "date"} \cup {"no controls", "count", "incomplete"}
            T3 == T2 \cup {"no scores", "score", "score count"}
            T4 == T3 \cup {"evidence"}
            T5 == T4 \cup {"rule", "row"}
            T6 == T5 \cup {"row"}
            T7 == T6 \cup {"no gaps", "gap"}
            T8 == T7 \cup {"no evidence", "summary"}
<1>8. /\ IsList(q2) /\ TagsOf(q2) \subseteq T2
      /\ \A tag : tag \notin {"run", "date"} => TellsTheSame(q2, p2, tag)
  <2>1. PICK A, B : A = {"run", "date"} /\ B = {"no controls", "count", "incomplete"}
    OBVIOUS
  <2>2. IsList(p1) /\ TagsOf(p1) \subseteq A /\ IsList(p2) /\ TagsOf(p2) \subseteq B
    BY <1>2, <2>1
  <2>3. /\ IsList(p1 \o p2) /\ TagsOf(p1 \o p2) \subseteq A \cup B
        /\ \A tag : tag \notin A => TellsTheSame(p1 \o p2, p2, tag)
    BY <2>2, JoinTells
  <2> QED
    BY <1>6, <2>1, <2>3
<1>9. /\ IsList(q3) /\ TagsOf(q3) \subseteq T3
      /\ \A tag : tag \notin {"no scores", "score", "score count"} => TellsTheSame(q3, q2, tag)
  <2> HIDE DEF T2
  <2>1. /\ IsList(q2 \o p3) /\ TagsOf(q2 \o p3) \subseteq T2 \cup {"no scores", "score", "score count"}
        /\ \A tag : tag \notin {"no scores", "score", "score count"} => TellsTheSame(q2 \o p3, q2, tag)
        /\ \A tag : tag \notin T2 => TellsTheSame(q2 \o p3, p3, tag)
    BY <1>2, <1>8, JoinTells
  <2> QED
    BY <1>6, <2>1
<1>10. /\ IsList(q4) /\ TagsOf(q4) \subseteq T4
       /\ \A tag : tag \notin {"evidence"} => TellsTheSame(q4, q3, tag)
       /\ \A tag : tag \notin T3 => TellsTheSame(q4, p4, tag)
  <2> HIDE DEF T3
  <2>1. /\ IsList(q3 \o p4) /\ TagsOf(q3 \o p4) \subseteq T3 \cup {"evidence"}
        /\ \A tag : tag \notin {"evidence"} => TellsTheSame(q3 \o p4, q3, tag)
        /\ \A tag : tag \notin T3 => TellsTheSame(q3 \o p4, p4, tag)
    BY <1>2, <1>9, JoinTells
  <2> QED
    BY <1>6, <2>1
<1>11. /\ IsList(q5) /\ TagsOf(q5) \subseteq T5
       /\ \A tag : tag \notin {"rule", "row"} => TellsTheSame(q5, q4, tag)
       /\ \A tag : tag \notin T4 => TellsTheSame(q5, p5, tag)
  <2> HIDE DEF T4
  <2>1. /\ IsList(q4 \o p5) /\ TagsOf(q4 \o p5) \subseteq T4 \cup {"rule", "row"}
        /\ \A tag : tag \notin {"rule", "row"} => TellsTheSame(q4 \o p5, q4, tag)
        /\ \A tag : tag \notin T4 => TellsTheSame(q4 \o p5, p5, tag)
    BY <1>2, <1>10, JoinTells
  <2> QED
    BY <1>6, <2>1
<1>12. /\ IsList(q6) /\ TagsOf(q6) \subseteq T6
       /\ \A tag : tag \notin {"row"} => TellsTheSame(q6, q5, tag)
  <2> HIDE DEF T5
  <2>1. /\ IsList(q5 \o p6) /\ TagsOf(q5 \o p6) \subseteq T5 \cup {"row"}
        /\ \A tag : tag \notin {"row"} => TellsTheSame(q5 \o p6, q5, tag)
        /\ \A tag : tag \notin T5 => TellsTheSame(q5 \o p6, p6, tag)
    BY <1>3, <1>11, JoinTells
  <2> QED
    BY <1>6, <2>1
<1>13. /\ IsList(q7) /\ TagsOf(q7) \subseteq T7
       /\ \A tag : tag \notin {"no gaps", "gap"} => TellsTheSame(q7, q6, tag)
       /\ \A tag : tag \notin T6 => TellsTheSame(q7, p7, tag)
  <2> HIDE DEF T6
  <2>1. /\ IsList(q6 \o p7) /\ TagsOf(q6 \o p7) \subseteq T6 \cup {"no gaps", "gap"}
        /\ \A tag : tag \notin {"no gaps", "gap"} => TellsTheSame(q6 \o p7, q6, tag)
        /\ \A tag : tag \notin T6 => TellsTheSame(q6 \o p7, p7, tag)
    BY <1>3, <1>12, JoinTells
  <2> QED
    BY <1>6, <2>1
<1>14. /\ IsList(q8) /\ TagsOf(q8) \subseteq T8
       /\ \A tag : tag \notin {"no evidence", "summary"} => TellsTheSame(q8, q7, tag)
       /\ \A tag : tag \notin T7 => TellsTheSame(q8, p8, tag)
  <2> HIDE DEF T7
  <2>1. /\ IsList(q7 \o p8) /\ TagsOf(q7 \o p8) \subseteq T7 \cup {"no evidence", "summary"}
        /\ \A tag : tag \notin {"no evidence", "summary"} => TellsTheSame(q7 \o p8, q7, tag)
        /\ \A tag : tag \notin T7 => TellsTheSame(q7 \o p8, p8, tag)
    BY <1>3, <1>13, JoinTells
  <2> QED
    BY <1>6, <2>1
<1>15. /\ IsList(q9)
       /\ \A tag : tag \notin {"digest", "limitation"} => TellsTheSame(q9, q8, tag)
       /\ \A tag : tag \notin T8 => TellsTheSame(q9, p9, tag)
  <2> HIDE DEF T8
  <2> QED
    BY <1>5, <1>6, <1>14, JoinTells
<1>16. TellsTheSame(q9, a, "digest") /\ TellsTheSame(q9, b, "limitation")
  <2>1. TellsTheSame(q9, p9, "digest") /\ TellsTheSame(q9, p9, "limitation")
    BY <1>15
  <2> QED
    BY <1>5, <2>1, TellsOnward
<1>17. TellsTheSame(q9, p8, "summary")
  <2>1. TellsTheSame(q9, q8, "summary") /\ TellsTheSame(q8, p8, "summary")
    BY <1>14, <1>15
  <2> QED
    BY <2>1, TellsOnward
<1>18. TellsTheSame(q9, p7, "gap")
  <2>1. TellsTheSame(q9, q8, "gap") /\ TellsTheSame(q8, q7, "gap") /\ TellsTheSame(q7, p7, "gap")
    BY <1>13, <1>14, <1>15
  <2> QED
    BY <2>1, TellsOnward
<1>19. \A tag : tag \notin T8 \ T6 /\ tag \notin {"digest", "limitation"} => TellsTheSame(q9, q6, tag)
  <2> SUFFICES ASSUME NEW tag, tag \notin T8 \ T6, tag \notin {"digest", "limitation"}
               PROVE  TellsTheSame(q9, q6, tag)
    OBVIOUS
  <2>1. tag \notin {"no gaps", "gap"} /\ tag \notin {"no evidence", "summary"}
    OBVIOUS
  <2>2. TellsTheSame(q9, q8, tag) /\ TellsTheSame(q8, q7, tag) /\ TellsTheSame(q7, q6, tag)
    BY <1>13, <1>14, <1>15, <2>1
  <2> QED
    BY <2>2, TellsOnward
<1>20. /\ TellsTheSame(q9, q6, "row") /\ TellsTheSame(q9, q6, "evidence")
       /\ TellsTheSame(q9, q6, "count") /\ TellsTheSame(q9, q6, "incomplete")
  BY <1>19
<1>21. \A st : Cardinality(Lined(q9, "row", st))
                 = Cardinality(Lined(p5, "row", st)) + Cardinality(Lined(p6, "row", st))
  <2>1. TellsTheSame(q5, p5, "row")
    BY <1>11
  <2>2. ASSUME NEW st
        PROVE  Cardinality(Lined(q6, "row", st))
                 = Cardinality(Lined(q5, "row", st)) + Cardinality(Lined(p6, "row", st))
    <3> HIDE DEF T5
    <3>1. IsList(q5) /\ IsList(p6)
      BY <1>3, <1>11
    <3>2. Cardinality(Lined(q5 \o p6, "row", st))
            = Cardinality(Lined(q5, "row", st)) + Cardinality(Lined(p6, "row", st))
      BY <3>1, JoinCounts
    <3> QED
      BY <1>6, <3>2
  <2> QED
    BY <1>20, <2>1, <2>2 DEF TellsTheSame
<1>22. TellsTheSame(q9, p4, "evidence")
  <2>1. /\ TellsTheSame(q6, q5, "evidence") /\ TellsTheSame(q5, q4, "evidence")
        /\ TellsTheSame(q4, p4, "evidence")
    BY <1>10, <1>11, <1>12
  <2> QED
    BY <1>20, <2>1, TellsOnward
<1>23. ASSUME NEW tag \in {"count", "incomplete"}
       PROVE  TellsTheSame(q9, p2, tag)
  <2>1. /\ TellsTheSame(q6, q5, tag) /\ TellsTheSame(q5, q4, tag) /\ TellsTheSame(q4, q3, tag)
        /\ TellsTheSame(q3, q2, tag) /\ TellsTheSame(q2, p2, tag)
    BY <1>8, <1>9, <1>10, <1>11, <1>12
  <2>2. TellsTheSame(q9, q6, tag)
    BY <1>20
  <2> QED
    BY <2>1, <2>2, TellsOnward
<1>24. TellsTheSame(q9, p2, "count") /\ TellsTheSame(q9, p2, "incomplete")
  BY <1>23
<1> QED
  BY <1>1, <1>7, <1>15, <1>16, <1>17, <1>18, <1>21, <1>22, <1>24

(***************************************************************************)
(* The document written, as its reader counts it.                          *)
(***************************************************************************)

\* The document is the report of the records read.
IsReport == pdf = ReportText

\* What the lines of the document tell of the records read.
LEMMA DocumentTells ==
  ASSUME IsKnown(log), IsKnown(lacking), IsReport
  PROVE  /\ IsList(pdf)
         /\ Said(pdf, "evidence") = log /\ Said(pdf, "summary") = log /\ Said(pdf, "digest") = log
         /\ Said(pdf, "limitation") = lacking
         /\ Said(pdf, "incomplete") = IF ErrorCount > 0 THEN {ErrorCount} ELSE {}
         /\ \A st \in Status : SaidAs(pdf, "count", st) =
              IF log # {} /\ ShownCounts[st] > 0 THEN {ShownCounts[st]} ELSE {}
         /\ \A st : st # None =>
              Cardinality(Lined(pdf, "gap", st)) = Cardinality({id \in log : GapStatus(Content[id]) = st})
         /\ \A st \in {"ERROR", "SKIPPED"} :
              Cardinality(Lined(pdf, "row", st))
                = Cardinality({id \in log : NonConclusive(Content[id]) = st})
<1>1. PICK text : text = ReportText
  OBVIOUS
<1>2. /\ IsList(text)
      /\ TellsTheSame(text, SummaryLines, "count") /\ TellsTheSame(text, SummaryLines, "incomplete")
      /\ TellsTheSame(text, LinesByControl("evidence"), "evidence")
      /\ \A st : Cardinality(Lined(text, "row", st))
                   = Cardinality(Lined(ConsentRows, "row", st))
                       + Cardinality(Lined(NonConclusiveRows, "row", st))
      /\ TellsTheSame(text, GapLines, "gap") /\ TellsTheSame(text, EvidenceSummary, "summary")
      /\ TellsTheSame(text, LinesByControl("digest"), "digest")
      /\ TellsTheSame(text, Limitations, "limitation")
  BY <1>1, SectionsTell
<1>3. /\ Said(text, "evidence") = log /\ Said(text, "summary") = log /\ Said(text, "digest") = log
      /\ Said(text, "limitation") = lacking
  <2>1. /\ Said(LinesByControl("evidence"), "evidence") = log
        /\ Said(LinesByControl("digest"), "digest") = log
        /\ Said(EvidenceSummary, "summary") = log /\ Said(Limitations, "limitation") = lacking
    BY LinesByControlTell, EvidenceSummaryTells, LimitationsTell
  <2> QED
    BY <1>2, <2>1 DEF TellsTheSame
<1>4. /\ Said(text, "incomplete") = IF ErrorCount > 0 THEN {ErrorCount} ELSE {}
      /\ \A st \in Status : SaidAs(text, "count", st) =
           IF log # {} /\ ShownCounts[st] > 0 THEN {ShownCounts[st]} ELSE {}
  <2>1. /\ Said(text, "incomplete") = Said(SummaryLines, "incomplete")
        /\ \A st : SaidAs(text, "count", st) = SaidAs(SummaryLines, "count", st)
    BY <1>2 DEF TellsTheSame
  <2> QED
    BY <2>1, SummaryTells
<1>5. ASSUME NEW st, st # None
      PROVE  Cardinality(Lined(text, "gap", st)) = Cardinality({id \in log : GapStatus(Content[id]) = st})
  <2>1. Cardinality(Lined(text, "gap", st)) = Cardinality(Lined(GapLines, "gap", st))
    BY <1>2 DEF TellsTheSame
  <2> QED
    BY <1>5, <2>1, GapLinesTell
<1>6. ASSUME NEW st \in {"ERROR", "SKIPPED"}
      PROVE  Cardinality(Lined(text, "row", st))
               = Cardinality({id \in log : NonConclusive(Content[id]) = st})
  <2>1. st # None /\ st # "FAIL"
    BY DEF None
  <2>2. PICK m : m = Cardinality({id \in log : NonConclusive(Content[id]) = st})
    OBVIOUS
  <2>3. m \in Nat
    <3>1. IsFiniteSet({id \in log : NonConclusive(Content[id]) = st})
      BY FS_Subset DEF IsKnown
    <3> QED
      BY <2>2, <3>1, FS_CardinalityType
  <2>4. Cardinality(Lined(NonConclusiveRows, "row", st)) = m
    BY <2>1, <2>2, NonConclusiveRowsTell
  <2>5. Cardinality(Lined(ConsentRows, "row", st)) = 0
    BY <2>1, OtherSections
  <2>6. Cardinality(Lined(text, "row", st)) = 0 + m
    BY <1>2, <2>4, <2>5
  <2> QED
    BY <2>2, <2>3, <2>6
<1> QED
  BY <1>1, <1>2, <1>3, <1>4, <1>5, <1>6 DEF IsReport

\* What the readers of the document find under a tag.
LEMMA IdsShown ==
  ASSUME NEW tag
  PROVE  ShownIds(tag) = Said(pdf, tag)
BY DEF ShownIds, Shown, Said

LEMMA LinesShown ==
  ASSUME NEW tag, NEW status
  PROVE  ShownAs(tag, status) = Cardinality(Lined(pdf, tag, status))
<1>1. {n \in Shown(tag) : pdf[n].status = status} = Lined(pdf, tag, status)
  BY DEF Shown, Lined
<1> QED
  BY <1>1 DEF ShownAs

\* The first line of those that tell a count is one of them.
LEMMA CountIsSaid ==
  ASSUME IsList(pdf), NEW status
  PROVE  IF SaidAs(pdf, "count", status) = {} THEN CountShown(status) = 0
         ELSE CountShown(status) \in SaidAs(pdf, "count", status)
<1>1. PICK p : p = pdf
  OBVIOUS
<1>2. PICK at : at = {i \in DOMAIN p : p[i].tag = "count" /\ p[i].status = status}
  OBVIOUS
<1>3. at \subseteq Nat
  <2>1. p \in Seq(Elements(p))
    BY <1>1 DEF IsList
  <2> QED
    BY <1>2, <2>1
<1>4. SaidAs(pdf, "count", status) = {p[n].what : n \in at}
  BY <1>1, <1>2 DEF SaidAs, Lined
<1>5. CASE at = {}
  <2>1. CountShown(status) = 0
    BY <1>1, <1>2, <1>5 DEF CountShown, FirstWhere
  <2> QED
    BY <1>4, <1>5, <2>1
<1>6. CASE at # {}
  <2>1. PICK first : first = CHOOSE i \in at : \A j \in at : i <= j
    OBVIOUS
  <2>2. first \in at
    BY <1>3, <1>6, <2>1, FirstPosition
  <2>3. CountShown(status) = p[first].what
    BY <1>1, <1>2, <1>6, <2>1 DEF CountShown, FirstWhere
  <2> QED
    BY <1>4, <2>2, <2>3
<1> QED
  BY <1>5, <1>6

LEMMA IncompleteIsSaid ==
  ASSUME IsList(pdf)
  PROVE  IF Said(pdf, "incomplete") = {} THEN IncompleteShown = 0
         ELSE IncompleteShown \in Said(pdf, "incomplete")
<1>1. PICK p : p = pdf
  OBVIOUS
<1>2. PICK at : at = {i \in DOMAIN p : p[i].tag = "incomplete"}
  OBVIOUS
<1>3. at \subseteq Nat
  <2>1. p \in Seq(Elements(p))
    BY <1>1 DEF IsList
  <2> QED
    BY <1>2, <2>1
<1>4. Said(pdf, "incomplete") = {p[n].what : n \in at}
  BY <1>1, <1>2 DEF Said
<1>5. CASE at = {}
  <2>1. IncompleteShown = 0
    BY <1>1, <1>2, <1>5 DEF IncompleteShown, FirstWhere
  <2> QED
    BY <1>4, <1>5, <2>1
<1>6. CASE at # {}
  <2>1. PICK first : first = CHOOSE i \in at : \A j \in at : i <= j
    OBVIOUS
  <2>2. first \in at
    BY <1>3, <1>6, <2>1, FirstPosition
  <2>3. IncompleteShown = p[first].what
    BY <1>1, <1>2, <1>6, <2>1 DEF IncompleteShown, FirstWhere
  <2> QED
    BY <1>4, <2>2, <2>3
<1> QED
  BY <1>5, <1>6

(***************************************************************************)
(* The statuses of the sections.                                           *)
(***************************************************************************)

\* Every way to give a record a status counts the same records.
LEMMA StatusesAgree ==
  ASSUME NEW r
  PROVE  /\ NonConclusive(r) \in {"SKIPPED", "ERROR", None}
         /\ \A st \in {"ERROR", "SKIPPED"} :
              /\ st \in CountedAs(r) <=> NonConclusive(r) = st
              /\ GapStatus(r) = st <=> NonConclusive(r) = st
         /\ "WARNING" \in CountedAs(r) <=> r.signal = Inconclusive
         /\ GapStatus(r) = "WARNING" <=> r.signal = Inconclusive /\ r.control # None
         /\ GapStatus(r) = "FAIL" /\ r.signal # None => "FAIL" \in CountedAs(r)
<1>1. \/ NonConclusive(r) = "SKIPPED" /\ r.control = DockerControl /\ r.signal = NoDockerSignal
      \/ NonConclusive(r) = "ERROR" /\ r.control = SshControl /\ r.signal = NoSshdSignal
      \/ NonConclusive(r) = None
  BY DEF NonConclusive
<1>2. NonConclusive(r) # None => r.control # None /\ r.signal # PassSignal
  BY <1>1 DEF None, DockerControl, NoDockerSignal, SshControl, NoSshdSignal, PassSignal
<1>3. /\ Inconclusive # None /\ Inconclusive # PassSignal
      /\ Inconclusive # NoDockerSignal /\ Inconclusive # NoSshdSignal
  BY DEF Inconclusive, None, PassSignal, NoDockerSignal, NoSshdSignal
<1>4. CASE NonConclusive(r) # None
  <2>1. CountedAs(r) = {NonConclusive(r)} /\ GapStatus(r) = NonConclusive(r)
    BY <1>2, <1>4 DEF CountedAs, GapStatus
  <2>2. r.signal # Inconclusive
    BY <1>1, <1>3, <1>4
  <2> QED
    BY <1>1, <1>4, <2>1, <2>2
<1>5. CASE NonConclusive(r) = None
  <2>1. CountedAs(r) \subseteq {"PASS", "FAIL", "WARNING"} /\ GapStatus(r) \in {None, "WARNING", "FAIL"}
    BY <1>5 DEF CountedAs, GapStatus
  <2>2. "WARNING" \in CountedAs(r) <=> r.signal = Inconclusive
    BY <1>3, <1>5 DEF CountedAs
  <2>3. GapStatus(r) = "WARNING" <=> r.signal = Inconclusive /\ r.control # None
    BY <1>3, <1>5 DEF GapStatus, None
  <2>4. GapStatus(r) = "FAIL" => r.signal # PassSignal
    BY <1>5 DEF GapStatus, None
  <2>5. GapStatus(r) = "FAIL" /\ r.signal # None => "FAIL" \in CountedAs(r)
    BY <1>5, <2>4 DEF CountedAs
  <2> QED
    BY <1>5, <2>1, <2>2, <2>3, <2>5 DEF None
<1> QED
  BY <1>1, <1>4, <1>5

\* The counts the summary shows.
LEMMA CountsShown ==
  ASSUME IsKnown(log), IsKnown(lacking), IsReport
  PROVE  /\ \A st \in {"ERROR", "SKIPPED", "WARNING"} : CountShown(st) = CountOf(st)
         /\ CountOf("FAIL") <= CountShown("FAIL")
         /\ IncompleteShown = ErrorCount /\ ErrorCount = CountOf("ERROR")
<1>1. ErrorCount = CountOf("ERROR")
  <2>1. \A id \in log : "ERROR" \in CountedAs(Content[id]) <=> NonConclusive(Content[id]) = "ERROR"
    BY StatusesAgree
  <2>2. {id \in log : "ERROR" \in CountedAs(Content[id])}
          = {id \in log : NonConclusive(Content[id]) = "ERROR"}
    BY <2>1
  <2> QED
    BY <2>2 DEF ErrorCount, CountOf
<1>2. ASSUME NEW st \in Status
      PROVE  /\ CountOf(st) <= CountShown(st)
             /\ st \notin {"FAIL", "PASS"} => CountShown(st) = CountOf(st)
  <2>1. /\ CountOf(st) \in Nat /\ ShownCounts[st] \in Nat /\ CountOf(st) <= ShownCounts[st]
        /\ st \notin {"FAIL", "PASS"} => ShownCounts[st] = CountOf(st)
    BY CountsAreNaturals
  <2>2. SaidAs(pdf, "count", st) = IF log # {} /\ ShownCounts[st] > 0 THEN {ShownCounts[st]} ELSE {}
    BY DocumentTells
  <2>3. IF SaidAs(pdf, "count", st) = {} THEN CountShown(st) = 0
        ELSE CountShown(st) \in SaidAs(pdf, "count", st)
    BY DocumentTells, CountIsSaid
  <2>4. CASE log = {}
    <3>1. {id \in log : st \in CountedAs(Content[id])} = {}
      BY <2>4
    <3>2. CountOf(st) = 0
      BY <3>1, FS_EmptySet DEF CountOf
    <3> QED
      BY <2>2, <2>3, <2>4, <3>2
  <2>5. CASE log # {} /\ ShownCounts[st] > 0
    BY <2>1, <2>2, <2>3, <2>5
  <2>6. CASE ~(ShownCounts[st] > 0)
    BY <2>1, <2>2, <2>3, <2>6
  <2> QED
    BY <2>4, <2>5, <2>6
<1>3. {"ERROR", "SKIPPED", "WARNING", "FAIL"} \subseteq Status
  BY DEF Status
<1>4. \A st \in {"ERROR", "SKIPPED", "WARNING"} : CountShown(st) = CountOf(st)
  BY <1>2, <1>3
<1>5. IncompleteShown = ErrorCount
  <2>1. Said(pdf, "incomplete") = IF ErrorCount > 0 THEN {ErrorCount} ELSE {}
    BY DocumentTells
  <2>2. IF Said(pdf, "incomplete") = {} THEN IncompleteShown = 0
        ELSE IncompleteShown \in Said(pdf, "incomplete")
    BY DocumentTells, IncompleteIsSaid
  <2>3. ErrorCount \in Nat
    BY <1>1, <1>3, CountsAreNaturals
  <2> QED
    BY <2>1, <2>2, <2>3
<1> QED
  BY <1>1, <1>2, <1>3, <1>4, <1>5

\* Records that one set takes and another takes as well are no more in number.
LEMMA NoMore ==
  ASSUME IsKnown(log), NEW A, NEW B, A \subseteq B, B \subseteq log
  PROVE  Cardinality(A) <= Cardinality(B)
<1>1. IsFiniteSet(B)
  BY FS_Subset DEF IsKnown
<1> QED
  BY <1>1, FS_Subset

\* The sections of a report agree.
LEMMA ReportAgrees ==
  ASSUME IsKnown(log), IsKnown(lacking), IsReport
  PROVE  SectionsAgree
<1>1. ASSUME NEW st \in {"ERROR", "SKIPPED"}
      PROVE  CountShown(st) = ShownAs("row", st) /\ ShownAs("gap", st) = ShownAs("row", st)
  <2>1. \A id \in log : /\ st \in CountedAs(Content[id]) <=> NonConclusive(Content[id]) = st
                        /\ GapStatus(Content[id]) = st <=> NonConclusive(Content[id]) = st
    BY StatusesAgree
  <2>2. /\ {id \in log : st \in CountedAs(Content[id])} = {id \in log : NonConclusive(Content[id]) = st}
        /\ {id \in log : GapStatus(Content[id]) = st} = {id \in log : NonConclusive(Content[id]) = st}
    BY <2>1
  <2>3. st # None
    BY DEF None
  <2>4. /\ ShownAs("row", st) = Cardinality({id \in log : NonConclusive(Content[id]) = st})
        /\ ShownAs("gap", st) = Cardinality({id \in log : GapStatus(Content[id]) = st})
    BY <2>3, DocumentTells, LinesShown
  <2>5. CountShown(st) = Cardinality({id \in log : st \in CountedAs(Content[id])})
    BY CountsShown DEF CountOf
  <2> QED
    BY <2>2, <2>4, <2>5
<1>2. CountShown("WARNING") =
        ShownAs("gap", "WARNING")
          + Cardinality({id \in log : Content[id].signal = Inconclusive /\ Content[id].control = None})
  <2>1. PICK W, G, N : /\ W = {id \in log : "WARNING" \in CountedAs(Content[id])}
                       /\ G = {id \in log : GapStatus(Content[id]) = "WARNING"}
                       /\ N = {id \in log : Content[id].signal = Inconclusive
                                             /\ Content[id].control = None}
    OBVIOUS
  <2>2. W = G \cup N /\ G \cap N = {}
    BY <2>1, StatusesAgree
  <2>3. IsFiniteSet(G) /\ IsFiniteSet(N)
    BY <2>1, FS_Subset DEF IsKnown
  <2>4. /\ Cardinality(W) = Cardinality(G) + Cardinality(N) - Cardinality({})
        /\ Cardinality(G) \in Nat /\ Cardinality(N) \in Nat /\ Cardinality({}) = 0
    BY <2>2, <2>3, FS_Union, FS_CardinalityType, FS_EmptySet
  <2>5. ShownAs("gap", "WARNING") = Cardinality(G)
    <3>1. "WARNING" # None
      BY DEF None
    <3> QED
      BY <2>1, <3>1, DocumentTells, LinesShown
  <2>6. CountShown("WARNING") = Cardinality(W)
    BY <2>1, CountsShown DEF CountOf
  <2>7. CountShown("WARNING") = ShownAs("gap", "WARNING") + Cardinality(N)
    BY <2>4, <2>5, <2>6
  <2> QED
    BY <2>1, <2>7
<1>3. Cardinality({id \in log : /\ GapStatus(Content[id]) = "FAIL"
                                /\ Content[id].signal # None}) <= CountShown("FAIL")
  <2>1. PICK F, C : /\ F = {id \in log : GapStatus(Content[id]) = "FAIL" /\ Content[id].signal # None}
                    /\ C = {id \in log : "FAIL" \in CountedAs(Content[id])}
    OBVIOUS
  <2>2. F \subseteq C /\ C \subseteq log
    BY <2>1, StatusesAgree
  <2>3. Cardinality(F) <= Cardinality(C)
    BY <2>2, NoMore
  <2>4. Cardinality(C) <= CountShown("FAIL")
    BY <2>1, CountsShown DEF CountOf
  <2>5. Cardinality(F) \in Nat /\ Cardinality(C) \in Nat
    BY <2>2, FS_Subset, FS_CardinalityType DEF IsKnown
  <2>6. CountShown("FAIL") \in Nat
    <3>1. "FAIL" \in Status
      BY DEF Status
    <3>2. ShownCounts["FAIL"] \in Nat
      BY <3>1, CountsAreNaturals
    <3>3. SaidAs(pdf, "count", "FAIL")
            = IF log # {} /\ ShownCounts["FAIL"] > 0 THEN {ShownCounts["FAIL"]} ELSE {}
      BY <3>1, DocumentTells
    <3>4. IF SaidAs(pdf, "count", "FAIL") = {} THEN CountShown("FAIL") = 0
          ELSE CountShown("FAIL") \in SaidAs(pdf, "count", "FAIL")
      BY DocumentTells, CountIsSaid
    <3> QED
      BY <3>2, <3>3, <3>4
  <2>7. Cardinality(F) <= CountShown("FAIL")
    BY <2>3, <2>4, <2>5, <2>6
  <2> QED
    BY <2>1, <2>7
<1>4. CountShown("ERROR") = IncompleteShown
  BY CountsShown
<1>5. ShownIds("summary") = ShownIds("evidence") /\ ShownIds("digest") = ShownIds("evidence")
  BY DocumentTells, IdsShown
<1> QED
  BY <1>1, <1>2, <1>3, <1>4, <1>5 DEF SectionsAgree

\* A report shows all it is made from, or names what it leaves out.
LEMMA ReportShows ==
  ASSUME IsKnown(log), IsKnown(lacking), IsReport,
         \/ log = store /\ lacking = {} /\ Damaged = {}
         \/ log = {} /\ lacking = Lacking /\ Lacking # {}
  PROVE  EvidenceIsShownOrItsLackIs
<1>1. ShownIds("digest") = log /\ ShownIds("limitation") = lacking
  BY DocumentTells, IdsShown
<1>2. CASE log = store /\ lacking = {} /\ Damaged = {}
  <2>1. \A id \in store : Content[id].damage = None
    BY <1>2 DEF Damaged
  <2> QED
    BY <1>1, <1>2, <2>1 DEF EvidenceIsShownOrItsLackIs
<1>3. CASE log = {} /\ lacking = Lacking /\ Lacking # {}
  BY <1>1, <1>3 DEF EvidenceIsShownOrItsLackIs
<1> QED
  BY <1>2, <1>3

\* What the pages of a report show is the report.
LEMMA ReportIsShown ==
  ASSUME IsKnown(log), IsKnown(lacking)
  PROVE  ShownLines(PdfObjects(ReportText)) = ReportText
<1>1. PICK text : text = ReportText
  OBVIOUS
<1>2. text \in Seq(Elements(text))
  BY <1>1, SectionsTell DEF IsList
<1>3. ShownLines(PdfObjects(text)) = text
  BY <1>2, PdfsAreReadable
<1> QED
  BY <1>1, <1>3

=============================================================================
