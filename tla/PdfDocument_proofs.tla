------------------------- MODULE PdfDocument_proofs -------------------------
(***************************************************************************)
(* What the documents of the agent are made with, for any lists: sorting,  *)
(* joining, filtering, and the PDF writer.  A reader of the PDF finds      *)
(* every line that was given to the writer.                                *)
(***************************************************************************)
EXTENDS PdfDocument, FiniteSetTheorems, FunctionTheorems, SequenceTheorems, WellFoundedInduction,
        TLAPS

(***************************************************************************)
(* Sorting.  InOrderOf takes the n-th element of a set to be the one with  *)
(* n - 1 elements before it: in a finite set with a strict total order     *)
(* there is one for every n, as counting the elements before is a map      *)
(* of the set to as many numbers that takes no number twice.               *)
(***************************************************************************)
EarlierIn(S, Before, x) == {y \in S : <<y, x>> \in Before}

LEMMA PlacesAreTaken ==
  ASSUME NEW S, IsFiniteSet(S), NEW Before,
         \A x \in S : <<x, x>> \notin Before,
         \A x, y, z \in S : <<x, y>> \in Before /\ <<y, z>> \in Before => <<x, z>> \in Before,
         \A x, y \in S : x # y => <<x, y>> \in Before \/ <<y, x>> \in Before
  PROVE  \A n \in 1..Cardinality(S) :
           \E x \in S : Cardinality(EarlierIn(S, Before, x)) = n - 1
<1> DEFINE Earlier(x) == EarlierIn(S, Before, x)
           Places == 0..(Cardinality(S) - 1)
           place == [x \in S |-> Cardinality(Earlier(x))]
<1>1. Cardinality(S) \in Nat
  BY FS_CardinalityType
<1>2. \A x \in S : IsFiniteSet(Earlier(x)) /\ Cardinality(Earlier(x)) \in Nat
  <2>1. \A x \in S : Earlier(x) \in SUBSET S
    BY DEF EarlierIn
  <2> QED
    BY <2>1, FS_Subset, FS_CardinalityType
<1>3. \A x \in S : Cardinality(Earlier(x)) \in Places
  <2> SUFFICES ASSUME NEW x \in S
               PROVE  Cardinality(Earlier(x)) \in Places
    OBVIOUS
  <2>1. Earlier(x) \in SUBSET S /\ Earlier(x) # S
    BY DEF EarlierIn
  <2>2. Cardinality(Earlier(x)) <= Cardinality(S) /\ Cardinality(Earlier(x)) # Cardinality(S)
    BY <2>1, FS_Subset
  <2> QED
    BY <1>1, <1>2, <2>2
<1>4. \A x, y \in S : <<x, y>> \in Before => Cardinality(Earlier(x)) # Cardinality(Earlier(y))
  <2> SUFFICES ASSUME NEW x \in S, NEW y \in S, <<x, y>> \in Before
               PROVE  Cardinality(Earlier(x)) # Cardinality(Earlier(y))
    OBVIOUS
  <2>1. Earlier(x) \in SUBSET Earlier(y)
    BY DEF EarlierIn
  <2>2. x \in Earlier(y) /\ x \notin Earlier(x)
    BY DEF EarlierIn
  <2>3. Cardinality(Earlier(x)) = Cardinality(Earlier(y)) => Earlier(x) = Earlier(y)
    BY <1>2, <2>1, FS_Subset
  <2> QED
    BY <2>2, <2>3
<1>5. place \in Injection(S, Places)
  <2>1. place \in [S -> Places]
    BY <1>3
  <2>2. \A x, y \in S : x # y => Cardinality(Earlier(x)) # Cardinality(Earlier(y))
    BY <1>4
  <2>3. \A x, y \in S : place[x] = place[y] => x = y
    BY <2>2
  <2> QED
    BY <2>1, <2>3 DEF Injection, IsInjective
<1>6. IsFiniteSet(Places) /\ Cardinality(Places) = Cardinality(S)
  <2>1. Cardinality(S) - 1 \in Int /\ 0 \in Int
    BY <1>1
  <2>2. /\ IsFiniteSet(Places)
        /\ Cardinality(Places) = IF 0 > Cardinality(S) - 1 THEN 0 ELSE Cardinality(S) - 1 - 0 + 1
    BY <2>1, FS_Interval
  <2> QED
    BY <1>1, <2>2
<1>7. place \in Surjection(S, Places)
  BY <1>5, <1>6, FS_Injection
<1>8. \A p \in Places : \E x \in S : place[x] = p
  BY <1>7 DEF Surjection
<1> QED
  <2> SUFFICES ASSUME NEW n \in 1..Cardinality(S)
               PROVE  \E x \in S : Cardinality(Earlier(x)) = n - 1
    OBVIOUS
  <2>1. n - 1 \in Places
    BY <1>1
  <2> QED
    BY <1>8, <2>1

\* So the list that Ordered makes of a set has every element once, and in order.
IsOrderOf(f, S, Before) ==
  f = [n \in 1..Cardinality(S) |->
         (CHOOSE p \in {<<Cardinality(EarlierIn(S, Before, x)) + 1, x>> : x \in S} : p[1] = n)[2]]

LEMMA OrderedIsBijection ==
  ASSUME NEW S, IsFiniteSet(S), NEW Before, NEW f, IsOrderOf(f, S, Before),
         \A x \in S : <<x, x>> \notin Before,
         \A x, y, z \in S : <<x, y>> \in Before /\ <<y, z>> \in Before => <<x, z>> \in Before,
         \A x, y \in S : x # y => <<x, y>> \in Before \/ <<y, x>> \in Before
  PROVE  /\ f \in Bijection(1..Cardinality(S), S)
         /\ \A i, j \in 1..Cardinality(S) : i < j => <<f[i], f[j]>> \in Before
<1> DEFINE Earlier(x) == EarlierIn(S, Before, x)
           N == 1..Cardinality(S)
<1>1. Cardinality(S) \in Nat
  BY FS_CardinalityType
<1>2. \A x \in S : IsFiniteSet(Earlier(x)) /\ Cardinality(Earlier(x)) \in Nat
  <2>1. \A x \in S : Earlier(x) \in SUBSET S
    BY DEF EarlierIn
  <2> QED
    BY <2>1, FS_Subset, FS_CardinalityType
<1>3. \A n \in N : f[n] \in S /\ Cardinality(Earlier(f[n])) = n - 1
  <2> SUFFICES ASSUME NEW n \in N
               PROVE  f[n] \in S /\ Cardinality(Earlier(f[n])) = n - 1
    OBVIOUS
  <2> DEFINE placed == {<<Cardinality(Earlier(x)) + 1, x>> : x \in S}
  <2>1. \E x \in S : Cardinality(Earlier(x)) = n - 1
    BY PlacesAreTaken
  <2>2. \E p \in placed : p[1] = n
    <3>1. PICK x \in S : Cardinality(Earlier(x)) + 1 = n
      BY <1>1, <2>1
    <3>2. <<Cardinality(Earlier(x)) + 1, x>> \in placed
      OBVIOUS
    <3> QED
      BY <3>1, <3>2
  <2>3. f[n] = (CHOOSE p \in placed : p[1] = n)[2]
    BY DEF IsOrderOf
  <2>4. PICK p \in placed : p[1] = n /\ f[n] = p[2]
    BY <2>2, <2>3
  <2>5. PICK x \in S : p = <<Cardinality(Earlier(x)) + 1, x>>
    BY <2>4
  <2> QED
    BY <1>1, <1>2, <2>4, <2>5
<1>4. \A x, y \in S : <<x, y>> \in Before => Cardinality(Earlier(x)) < Cardinality(Earlier(y))
  <2> SUFFICES ASSUME NEW x \in S, NEW y \in S, <<x, y>> \in Before
               PROVE  Cardinality(Earlier(x)) < Cardinality(Earlier(y))
    OBVIOUS
  <2>1. Earlier(x) \in SUBSET Earlier(y)
    BY DEF EarlierIn
  <2>2. x \in Earlier(y) /\ x \notin Earlier(x)
    BY DEF EarlierIn
  <2>3. /\ Cardinality(Earlier(x)) = Cardinality(Earlier(y)) => Earlier(x) = Earlier(y)
        /\ Cardinality(Earlier(x)) <= Cardinality(Earlier(y))
    BY <1>2, <2>1, FS_Subset
  <2> QED
    BY <1>2, <2>2, <2>3
<1>5. \A i, j \in N : i < j => <<f[i], f[j]>> \in Before
  <2> SUFFICES ASSUME NEW i \in N, NEW j \in N, i < j
               PROVE  <<f[i], f[j]>> \in Before
    OBVIOUS
  <2>1. f[i] \in S /\ f[j] \in S /\ Cardinality(Earlier(f[i])) < Cardinality(Earlier(f[j]))
    BY <1>1, <1>3
  <2>2. f[i] # f[j] /\ <<f[j], f[i]>> \notin Before
    BY <1>2, <1>4, <2>1
  <2> QED
    BY <2>1, <2>2
<1>6. f \in Bijection(N, S)
  <2>1. f \in [N -> S]
    BY <1>3 DEF IsOrderOf
  <2>2. \A i, j \in N : f[i] = f[j] => i = j
    BY <1>1, <1>3
  <2>3. \A x \in S : \E n \in N : f[n] = x
    <3> SUFFICES ASSUME NEW x \in S
                 PROVE  \E n \in N : f[n] = x
      OBVIOUS
    <3>1. Cardinality(Earlier(x)) < Cardinality(S)
      <4>1. Earlier(x) \in SUBSET S /\ Earlier(x) # S
        BY DEF EarlierIn
      <4> QED
        BY <1>1, <1>2, <4>1, FS_Subset
    <3>2. PICK n \in N : n = Cardinality(Earlier(x)) + 1
      BY <1>1, <1>2, <3>1
    <3>3. f[n] \in S /\ Cardinality(Earlier(f[n])) = Cardinality(Earlier(x))
      BY <1>1, <1>2, <1>3, <3>2
    <3>4. <<f[n], x>> \notin Before /\ <<x, f[n]>> \notin Before
      BY <1>2, <1>4, <3>3
    <3> QED
      BY <3>3, <3>4
  <2> QED
    BY <2>1, <2>2, <2>3 DEF Bijection, Injection, Surjection, IsInjective
<1> QED
  BY <1>5, <1>6

LEMMA SingleIdsPrecede ==
  ASSUME NEW a, NEW b
  PROVE  Precedes(<<a>>, <<b>>) <=> Rank[a] < Rank[b]
<1>1. PICK s, t : s = <<a>> /\ t = <<b>>
  OBVIOUS
<1>2. DOMAIN s = {1} /\ s[1] = a /\ t[1] = b /\ 1..(1 - 1) = {}
  BY <1>1
<1>3. Precedes(s, t) <=> Rank[a] < Rank[b]
  BY <1>2 DEF Precedes
<1> QED
  BY <1>1, <1>3

-----------------------------------------------------------------------------
(***************************************************************************)
(* The PDF writer, for any list of lines.                                  *)
(***************************************************************************)

\* A set of positions that is not empty has a first one.
LEMMA FirstPosition ==
  ASSUME NEW S, S \subseteq Nat, S # {}
  PROVE  \E n \in S : \A m \in S : n <= m
<1> DEFINE Less == {ss \in Nat \X Nat : ss[1] < ss[2]}
<1>1. IsWellFoundedOn(Less, Nat)
  BY NatLessThanWellFounded, Zenon DEF OpToRel
<1>2. PICK n \in S : \A m \in S : <<m, n>> \notin Less
  BY <1>1, WFMin
<1>3. \A m \in S : ~(m < n)
  BY <1>2
<1> QED
  BY <1>3

\* Flattening is defined from one part to the next: any list of partial
\* results that follows that rule ends with its result.
Follows(f, s, n) == f = [i \in 1..n |-> IF i = 1 THEN s[i] ELSE f[i - 1] \o s[i]]

LEMMA FlattenIs ==
  ASSUME NEW n \in Nat \ {0}, NEW s, Len(s) = n, NEW f, Follows(f, s, n)
  PROVE  FlattenSeq(s) = f[n]
<1>1. \E g : Follows(g, s, n)
  OBVIOUS
<1>2. PICK g : Follows(g, s, n) /\ FlattenSeq(s) = g[n]
  <2>1. FlattenSeq(s) = (CHOOSE g : Follows(g, s, n))[n]
    BY DEF FlattenSeq, Follows
  <2> QED
    BY <1>1, <2>1
<1>3. \A i \in 1..n : /\ g[i] = IF i = 1 THEN s[i] ELSE g[i - 1] \o s[i]
                      /\ f[i] = IF i = 1 THEN s[i] ELSE f[i - 1] \o s[i]
  BY <1>2 DEF Follows
<1> DEFINE apart == {i \in 1..n : g[i] # f[i]}
<1>4. apart = {}
  <2> SUFFICES ASSUME apart # {}
               PROVE  FALSE
    OBVIOUS
  <2>1. apart \subseteq Nat
    OBVIOUS
  <2>2. PICK m \in apart : \A k \in apart : m <= k
    BY <2>1, FirstPosition
  <2>3. m # 1
    BY <1>3, <2>2
  <2>4. m - 1 \in 1..n /\ m - 1 \notin apart
    BY <2>2, <2>3
  <2>5. g[m - 1] = f[m - 1]
    BY <2>4
  <2>6. m \in 1..n /\ g[m] # f[m]
    BY <2>2
  <2>7. g[m] = g[m - 1] \o s[m] /\ f[m] = f[m - 1] \o s[m]
    BY <1>3, <2>3, <2>6
  <2> QED
    BY <2>5, <2>6, <2>7
<1>5. n \in 1..n
  OBVIOUS
<1> QED
  BY <1>2, <1>4, <1>5

\* The last page begins before the last line and ends at it or after it.
LEMMA PagesCoverLines ==
  ASSUME NEW S, NEW lines \in Seq(S)
  PROVE  /\ PageCount(lines) \in Nat \ {0}
         /\ Len(lines) <= PageCount(lines) * LinesPerPage
         /\ lines # <<>> => (PageCount(lines) - 1) * LinesPerPage < Len(lines)
<1> DEFINE N == Len(lines)
           L == LinesPerPage
           q == (N + L - 1) \div L
<1>1. N \in Nat /\ L \in Nat \ {0}
  BY LinesPerPageIsPositive
<1>2. CASE lines = <<>>
  BY <1>1, <1>2 DEF PageCount
<1>3. CASE lines # <<>>
  <2>1. N >= 1
    BY <1>3
  <2>2. PageCount(lines) = q
    BY <1>3 DEF PageCount
  <2>3. q \in Int /\ q * L <= N + L - 1 /\ N + L - 1 < (q + 1) * L
    BY <1>1
  <2>4. (q + 1) * L = q * L + L /\ (q - 1) * L = q * L - L
    BY <1>1, <2>3
  <2>5. N <= q * L /\ (q - 1) * L < N
    BY <1>1, <2>3, <2>4
  <2>6. q >= 1
    BY <1>1, <2>1, <2>3, <2>5
  <2> QED
    BY <1>3, <2>2, <2>3, <2>5, <2>6
<1> QED
  BY <1>2, <1>3

\* Two neighbouring pieces of a list make one.
LEMMA NeighbouringPieces ==
  ASSUME NEW S, NEW lines \in Seq(S), NEW m \in Nat, NEW k \in Nat, m <= k, k <= Len(lines)
  PROVE  SubSeq(lines, 1, m) \o SubSeq(lines, m + 1, k) = SubSeq(lines, 1, k)
BY ConcatAdjacentSubSeq

\* The pages, one after the other, are the lines.
LEMMA PagesMakeLines ==
  ASSUME NEW S, NEW lines \in Seq(S)
  PROVE  FlattenSeq([i \in 1..PageCount(lines) |-> Page(lines, i)]) = lines
<1> DEFINE P == PageCount(lines)
           L == LinesPerPage
           N == Len(lines)
           s == [i \in 1..P |-> Page(lines, i)]
           End(i) == SmallerOf(i * L, N)
           f == [i \in 1..P |-> SubSeq(lines, 1, End(i))]
<1>1. P \in Nat \ {0} /\ L \in Nat \ {0} /\ N \in Nat
  BY PagesCoverLines, LinesPerPageIsPositive
<1>2. N <= P * L /\ (lines # <<>> => (P - 1) * L < N)
  BY PagesCoverLines
<1>3. \A i \in 1..P : i * L \in Nat /\ End(i) \in Nat /\ End(i) <= N
  BY <1>1 DEF SmallerOf
<1>4. ASSUME NEW i \in 1..P, i # 1
      PROVE  f[i - 1] \o s[i] = f[i]
  <2>1. (i - 1) * L \in Nat /\ (i - 1) * L <= (P - 1) * L /\ (i - 1) * L <= i * L
    BY <1>1
  <2>2. lines # <<>>
    BY <1>4 DEF PageCount
  <2>3. (i - 1) * L < N
    BY <1>1, <1>2, <2>1, <2>2
  <2>4. End(i - 1) = (i - 1) * L /\ End(i - 1) <= End(i)
    BY <1>1, <1>3, <2>1, <2>3 DEF SmallerOf
  <2>5. s[i] = SubSeq(lines, End(i - 1) + 1, End(i))
    BY <2>4 DEF Page
  <2>6. f[i - 1] = SubSeq(lines, 1, End(i - 1)) /\ f[i] = SubSeq(lines, 1, End(i))
    <3>1. i - 1 \in 1..P
      BY <1>1, <1>4
    <3> HIDE DEF End, P
    <3> QED
      BY <3>1
  <2>7. End(i - 1) \in Nat /\ End(i) \in Nat /\ End(i) <= N
    BY <1>3, <2>1, <2>4
  <2> QED
    BY <2>4, <2>5, <2>6, <2>7, NeighbouringPieces
<1>5. 1 \in 1..P /\ s[1] = f[1]
  BY <1>1 DEF Page
<1>6. f[P] = lines
  <2>1. End(P) = N
    BY <1>1, <1>2 DEF SmallerOf
  <2>2. f[P] = SubSeq(lines, 1, N)
    BY <1>1, <2>1
  <2>3. SubSeq(lines, 1, N) = lines
    OBVIOUS
  <2> QED
    BY <2>2, <2>3
<1>7. PICK t : t = f
  OBVIOUS
<1>8. t = [i \in 1..P |-> IF i = 1 THEN s[i] ELSE t[i - 1] \o s[i]]
  <2>1. t = [i \in 1..P |-> t[i]]
    BY <1>7
  <2>2. \A i \in 1..P : t[i] = IF i = 1 THEN s[i] ELSE t[i - 1] \o s[i]
    BY <1>4, <1>5, <1>7
  <2> HIDE DEF f, s
  <2> QED
    BY <2>1, <2>2
<1>9. PICK u : u = s
  OBVIOUS
<1>10. Len(u) = P
  BY <1>1, <1>9
<1>11. t = [i \in 1..P |-> IF i = 1 THEN u[i] ELSE t[i - 1] \o u[i]]
  BY <1>8, <1>9
<1>12. PICK n : n = P
  OBVIOUS
<1> HIDE DEF s, f, P
<1>13. FlattenSeq(u) = t[n]
  <2>1. n \in Nat \ {0} /\ Len(u) = n
    BY <1>1, <1>10, <1>12
  <2>2. Follows(t, u, n)
    BY <1>11, <1>12 DEF Follows
  <2> QED
    BY <2>1, <2>2, FlattenIs
<1> QED
  BY <1>6, <1>7, <1>9, <1>12, <1>13 DEF s, P

\* The two objects of a page.
PageOf(i)           == [number |-> PageObject(i), kind |-> "page",
                        refs |-> <<2, 3, ContentObject(i)>>, text |-> <<>>]
ContentOf(lines, i) == [number |-> ContentObject(i), kind |-> "content", refs |-> <<>>,
                        text |-> Page(lines, i)]

\* The objects of the first i pages.
PageObjects(lines, i) ==
  [k \in 1..(2 * i) |-> IF k % 2 = 1 THEN PageOf((k + 1) \div 2) ELSE ContentOf(lines, k \div 2)]

LEMMA PageObjectsGrow ==
  ASSUME NEW lines, NEW i \in Nat \ {0}
  PROVE  /\ PageObjects(lines, 1) = <<PageOf(1), ContentOf(lines, 1)>>
         /\ PageObjects(lines, i + 1)
              = PageObjects(lines, i) \o <<PageOf(i + 1), ContentOf(lines, i + 1)>>
<1>1. \A n \in Nat \ {0} : /\ (2 * n) % 2 = 0 /\ (2 * n) \div 2 = n
                           /\ (2 * n - 1) % 2 = 1 /\ (2 * n - 1 + 1) \div 2 = n
  OBVIOUS
<1>2. PICK a, b, c : /\ a = PageObjects(lines, i) /\ b = PageObjects(lines, i + 1)
                     /\ c = PageObjects(lines, 1)
  OBVIOUS
<1>3. PICK p, q : p = PageOf(i + 1) /\ q = ContentOf(lines, i + 1)
  OBVIOUS
<1>4. c = <<PageOf(1), ContentOf(lines, 1)>>
  <2>1. c = [k \in 1..2 |-> IF k % 2 = 1 THEN PageOf((k + 1) \div 2) ELSE ContentOf(lines, k \div 2)]
    BY <1>2 DEF PageObjects
  <2>2. c = [k \in 1..2 |-> c[k]] /\ c[1] = PageOf(1) /\ c[2] = ContentOf(lines, 1)
    BY <2>1
  <2> QED
    BY <2>2
<1>5. b = a \o <<p, q>>
  <2> DEFINE Entry(k) == IF k % 2 = 1 THEN PageOf((k + 1) \div 2) ELSE ContentOf(lines, k \div 2)
  <2>1. a = [k \in 1..(2 * i) |-> Entry(k)] /\ b = [k \in 1..(2 * i + 2) |-> Entry(k)]
    BY <1>2 DEF PageObjects
  <2>2. Entry(2 * i + 1) = p /\ Entry(2 * i + 2) = q
    BY <1>1, <1>3
  <2> HIDE DEF Entry
  <2>3. PICK S : S = {Entry(k) : k \in 1..(2 * i + 2)}
    OBVIOUS
  <2>4. \A k \in 1..(2 * i + 2) : Entry(k) \in S
    BY <2>3
  <2>5. a \in Seq(S) /\ Len(a) = 2 * i /\ b \in Seq(S) /\ Len(b) = 2 * i + 2
    <3>1. a \in [1..(2 * i) -> S] /\ b \in [1..(2 * i + 2) -> S]
      BY <2>1, <2>4
    <3> QED
      BY <3>1
  <2>6. <<p, q>> \in Seq(S)
    BY <2>2, <2>4
  <2>7. /\ a \o <<p, q>> \in Seq(S) /\ Len(a \o <<p, q>>) = 2 * i + 2
        /\ \A k \in 1..(2 * i + 2) :
             (a \o <<p, q>>)[k] = IF k <= 2 * i THEN a[k] ELSE <<p, q>>[k - 2 * i]
    <3>1. \A t \in Seq(S) : Len(t) = 2 =>
            /\ a \o t \in Seq(S) /\ Len(a \o t) = 2 * i + 2
            /\ \A k \in 1..(2 * i + 2) :
                 (a \o t)[k] = IF k <= 2 * i THEN a[k] ELSE t[k - 2 * i]
      <4> SUFFICES ASSUME NEW t \in Seq(S), Len(t) = 2
                   PROVE  /\ a \o t \in Seq(S) /\ Len(a \o t) = 2 * i + 2
                          /\ \A k \in 1..(2 * i + 2) :
                               (a \o t)[k] = IF k <= 2 * i THEN a[k] ELSE t[k - 2 * i]
        OBVIOUS
      <4>1. /\ a \o t \in Seq(S) /\ Len(a \o t) = Len(a) + Len(t)
            /\ \A k \in 1..(Len(a) + Len(t)) :
                 (a \o t)[k] = IF k <= Len(a) THEN a[k] ELSE t[k - Len(a)]
        BY <2>5, ConcatProperties
      <4> QED
        BY <2>5, <4>1
    <3>2. Len(<<p, q>>) = 2
      OBVIOUS
    <3> QED
      BY <2>6, <3>1, <3>2
  <2>8. ASSUME NEW k \in 1..(2 * i + 2)
        PROVE  (a \o <<p, q>>)[k] = b[k]
    <3>1. CASE k <= 2 * i
      BY <2>1, <2>7, <3>1
    <3>2. CASE k = 2 * i + 1
      BY <2>1, <2>2, <2>7, <3>2
    <3>3. CASE k = 2 * i + 2
      BY <2>1, <2>2, <2>7, <3>3
    <3>4. k <= 2 * i \/ k = 2 * i + 1 \/ k = 2 * i + 2
      OBVIOUS
    <3> QED
      BY <3>1, <3>2, <3>3, <3>4
  <2> QED
    BY <2>5, <2>7, <2>8, SeqEqual
<1> QED
  BY <1>2, <1>3, <1>4, <1>5

\* The objects after the three fixed ones.
LEMMA WrittenPages ==
  ASSUME NEW lines, NEW n \in Nat \ {0}
  PROVE  FlattenSeq([i \in 1..n |-> <<PageOf(i), ContentOf(lines, i)>>]) = PageObjects(lines, n)
<1>1. PICK s : s = [i \in 1..n |-> <<PageOf(i), ContentOf(lines, i)>>]
  OBVIOUS
<1>2. PICK f : f = [i \in 1..n |-> PageObjects(lines, i)]
  OBVIOUS
<1>3. ASSUME NEW i \in 1..n
      PROVE  f[i] = IF i = 1 THEN s[i] ELSE f[i - 1] \o s[i]
  <2>1. CASE i = 1
    BY <1>1, <1>2, <2>1, PageObjectsGrow
  <2>2. CASE i # 1
    <3>1. i - 1 \in Nat \ {0} /\ i - 1 \in 1..n /\ (i - 1) + 1 = i
      BY <2>2
    <3>2. PageObjects(lines, i) = PageObjects(lines, i - 1) \o <<PageOf(i), ContentOf(lines, i)>>
      BY <3>1, PageObjectsGrow
    <3> QED
      BY <1>1, <1>2, <2>2, <3>1, <3>2
  <2> QED
    BY <2>1, <2>2
<1>4. f = [i \in 1..n |-> f[i]]
  BY <1>2
<1>5. Follows(f, s, n)
  BY <1>3, <1>4 DEF Follows
<1>6. Len(s) = n /\ n \in 1..n
  BY <1>1
<1>7. FlattenSeq(s) = f[n]
  BY <1>5, <1>6, FlattenIs
<1> QED
  BY <1>1, <1>2, <1>6, <1>7

\* Where each object is: the fixed ones first, then page and content by turns.
AreInPlace(objects, lines, n) ==
  /\ DOMAIN objects = 1..(2 * n + 3)
  /\ objects[1] = [number |-> 1, kind |-> "catalog", refs |-> <<2>>, text |-> <<>>]
  /\ objects[2] = [number |-> 2, kind |-> "pages",
                   refs |-> [i \in 1..n |-> PageObject(i)], text |-> <<>>]
  /\ objects[3] = [number |-> 3, kind |-> "font", refs |-> <<>>, text |-> <<>>]
  /\ \A i \in 1..n : /\ objects[2 * i + 2] = PageOf(i)
                     /\ objects[2 * i + 3] = ContentOf(lines, i)

LEMMA ObjectsInPlace ==
  ASSUME NEW S, NEW lines \in Seq(S), NEW n, n = PageCount(lines),
         NEW objects, objects = PdfObjects(lines)
  PROVE  AreInPlace(objects, lines, n)
<1>1. n \in Nat \ {0}
  BY PagesCoverLines
<1>2. PICK a, b, c : /\ a = [number |-> 1, kind |-> "catalog", refs |-> <<2>>, text |-> <<>>]
                     /\ b = [number |-> 2, kind |-> "pages",
                             refs |-> [i \in 1..n |-> PageObject(i)], text |-> <<>>]
                     /\ c = [number |-> 3, kind |-> "font", refs |-> <<>>, text |-> <<>>]
  OBVIOUS
<1>3. PICK rest : rest = PageObjects(lines, n)
  OBVIOUS
<1>4. objects = <<a, b, c>> \o rest
  <2>1. objects = <<a, b, c>> \o FlattenSeq([i \in 1..n |-> <<PageOf(i), ContentOf(lines, i)>>])
    BY <1>2 DEF PdfObjects, PageOf, ContentOf
  <2> QED
    BY <1>1, <1>3, <2>1, WrittenPages
<1>5. /\ rest = [k \in 1..(2 * n) |-> rest[k]]
      /\ \A i \in 1..n : rest[2 * i - 1] = PageOf(i) /\ rest[2 * i] = ContentOf(lines, i)
  <2>1. \A i \in 1..n : /\ (2 * i) % 2 = 0 /\ (2 * i) \div 2 = i /\ 2 * i \in 1..(2 * n)
                        /\ (2 * i - 1) % 2 = 1 /\ (2 * i - 1 + 1) \div 2 = i
                        /\ 2 * i - 1 \in 1..(2 * n)
    BY <1>1
  <2>2. /\ DOMAIN rest = 1..(2 * n)
        /\ \A k \in 1..(2 * n) : rest[k] = IF k % 2 = 1 THEN PageOf((k + 1) \div 2)
                                                        ELSE ContentOf(lines, k \div 2)
    BY <1>3 DEF PageObjects
  <2>3. rest = [k \in 1..(2 * n) |-> rest[k]]
    BY <1>3 DEF PageObjects
  <2> QED
    BY <2>1, <2>2, <2>3
<1>6. PICK T : T = {a, b, c} \cup {rest[k] : k \in 1..(2 * n)}
  OBVIOUS
<1>7. <<a, b, c>> \in Seq(T) /\ rest \in Seq(T) /\ Len(rest) = 2 * n
  <2>1. rest \in [1..(2 * n) -> T]
    BY <1>5, <1>6
  <2>2. 2 * n \in Nat
    BY <1>1
  <2> QED
    BY <1>6, <2>1, <2>2
<1>8. /\ objects \in Seq(T) /\ Len(objects) = 2 * n + 3
      /\ \A k \in 1..(2 * n + 3) : objects[k] = IF k <= 3 THEN <<a, b, c>>[k] ELSE rest[k - 3]
  <2>1. Len(<<a, b, c>>) = 3 /\ 3 + 2 * n = 2 * n + 3
    BY <1>1
  <2> QED
    BY <1>4, <1>7, <2>1, ConcatProperties
<1>9. DOMAIN objects = 1..(2 * n + 3)
  BY <1>8
<1>10. objects[1] = a /\ objects[2] = b /\ objects[3] = c
  <2>1. 1 \in 1..(2 * n + 3) /\ 2 \in 1..(2 * n + 3) /\ 3 \in 1..(2 * n + 3)
    BY <1>1
  <2>2. <<a, b, c>>[1] = a /\ <<a, b, c>>[2] = b /\ <<a, b, c>>[3] = c
    OBVIOUS
  <2> QED
    BY <1>8, <2>1, <2>2
<1>11. ASSUME NEW i \in 1..n
       PROVE  objects[2 * i + 2] = PageOf(i) /\ objects[2 * i + 3] = ContentOf(lines, i)
  <2>1. /\ 2 * i + 2 \in 1..(2 * n + 3) /\ 2 * i + 2 > 3 /\ 2 * i + 2 - 3 = 2 * i - 1
        /\ 2 * i + 3 \in 1..(2 * n + 3) /\ 2 * i + 3 > 3 /\ 2 * i + 3 - 3 = 2 * i
    BY <1>1
  <2>2. objects[2 * i + 2] = rest[2 * i - 1] /\ objects[2 * i + 3] = rest[2 * i]
    BY <1>8, <2>1
  <2> QED
    BY <1>5, <2>2
<1> QED
  BY <1>2, <1>9, <1>10, <1>11 DEF AreInPlace

\* Every object is one of the fixed ones or belongs to a page.
LEMMA ObjectNumbers ==
  ASSUME NEW n \in Nat, NEW k \in 1..(2 * n + 3)
  PROVE  \/ k \in {1, 2, 3}
         \/ \E i \in 1..n : k = 2 * i + 2 \/ k = 2 * i + 3
<1>1. CASE k <= 3
  BY <1>1
<1>2. CASE k > 3
  <2>1. PICK i : i = (k - 2) \div 2
    OBVIOUS
  <2>2. i \in 1..n /\ (k = 2 * i + 2 \/ k = 2 * i + 3)
    BY <1>2, <2>1
  <2> QED
    BY <2>2
<1> QED
  BY <1>1, <1>2

\* The numbers the writer computes are the places of the objects, every
\* reference leads to an object of the right kind, and a reader who follows
\* them finds every line of the report once and in its order: however
\* many lines there are and however many go on a page (report.rs
\* `paginate_lines` and the objects it is followed by).
THEOREM PdfsAreReadable ==
  ASSUME NEW S, NEW lines \in Seq(S)
  PROVE  IsReadable(PdfObjects(lines)) /\ ShownLines(PdfObjects(lines)) = lines
<1>1. PICK n : n = PageCount(lines)
  OBVIOUS
<1>2. PICK objects : objects = PdfObjects(lines)
  OBVIOUS
<1>3. PICK tree : tree = [i \in 1..n |-> PageObject(i)]
  OBVIOUS
<1>4. n \in Nat \ {0} /\ AreInPlace(objects, lines, n)
  BY <1>1, <1>2, PagesCoverLines, ObjectsInPlace
<1>5. /\ DOMAIN objects = 1..(2 * n + 3)
      /\ objects[1].number = 1 /\ objects[1].kind = "catalog" /\ objects[1].refs = <<2>>
      /\ objects[2].number = 2 /\ objects[2].kind = "pages" /\ objects[2].refs = tree
      /\ objects[3].number = 3 /\ objects[3].refs = <<>>
  BY <1>3, <1>4 DEF AreInPlace
<1>6. \A i \in 1..n :
        /\ objects[2 * i + 2].number = 2 * i + 2 /\ objects[2 * i + 2].kind = "page"
        /\ objects[2 * i + 2].refs = <<2, 3, 2 * i + 3>>
        /\ objects[2 * i + 3].number = 2 * i + 3 /\ objects[2 * i + 3].kind = "content"
        /\ objects[2 * i + 3].refs = <<>> /\ objects[2 * i + 3].text = Page(lines, i)
  <2>1. \A i \in 1..n : PageObject(i) = 2 * i + 2 /\ ContentObject(i) = 2 * i + 3
    BY <1>4 DEF PageObject, ContentObject, FixedObjects
  <2>2. \A i \in 1..n : objects[2 * i + 2] = PageOf(i) /\ objects[2 * i + 3] = ContentOf(lines, i)
    BY <1>4 DEF AreInPlace
  <2>3. \A i \in 1..n :
          /\ PageOf(i).number = 2 * i + 2 /\ PageOf(i).kind = "page"
          /\ PageOf(i).refs = <<2, 3, 2 * i + 3>>
    BY <2>1 DEF PageOf
  <2>4. \A i \in 1..n :
          /\ ContentOf(lines, i).number = 2 * i + 3 /\ ContentOf(lines, i).kind = "content"
          /\ ContentOf(lines, i).refs = <<>> /\ ContentOf(lines, i).text = Page(lines, i)
    BY <2>1 DEF ContentOf
  <2> QED
    BY <2>2, <2>3, <2>4
<1>7. DOMAIN tree = 1..n /\ \A i \in 1..n : tree[i] = 2 * i + 2
  BY <1>3 DEF PageObject, FixedObjects
<1>8. \A i \in 1..n : 2 * i + 2 \in 1..(2 * n + 3) /\ 2 * i + 3 \in 1..(2 * n + 3)
  BY <1>4
<1>9. ASSUME NEW k \in DOMAIN objects
      PROVE  objects[k].number = k
  <2>1. k \in {1, 2, 3} \/ \E i \in 1..n : k = 2 * i + 2 \/ k = 2 * i + 3
    BY <1>4, <1>5, ObjectNumbers
  <2> QED
    BY <1>5, <1>6, <2>1
<1>10. ASSUME NEW k \in DOMAIN objects, NEW r \in Elements(objects[k].refs)
       PROVE  r \in DOMAIN objects
  <2>1. PICK j \in DOMAIN objects[k].refs : r = objects[k].refs[j]
    BY DEF Elements
  <2>2. 2 \in 1..(2 * n + 3) /\ 3 \in 1..(2 * n + 3)
    BY <1>4
  <2>3. CASE k = 1
    <3>1. objects[k].refs = <<2>>
      BY <1>5, <2>3
    <3>2. r = 2
      BY <2>1, <3>1
    <3> QED
      BY <1>5, <2>2, <3>2
  <2>4. CASE k = 2
    <3>1. objects[k].refs = tree
      BY <1>5, <2>4
    <3>2. j \in 1..n /\ r = 2 * j + 2
      BY <1>7, <2>1, <3>1
    <3> QED
      BY <1>5, <1>8, <3>2
  <2>5. CASE k = 3
    <3>1. objects[k].refs = <<>>
      BY <1>5, <2>5
    <3> QED
      BY <2>1, <3>1
  <2>6. ASSUME NEW i \in 1..n, k = 2 * i + 2
        PROVE  r \in DOMAIN objects
    <3>1. objects[k].refs = <<2, 3, 2 * i + 3>>
      BY <1>6, <2>6
    <3>2. r \in {2, 3, 2 * i + 3}
      BY <2>1, <3>1
    <3> QED
      BY <1>5, <1>8, <2>2, <3>2
  <2>7. ASSUME NEW i \in 1..n, k = 2 * i + 3
        PROVE  r \in DOMAIN objects
    <3>1. objects[k].refs = <<>>
      BY <1>6, <2>7
    <3> QED
      BY <2>1, <3>1
  <2>8. k \in {1, 2, 3} \/ \E i \in 1..n : k = 2 * i + 2 \/ k = 2 * i + 3
    BY <1>4, <1>5, ObjectNumbers
  <2> QED
    BY <2>3, <2>4, <2>5, <2>6, <2>7, <2>8
<1>11. objects[1].refs[1] = 2 /\ objects[objects[1].refs[1]].refs = tree
  BY <1>5
<1>12. ASSUME NEW k \in Elements(tree)
       PROVE  objects[k].kind = "page" /\ objects[objects[k].refs[3]].kind = "content"
  <2>1. PICK i \in 1..n : k = 2 * i + 2
    BY <1>7 DEF Elements
  <2>2. objects[k].refs[3] = 2 * i + 3
    BY <1>6, <2>1
  <2> QED
    BY <1>6, <2>1, <2>2
<1>13. IsReadable(objects)
  <2>1. objects[1].kind = "catalog" /\ objects[objects[1].refs[1]].kind = "pages"
    BY <1>5, <1>11
  <2> QED
    BY <1>9, <1>10, <1>11, <1>12, <2>1 DEF IsReadable
<1>14. ShownLines(objects) = lines
  <2>1. ShownLines(objects) = FlattenSeq([i \in 1..n |-> ShownPage(objects, tree[i])])
    BY <1>7, <1>11 DEF ShownLines
  <2>2. \A i \in 1..n : ShownPage(objects, tree[i]) = Page(lines, i)
    <3> SUFFICES ASSUME NEW i \in 1..n
                 PROVE  ShownPage(objects, tree[i]) = Page(lines, i)
      OBVIOUS
    <3>1. tree[i] = 2 * i + 2 /\ objects[2 * i + 2].refs[3] = 2 * i + 3
      BY <1>6, <1>7
    <3> QED
      BY <1>6, <3>1 DEF ShownPage
  <2>3. [i \in 1..n |-> ShownPage(objects, tree[i])] = [i \in 1..PageCount(lines) |-> Page(lines, i)]
    BY <1>1, <2>2
  <2> QED
    BY <2>1, <2>3, PagesMakeLines
<1> QED
  BY <1>2, <1>13, <1>14

(***************************************************************************)
(* Lists, place by place.                                                  *)
(***************************************************************************)
IsList(s) == s \in Seq(Elements(s))

LEMMA ListOfSeq ==
  ASSUME NEW S, NEW s \in Seq(S)
  PROVE  IsList(s)
<1>1. Len(s) \in Nat /\ DOMAIN s = 1..Len(s) /\ s = [i \in 1..Len(s) |-> s[i]]
  OBVIOUS
<1>2. \A i \in 1..Len(s) : s[i] \in Elements(s)
  BY <1>1 DEF Elements
<1> QED
  BY <1>1, <1>2 DEF IsList

LEMMA ListOfPlaces ==
  ASSUME NEW n \in Nat, NEW s, s = [i \in 1..n |-> s[i]]
  PROVE  IsList(s)
<1>1. \A i \in 1..n : s[i] \in Elements(s)
  BY DEF Elements
<1>2. s \in [1..n -> Elements(s)]
  BY <1>1
<1> QED
  BY <1>2 DEF IsList

LEMMA JoinedList ==
  ASSUME NEW a, NEW b, IsList(a), IsList(b)
  PROVE  IsList(a \o b)
<1>1. PICK T : T = Elements(a) \cup Elements(b)
  OBVIOUS
<1>2. a \in Seq(T) /\ b \in Seq(T)
  BY <1>1 DEF IsList
<1>3. a \o b \in Seq(T)
  BY <1>2
<1> QED
  BY <1>3, ListOfSeq

\* A list over the places of a list.
LEMMA SamePlaces ==
  ASSUME NEW s, IsList(s), NEW f, f = [i \in DOMAIN s |-> f[i]]
  PROVE  IsList(f)
<1>1. Len(s) \in Nat /\ DOMAIN s = 1..Len(s)
  BY DEF IsList
<1> QED
  BY <1>1, ListOfPlaces

\* A list over some of the places of a list.
LEMMA SomePlaces ==
  ASSUME NEW s, IsList(s), NEW places \in SUBSET DOMAIN s,
         NEW f, f = [i \in 1..Cardinality(places) |-> f[i]]
  PROVE  IsList(f)
<1>1. Len(s) \in Nat /\ DOMAIN s = 1..Len(s)
  BY DEF IsList
<1>2. IsFiniteSet(places)
  <2>1. IsFiniteSet(1..Len(s))
    BY <1>1, FS_Interval
  <2> QED
    BY <1>1, <2>1, FS_Subset
<1>3. Cardinality(places) \in Nat
  BY <1>2, FS_CardinalityType
<1> QED
  BY <1>3, ListOfPlaces

(***************************************************************************)
(* The part of a report whose lines have a tag.                            *)
(***************************************************************************)
Without(s, tag) == \A i \in DOMAIN s : s[i].tag # tag
AllWith(s, tag) == \A i \in DOMAIN s : s[i].tag = tag

LEMMA PlacesOfJoin ==
  ASSUME NEW a, IsList(a), NEW b, IsList(b)
  PROVE  /\ Len(a) \in Nat /\ Len(b) \in Nat
         /\ DOMAIN a = 1..Len(a) /\ DOMAIN b = 1..Len(b)
         /\ DOMAIN (a \o b) = 1..(Len(a) + Len(b)) /\ Len(a \o b) = Len(a) + Len(b)
         /\ \A i \in 1..Len(a) : (a \o b)[i] = a[i]
         /\ \A i \in (Len(a) + 1)..(Len(a) + Len(b)) : (a \o b)[i] = b[i - Len(a)]
<1>1. PICK T : T = Elements(a) \cup Elements(b)
  OBVIOUS
<1>2. a \in Seq(T) /\ b \in Seq(T)
  BY <1>1 DEF IsList
<1> QED
  BY <1>2

LEMMA JoinWithout ==
  ASSUME NEW a, IsList(a), NEW b, IsList(b), NEW tag, Without(a, tag), Without(b, tag)
  PROVE  Without(a \o b, tag)
<1>1. PICK L : L = a \o b
  OBVIOUS
<1>2. /\ Len(a) \in Nat /\ Len(b) \in Nat
      /\ DOMAIN a = 1..Len(a) /\ DOMAIN b = 1..Len(b) /\ DOMAIN L = 1..(Len(a) + Len(b))
      /\ \A i \in 1..Len(a) : L[i] = a[i]
      /\ \A i \in (Len(a) + 1)..(Len(a) + Len(b)) : L[i] = b[i - Len(a)]
  BY <1>1, PlacesOfJoin
<1>3. ASSUME NEW i \in DOMAIN L
      PROVE  L[i].tag # tag
  <2>1. CASE i \in 1..Len(a)
    BY <1>2, <2>1 DEF Without
  <2>2. CASE i \in (Len(a) + 1)..(Len(a) + Len(b))
    <3>1. i - Len(a) \in DOMAIN b
      BY <1>2, <2>2
    <3> QED
      BY <1>2, <2>2, <3>1 DEF Without
  <2> QED
    BY <1>2, <2>1, <2>2
<1> QED
  BY <1>1, <1>3 DEF Without

\* The lines with a tag are the lines of one part, after n others.
IsPart(mid, L, n, tag) ==
  /\ n \in Nat /\ DOMAIN mid \subseteq Nat /\ IsFiniteSet(DOMAIN mid)
  /\ {i \in DOMAIN L : L[i].tag = tag} = {n + k : k \in DOMAIN mid}
  /\ \A k \in DOMAIN mid : L[n + k] = mid[k]

LEMMA TaggedPart ==
  ASSUME NEW pre, IsList(pre), NEW mid, IsList(mid), NEW post, IsList(post), NEW tag,
         Without(pre, tag), AllWith(mid, tag), Without(post, tag),
         NEW L, L = pre \o mid \o post
  PROVE  IsPart(mid, L, Len(pre), tag)
<1>1. PICK M : M = pre \o mid
  OBVIOUS
<1>2. /\ Len(pre) \in Nat /\ Len(mid) \in Nat
      /\ DOMAIN pre = 1..Len(pre) /\ DOMAIN mid = 1..Len(mid)
      /\ DOMAIN M = 1..(Len(pre) + Len(mid)) /\ Len(M) = Len(pre) + Len(mid)
      /\ \A i \in 1..Len(pre) : M[i] = pre[i]
      /\ \A i \in (Len(pre) + 1)..(Len(pre) + Len(mid)) : M[i] = mid[i - Len(pre)]
  BY <1>1, PlacesOfJoin
<1>3. IsList(M)
  BY <1>1, JoinedList
<1>4. /\ Len(post) \in Nat /\ DOMAIN post = 1..Len(post)
      /\ DOMAIN L = 1..(Len(M) + Len(post))
      /\ \A i \in 1..Len(M) : L[i] = M[i]
      /\ \A i \in (Len(M) + 1)..(Len(M) + Len(post)) : L[i] = post[i - Len(M)]
  <2>1. L = M \o post
    BY <1>1
  <2> QED
    BY <1>3, <2>1, PlacesOfJoin
<1>5. \A k \in DOMAIN mid : Len(pre) + k \in DOMAIN L /\ L[Len(pre) + k] = mid[k]
  <2> SUFFICES ASSUME NEW k \in DOMAIN mid
               PROVE  Len(pre) + k \in DOMAIN L /\ L[Len(pre) + k] = mid[k]
    OBVIOUS
  <2>1. PICK i : i = Len(pre) + k
    OBVIOUS
  <2>2. k \in Nat /\ i \in (Len(pre) + 1)..(Len(pre) + Len(mid)) /\ i - Len(pre) = k
        /\ i \in 1..Len(M) /\ i \in 1..(Len(M) + Len(post))
    BY <1>2, <1>4, <2>1
  <2>3. L[i] = M[i] /\ M[i] = mid[k]
    BY <1>2, <1>4, <2>2
  <2> QED
    BY <1>4, <2>1, <2>2, <2>3
<1>6. ASSUME NEW i \in DOMAIN L, L[i].tag = tag
      PROVE  \E k \in DOMAIN mid : i = Len(pre) + k
  <2>1. CASE i \in 1..Len(pre)
    <3>1. L[i] = pre[i]
      BY <1>2, <1>4, <2>1
    <3> QED
      BY <1>2, <1>6, <2>1, <3>1 DEF Without
  <2>2. CASE i \in (Len(pre) + 1)..(Len(pre) + Len(mid))
    <3>1. i - Len(pre) \in DOMAIN mid /\ i = Len(pre) + (i - Len(pre))
      BY <1>2, <2>2
    <3> QED
      BY <3>1
  <2>3. CASE i \in (Len(M) + 1)..(Len(M) + Len(post))
    <3>1. L[i] = post[i - Len(M)] /\ i - Len(M) \in DOMAIN post
      BY <1>2, <1>4, <2>3
    <3> QED
      BY <1>6, <3>1 DEF Without
  <2>4. i \in 1..(Len(pre) + Len(mid) + Len(post))
    BY <1>2, <1>4
  <2> QED
    BY <1>2, <1>4, <2>1, <2>2, <2>3, <2>4
<1>7. \A k \in DOMAIN mid : mid[k].tag = tag
  BY DEF AllWith
<1>8. {i \in DOMAIN L : L[i].tag = tag} = {Len(pre) + k : k \in DOMAIN mid}
  BY <1>5, <1>6, <1>7
<1>9. IsFiniteSet(DOMAIN mid) /\ DOMAIN mid \subseteq Nat
  <2>1. 1 \in Int /\ Len(mid) \in Int
    BY <1>2
  <2>2. IsFiniteSet(1..Len(mid))
    BY <2>1, FS_Interval
  <2> QED
    BY <1>2, <2>2
<1> QED
  BY <1>2, <1>5, <1>8, <1>9 DEF IsPart

(***************************************************************************)
(* Lists that have the entries of another one.                             *)
(***************************************************************************)
\* How often each value occurs at some places.
TallyAt(v, P) == [x \in {v[i] : i \in P} |-> Cardinality({i \in P : v[i] = x})]

LEMMA RestrictedBijection ==
  ASSUME NEW S, NEW T, NEW b \in Bijection(S, T), NEW K \in SUBSET S, NEW G \in SUBSET T,
         \A k \in S : k \in K <=> b[k] \in G
  PROVE  [k \in K |-> b[k]] \in Bijection(K, G)
<1>1. /\ b \in [S -> T]
      /\ \A i, j \in S : b[i] = b[j] => i = j
      /\ \A x \in T : \E k \in S : b[k] = x
  BY DEF Bijection, Injection, Surjection, IsInjective
<1>2. PICK c : c = [k \in K |-> b[k]]
  OBVIOUS
<1>3. c \in [K -> G]
  BY <1>1, <1>2
<1>4. \A i, j \in K : c[i] = c[j] => i = j
  BY <1>1, <1>2
<1>5. \A x \in G : \E k \in K : c[k] = x
  BY <1>1, <1>2
<1>6. c \in Bijection(K, G)
  BY <1>3, <1>4, <1>5 DEF Bijection, Injection, Surjection, IsInjective
<1> QED
  BY <1>2, <1>6

\* Entries that come one by one from places where the same is told tell the
\* same, and as often.
LEMMA EqualTallies ==
  ASSUME NEW P, NEW Q, IsFiniteSet(Q), NEW v, NEW w, NEW b \in Bijection(P, Q),
         \A i \in P : v[i] = w[b[i]]
  PROVE  TallyAt(v, P) = TallyAt(w, Q)
<1>1. /\ b \in [P -> Q]
      /\ \A x \in Q : \E k \in P : b[k] = x
  BY DEF Bijection, Injection, Surjection
<1>2. {v[i] : i \in P} = {w[i] : i \in Q}
  BY <1>1
<1>3. ASSUME NEW x
      PROVE  Cardinality({i \in P : v[i] = x}) = Cardinality({i \in Q : w[i] = x})
  <2>1. PICK K, G : K = {i \in P : v[i] = x} /\ G = {i \in Q : w[i] = x}
    OBVIOUS
  <2>2. /\ K \in SUBSET P /\ G \in SUBSET Q
        /\ \A k \in P : k \in K <=> b[k] \in G
    BY <1>1, <2>1
  <2>3. ExistsBijection(K, G)
    BY <2>2, RestrictedBijection DEF ExistsBijection
  <2>4. IsFiniteSet(G) /\ ExistsBijection(G, K)
    BY <2>2, <2>3, FS_Subset, Fun_ExistsBijSymmetric
  <2>5. Cardinality(K) = Cardinality(G)
    BY <2>4, FS_Bijection
  <2> QED
    BY <2>1, <2>5
<1> QED
  BY <1>2, <1>3 DEF TallyAt

\* A strict total order.
Orders(Before, S) ==
  /\ \A x \in S : <<x, x>> \notin Before
  /\ \A x, y, z \in S : <<x, y>> \in Before /\ <<y, z>> \in Before => <<x, z>> \in Before
  /\ \A x, y \in S : x # y => <<x, y>> \in Before \/ <<y, x>> \in Before

\* Three numbers, one after the other, and then the place.
IsLexical(Before, D, a, b, c) ==
  \A x, y \in D : <<x, y>> \in Before <=>
    \/ a[x] < a[y]
    \/ a[x] = a[y] /\ b[x] < b[y]
    \/ a[x] = a[y] /\ b[x] = b[y] /\ c[x] < c[y]
    \/ a[x] = a[y] /\ b[x] = b[y] /\ c[x] = c[y] /\ x < y

LEMMA LexicalOrder ==
  ASSUME NEW D \in SUBSET Nat, NEW a \in [D -> Nat], NEW b \in [D -> Nat], NEW c \in [D -> Nat],
         NEW Before, IsLexical(Before, D, a, b, c)
  PROVE  Orders(Before, D)
<1>1. \A x \in D : x \in Nat /\ a[x] \in Nat /\ b[x] \in Nat /\ c[x] \in Nat
  OBVIOUS
<1>2. \A x \in D : <<x, x>> \notin Before
  BY <1>1 DEF IsLexical
<1>3. ASSUME NEW x \in D, NEW y \in D, NEW z \in D, <<x, y>> \in Before, <<y, z>> \in Before
      PROVE  <<x, z>> \in Before
  BY <1>1, <1>3 DEF IsLexical
<1>4. ASSUME NEW x \in D, NEW y \in D, x # y
      PROVE  <<x, y>> \in Before \/ <<y, x>> \in Before
  BY <1>1, <1>4 DEF IsLexical
<1> QED
  BY <1>2, <1>3, <1>4 DEF Orders

LEMMA PairsPrecede ==
  ASSUME NEW a, NEW b, NEW d, NEW e
  PROVE  Precedes(<<a, b>>, <<d, e>>) <=>
           \/ Rank[a] < Rank[d]
           \/ a = d /\ Rank[b] < Rank[e]
<1>1. PICK s, t : s = <<a, b>> /\ t = <<d, e>>
  OBVIOUS
<1>2. /\ DOMAIN s = {1, 2} /\ s[1] = a /\ s[2] = b /\ t[1] = d /\ t[2] = e
      /\ 1..(1 - 1) = {} /\ 1..(2 - 1) = {1}
  BY <1>1
<1>3. Precedes(s, t) <=> \/ Rank[a] < Rank[d]
                         \/ a = d /\ Rank[b] < Rank[e]
  BY <1>2 DEF Precedes
<1> QED
  BY <1>1, <1>3

LEMMA TriplesPrecede ==
  ASSUME NEW a, NEW b, NEW c, NEW d, NEW e, NEW f
  PROVE  Precedes(<<a, b, c>>, <<d, e, f>>) <=>
           \/ Rank[a] < Rank[d]
           \/ a = d /\ Rank[b] < Rank[e]
           \/ a = d /\ b = e /\ Rank[c] < Rank[f]
<1>1. PICK s, t : s = <<a, b, c>> /\ t = <<d, e, f>>
  OBVIOUS
<1>2. /\ DOMAIN s = {1, 2, 3}
      /\ s[1] = a /\ s[2] = b /\ s[3] = c /\ t[1] = d /\ t[2] = e /\ t[3] = f
      /\ 1..(1 - 1) = {} /\ 1..(2 - 1) = {1} /\ 1..(3 - 1) = {1, 2}
  BY <1>1
<1>3. Precedes(s, t) <=> \/ Rank[a] < Rank[d]
                         \/ a = d /\ Rank[b] < Rank[e]
                         \/ a = d /\ b = e /\ Rank[c] < Rank[f]
  BY <1>2 DEF Precedes
<1> QED
  BY <1>1, <1>3

\* A list that has the entries of another from some places, each place once.
DrawsFrom(t, s, P) ==
  /\ P \subseteq DOMAIN s
  /\ \E b \in Bijection(1..Cardinality(P), P) : t = [n \in 1..Cardinality(P) |-> s[b[n]]]

LEMMA OrderDraws ==
  ASSUME NEW s, NEW P \in SUBSET DOMAIN s, IsFiniteSet(P), NEW Before, Orders(Before, P),
         NEW order, IsOrderOf(order, P, Before)
  PROVE  DrawsFrom([n \in 1..Cardinality(P) |-> s[order[n]]], s, P)
<1>1. order \in Bijection(1..Cardinality(P), P)
  BY OrderedIsBijection DEF Orders
<1> QED
  BY <1>1 DEF DrawsFrom

\* Keeping the entries at some places, in order.
Chosen(t, K) == MapSeq(Ordered(K, <), LAMBDA i : t[i])

LEMMA SomeDraw ==
  ASSUME NEW t, NEW N \in Nat, DOMAIN t = 1..N, NEW K \in SUBSET DOMAIN t
  PROVE  DrawsFrom(Chosen(t, K), t, K)
<1>1. K \subseteq Nat /\ IsFiniteSet(K)
  <2>1. 1 \in Int /\ N \in Int
    OBVIOUS
  <2>2. IsFiniteSet(1..N)
    BY <2>1, FS_Interval
  <2> QED
    BY <2>2, FS_Subset
<1>2. PICK Before : Before = {p \in K \X K : p[1] < p[2]}
  OBVIOUS
<1>3. \A x, y \in K : <<x, y>> \in Before <=> x < y
  BY <1>2
<1>4. Orders(Before, K)
  BY <1>1, <1>3 DEF Orders
<1>5. PICK order : order = [n \in 1..Cardinality(K) |->
                              (CHOOSE p \in {<<Cardinality({y \in K : y < x}) + 1, x>> : x \in K}
                                 : p[1] = n)[2]]
  OBVIOUS
<1>6. Chosen(t, K) = [n \in 1..Cardinality(K) |-> t[order[n]]]
  BY <1>5 DEF Chosen, MapSeq, Ordered
<1>7. IsOrderOf(order, K, Before)
  <2>1. \A x \in K : {y \in K : y < x} = EarlierIn(K, Before, x)
    BY <1>3 DEF EarlierIn
  <2>2. PICK told : told = {<<Cardinality({y \in K : y < x}) + 1, x>> : x \in K}
    OBVIOUS
  <2>3. told = {<<Cardinality(EarlierIn(K, Before, x)) + 1, x>> : x \in K}
    BY <2>1, <2>2
  <2>4. order = [n \in 1..Cardinality(K) |-> (CHOOSE p \in told : p[1] = n)[2]]
    BY <1>5, <2>2
  <2> QED
    BY <2>3, <2>4 DEF IsOrderOf
<1>8. DrawsFrom([n \in 1..Cardinality(K) |-> t[order[n]]], t, K)
  BY <1>1, <1>4, <1>7, OrderDraws
<1> QED
  BY <1>6, <1>8

\* What is kept of a list that draws from another draws from it, too.
LEMMA KeptDraws ==
  ASSUME NEW s, NEW P, IsFiniteSet(P), NEW t, DrawsFrom(t, s, P), NEW K \in SUBSET DOMAIN t,
         NEW G \in SUBSET P, NEW u, DrawsFrom(u, t, K),
         \A n \in DOMAIN t, i \in P : t[n] = s[i] => (n \in K <=> i \in G)
  PROVE  DrawsFrom(u, s, G)
<1>1. PICK b \in Bijection(1..Cardinality(P), P) : t = [n \in 1..Cardinality(P) |-> s[b[n]]]
  BY DEF DrawsFrom
<1>2. PICK c \in Bijection(1..Cardinality(K), K) : u = [n \in 1..Cardinality(K) |-> t[c[n]]]
  BY DEF DrawsFrom
<1>3. DOMAIN t = 1..Cardinality(P) /\ b \in [1..Cardinality(P) -> P]
  BY <1>1 DEF Bijection, Injection
<1>4. c \in [1..Cardinality(K) -> K]
  BY <1>2 DEF Bijection, Injection
<1>5. \A k \in 1..Cardinality(P) : k \in K <=> b[k] \in G
  BY <1>1, <1>3
<1>6. PICK d : d = [k \in K |-> b[k]]
  OBVIOUS
<1>7. d \in Bijection(K, G)
  <2>1. PICK S : S = 1..Cardinality(P)
    OBVIOUS
  <2>2. /\ b \in Bijection(S, P) /\ K \in SUBSET S /\ G \in SUBSET P
        /\ \A k \in S : k \in K <=> b[k] \in G
    BY <1>3, <1>5, <2>1
  <2>3. [k \in K |-> b[k]] \in Bijection(K, G)
    BY <2>2, RestrictedBijection
  <2> QED
    BY <1>6, <2>3
<1>8. PICK e : e = [n \in 1..Cardinality(K) |-> d[c[n]]]
  OBVIOUS
<1>9. e \in Bijection(1..Cardinality(K), G)
  BY <1>2, <1>7, <1>8, Fun_BijTransitive
<1>10. Cardinality(K) = Cardinality(G)
  <2>1. IsFiniteSet(K)
    <3>1. Cardinality(P) \in Nat /\ 1 \in Int /\ Cardinality(P) \in Int
      BY FS_CardinalityType
    <3>2. IsFiniteSet(1..Cardinality(P))
      BY <3>1, FS_Interval
    <3> QED
      BY <1>3, <3>2, FS_Subset
  <2>2. ExistsBijection(K, G)
    BY <1>7 DEF ExistsBijection
  <2> QED
    BY <2>1, <2>2, FS_Bijection
<1>11. u = [n \in 1..Cardinality(G) |-> s[e[n]]]
  <2>1. \A n \in 1..Cardinality(K) : t[c[n]] = s[e[n]]
    BY <1>1, <1>3, <1>4, <1>6, <1>8
  <2> QED
    BY <1>2, <1>10, <2>1
<1>12. G \subseteq DOMAIN s
  BY DEF DrawsFrom
<1> QED
  BY <1>9, <1>10, <1>11, <1>12 DEF DrawsFrom

\* A list drawn from the places P of another tells at the places K what the
\* other one tells at the places G.
TellsAlike(t, s, P, K, G, v, w) ==
  \A n \in DOMAIN t, i \in P :
    t[n] = s[i] => (n \in K <=> i \in G) /\ (n \in K => v[n] = w[i])

LEMMA DrawnTally ==
  ASSUME NEW s, NEW P, IsFiniteSet(P), NEW t, DrawsFrom(t, s, P),
         NEW K \in SUBSET DOMAIN t, NEW G \in SUBSET P, NEW v, NEW w, TellsAlike(t, s, P, K, G, v, w)
  PROVE  TallyAt(v, K) = TallyAt(w, G)
<1>1. PICK b \in Bijection(1..Cardinality(P), P) : t = [n \in 1..Cardinality(P) |-> s[b[n]]]
  BY DEF DrawsFrom
<1>2. PICK S : S = DOMAIN t
  OBVIOUS
<1>3. S = 1..Cardinality(P) /\ b \in [S -> P] /\ P \subseteq DOMAIN s
  BY <1>1, <1>2 DEF Bijection, Injection, DrawsFrom
<1>4. \A n \in S : t[n] = s[b[n]] /\ b[n] \in P
  BY <1>1, <1>3
<1>5. \A n \in S : (n \in K <=> b[n] \in G) /\ (n \in K => v[n] = w[b[n]])
  BY <1>2, <1>3, <1>4 DEF TellsAlike
<1>6. [k \in K |-> b[k]] \in Bijection(K, G)
  <2>1. /\ b \in Bijection(S, P) /\ K \in SUBSET S
        /\ \A k \in S : k \in K <=> b[k] \in G
    BY <1>1, <1>2, <1>3, <1>5
  <2> QED
    BY <2>1, RestrictedBijection
<1>7. PICK d : d = [k \in K |-> b[k]]
  OBVIOUS
<1>8. d \in Bijection(K, G) /\ \A k \in K : v[k] = w[d[k]]
  BY <1>2, <1>5, <1>6, <1>7
<1>9. IsFiniteSet(G)
  BY FS_Subset
<1> QED
  BY <1>8, <1>9, EqualTallies

-----------------------------------------------------------------------------
(***************************************************************************)
(* Reports: what the lines with a tag say, and how often with a status.    *)
(***************************************************************************)
TagsOf(s)              == {s[n].tag : n \in DOMAIN s}
Lined(s, tag, status)  == {n \in DOMAIN s : s[n].tag = tag /\ s[n].status = status}
SaidAs(s, tag, status) == {s[n].what : n \in Lined(s, tag, status)}
Said(s, tag)           == {s[n].what : n \in {n \in DOMAIN s : s[n].tag = tag}}

\* Two reports tell the same under a tag.
TellsTheSame(L, s, tag) ==
  /\ Said(L, tag) = Said(s, tag)
  /\ \A status : SaidAs(L, tag, status) = SaidAs(s, tag, status)
  /\ \A status : Cardinality(Lined(L, tag, status)) = Cardinality(Lined(s, tag, status))

\* What a joined list has at its places, without the list itself.
IsJoin(L, a, b) ==
  /\ DOMAIN a \subseteq Nat /\ IsFiniteSet(DOMAIN a) /\ IsFiniteSet(DOMAIN b)
  /\ \E k \in Nat :
       /\ \A n \in DOMAIN a : n <= k
       /\ \A n \in DOMAIN b : n \in Nat /\ n > 0
       /\ DOMAIN L = DOMAIN a \cup {k + n : n \in DOMAIN b}
       /\ \A n \in DOMAIN a : L[n] = a[n]
       /\ \A n \in DOMAIN b : L[k + n] = b[n]

LEMMA JoinIsJoin ==
  ASSUME NEW a, IsList(a), NEW b, IsList(b)
  PROVE  IsJoin(a \o b, a, b)
<1>1. PICK L : L = a \o b
  OBVIOUS
<1>2. /\ Len(a) \in Nat /\ Len(b) \in Nat
      /\ DOMAIN a = 1..Len(a) /\ DOMAIN b = 1..Len(b) /\ DOMAIN L = 1..(Len(a) + Len(b))
      /\ \A i \in 1..Len(a) : L[i] = a[i]
      /\ \A i \in (Len(a) + 1)..(Len(a) + Len(b)) : L[i] = b[i - Len(a)]
  BY <1>1, PlacesOfJoin
<1>3. PICK k, m : k = Len(a) /\ m = Len(b)
  OBVIOUS
<1>4. k \in Nat /\ m \in Nat /\ DOMAIN a = 1..k /\ DOMAIN b = 1..m /\ DOMAIN L = 1..(k + m)
  BY <1>2, <1>3
<1>5. IsFiniteSet(1..k) /\ IsFiniteSet(1..m)
  <2>1. 1 \in Int /\ k \in Int /\ m \in Int
    BY <1>4
  <2> QED
    BY <2>1, FS_Interval
<1>6. DOMAIN L = DOMAIN a \cup {k + n : n \in DOMAIN b}
  <2>1. ASSUME NEW i \in 1..(k + m)
        PROVE  i \in 1..k \/ \E n \in 1..m : i = k + n
    <3>1. CASE i <= k
      BY <1>4, <3>1
    <3>2. CASE i > k
      <4>1. i - k \in 1..m /\ i = k + (i - k)
        BY <1>4, <3>2
      <4> QED
        BY <4>1
    <3> QED
      BY <1>4, <3>1, <3>2
  <2>2. \A i \in 1..k : i \in 1..(k + m)
    BY <1>4
  <2>3. \A n \in 1..m : k + n \in 1..(k + m)
    BY <1>4
  <2> QED
    BY <1>4, <2>1, <2>2, <2>3
<1>7. \A n \in DOMAIN b : L[k + n] = b[n]
  <2>1. \A n \in 1..m : k + n \in (k + 1)..(k + m) /\ (k + n) - k = n
    BY <1>4
  <2> QED
    BY <1>2, <1>3, <1>4, <2>1
<1>8. /\ \A n \in DOMAIN a : n <= k /\ n \in Nat
      /\ \A n \in DOMAIN b : n \in Nat /\ n > 0
  BY <1>4
<1>9. \A n \in DOMAIN a : L[n] = a[n]
  BY <1>2
<1>10. IsFiniteSet(DOMAIN a) /\ IsFiniteSet(DOMAIN b) /\ k \in Nat
  BY <1>4, <1>5
<1>11. IsJoin(L, a, b)
  BY <1>6, <1>7, <1>8, <1>9, <1>10 DEF IsJoin
<1> QED
  BY <1>1, <1>11

LEMMA JoinTags ==
  ASSUME NEW a, IsList(a), NEW b, IsList(b)
  PROVE  TagsOf(a \o b) = TagsOf(a) \cup TagsOf(b)
<1>1. PICK L : L = a \o b
  OBVIOUS
<1>2. IsJoin(L, a, b)
  BY <1>1, JoinIsJoin
<1>3. TagsOf(L) = TagsOf(a) \cup TagsOf(b)
  BY <1>2 DEF IsJoin, TagsOf
<1> QED
  BY <1>1, <1>3

LEMMA JoinSays ==
  ASSUME NEW a, IsList(a), NEW b, IsList(b), NEW tag
  PROVE  /\ Said(a \o b, tag) = Said(a, tag) \cup Said(b, tag)
         /\ \A status : SaidAs(a \o b, tag, status)
                          = SaidAs(a, tag, status) \cup SaidAs(b, tag, status)
<1>1. PICK L : L = a \o b
  OBVIOUS
<1>2. IsJoin(L, a, b)
  BY <1>1, JoinIsJoin
<1>3. Said(L, tag) = Said(a, tag) \cup Said(b, tag)
  BY <1>2 DEF IsJoin, Said
<1>4. ASSUME NEW status
      PROVE  SaidAs(L, tag, status) = SaidAs(a, tag, status) \cup SaidAs(b, tag, status)
  BY <1>2 DEF IsJoin, SaidAs, Lined
<1> QED
  BY <1>1, <1>3, <1>4

\* The lines of a list with a tag and a status are finitely many.
LEMMA LinedIsFinite ==
  ASSUME NEW s, IsList(s), NEW tag, NEW status
  PROVE  IsFiniteSet(Lined(s, tag, status)) /\ Cardinality(Lined(s, tag, status)) \in Nat
<1>1. IsFiniteSet(DOMAIN s)
  BY JoinIsJoin DEF IsJoin
<1>2. Lined(s, tag, status) \in SUBSET DOMAIN s
  BY DEF Lined
<1>3. IsFiniteSet(Lined(s, tag, status))
  BY <1>1, <1>2, FS_Subset
<1> QED
  BY <1>3, FS_CardinalityType

\* The places of the second part of a joined list, moved behind the first.
LEMMA MovedPlaces ==
  ASSUME NEW D, D \subseteq Nat, IsFiniteSet(D), NEW k \in Nat
  PROVE  /\ IsFiniteSet({k + n : n \in D})
         /\ Cardinality({k + n : n \in D}) = Cardinality(D)
<1>1. PICK M : M = {k + n : n \in D}
  OBVIOUS
<1>2. PICK f : f = [n \in D |-> k + n]
  OBVIOUS
<1>3. f \in [D -> M] /\ \A x \in M : \E n \in D : f[n] = x
  BY <1>1, <1>2
<1>4. f \in Bijection(D, M)
  <2>1. \A i, j \in D : f[i] = f[j] => i = j
    BY <1>2
  <2> QED
    BY <1>3, <2>1 DEF Bijection, Injection, Surjection, IsInjective
<1>5. ExistsBijection(D, M)
  BY <1>4 DEF ExistsBijection
<1>6. IsFiniteSet(M) /\ Cardinality(M) = Cardinality(D)
  BY <1>5, FS_Bijection
<1> QED
  BY <1>1, <1>6

LEMMA JoinCounts ==
  ASSUME NEW a, IsList(a), NEW b, IsList(b), NEW tag, NEW status
  PROVE  Cardinality(Lined(a \o b, tag, status))
           = Cardinality(Lined(a, tag, status)) + Cardinality(Lined(b, tag, status))
<1>1. PICK L : L = a \o b
  OBVIOUS
<1>2. IsJoin(L, a, b)
  BY <1>1, JoinIsJoin
<1>3. PICK k \in Nat :
        /\ \A n \in DOMAIN a : n <= k
        /\ \A n \in DOMAIN b : n \in Nat /\ n > 0
        /\ DOMAIN L = DOMAIN a \cup {k + n : n \in DOMAIN b}
        /\ \A n \in DOMAIN a : L[n] = a[n]
        /\ \A n \in DOMAIN b : L[k + n] = b[n]
  BY <1>2 DEF IsJoin
<1>4. PICK A, B, M : /\ A = Lined(a, tag, status) /\ B = Lined(b, tag, status)
                     /\ M = {k + n : n \in B}
  OBVIOUS
<1>5. Lined(L, tag, status) = A \cup M
  BY <1>3, <1>4 DEF Lined
<1>6. A \cap M = {}
  <2>1. \A n \in A : n \in Nat /\ n <= k
    BY <1>2, <1>3, <1>4 DEF Lined, IsJoin
  <2>2. \A n \in B : n \in Nat /\ n > 0
    BY <1>3, <1>4 DEF Lined
  <2> QED
    BY <1>4, <2>1, <2>2
<1>7. IsFiniteSet(A) /\ IsFiniteSet(B)
  BY <1>4, LinedIsFinite
<1>8. IsFiniteSet(M) /\ Cardinality(M) = Cardinality(B)
  <2>1. B \subseteq Nat
    BY <1>3, <1>4 DEF Lined
  <2> QED
    BY <1>4, <1>7, <2>1, MovedPlaces
<1>9. Cardinality(A \cup M) = Cardinality(A) + Cardinality(M)
  <2>1. /\ Cardinality(A \cup M) = Cardinality(A) + Cardinality(M) - Cardinality(A \cap M)
        /\ Cardinality(A) \in Nat /\ Cardinality(M) \in Nat
    BY <1>7, <1>8, FS_Union, FS_CardinalityType
  <2>2. Cardinality(A \cap M) = 0
    BY <1>6, FS_EmptySet
  <2> QED
    BY <2>1, <2>2
<1> QED
  BY <1>1, <1>4, <1>5, <1>8, <1>9

\* A part without the tag tells nothing under it.
LEMMA OtherTags ==
  ASSUME NEW s, NEW tag, tag \notin TagsOf(s)
  PROVE  /\ Said(s, tag) = {}
         /\ \A status : SaidAs(s, tag, status) = {}
         /\ \A status : Cardinality(Lined(s, tag, status)) = 0
<1>1. \A n \in DOMAIN s : s[n].tag # tag
  BY DEF TagsOf
<1>2. Said(s, tag) = {}
  BY <1>1 DEF Said
<1>3. \A status : Lined(s, tag, status) = {}
  BY <1>1 DEF Lined
<1>4. \A status : SaidAs(s, tag, status) = {}
  BY <1>3 DEF SaidAs
<1> QED
  BY <1>2, <1>3, <1>4, FS_EmptySet

LEMMA FirstPartTells ==
  ASSUME NEW a, IsList(a), NEW b, IsList(b), NEW tag, tag \notin TagsOf(b)
  PROVE  TellsTheSame(a \o b, a, tag)
<1>1. PICK L : L = a \o b
  OBVIOUS
<1>2. Said(L, tag) = Said(a, tag) /\ \A status : SaidAs(L, tag, status) = SaidAs(a, tag, status)
  <2>1. /\ Said(L, tag) = Said(a, tag) \cup Said(b, tag)
        /\ \A status : SaidAs(L, tag, status) = SaidAs(a, tag, status) \cup SaidAs(b, tag, status)
    BY <1>1, JoinSays
  <2>2. Said(b, tag) = {} /\ \A status : SaidAs(b, tag, status) = {}
    BY OtherTags
  <2> QED
    BY <2>1, <2>2
<1>3. ASSUME NEW status
      PROVE  Cardinality(Lined(L, tag, status)) = Cardinality(Lined(a, tag, status))
  <2>1. Cardinality(Lined(L, tag, status))
          = Cardinality(Lined(a, tag, status)) + Cardinality(Lined(b, tag, status))
    BY <1>1, JoinCounts
  <2>2. Cardinality(Lined(b, tag, status)) = 0 /\ Cardinality(Lined(a, tag, status)) \in Nat
    BY OtherTags, LinedIsFinite
  <2> QED
    BY <2>1, <2>2
<1> QED
  BY <1>1, <1>2, <1>3 DEF TellsTheSame

LEMMA LastPartTells ==
  ASSUME NEW a, IsList(a), NEW b, IsList(b), NEW tag, tag \notin TagsOf(a)
  PROVE  TellsTheSame(a \o b, b, tag)
<1>1. PICK L : L = a \o b
  OBVIOUS
<1>2. Said(L, tag) = Said(b, tag) /\ \A status : SaidAs(L, tag, status) = SaidAs(b, tag, status)
  <2>1. /\ Said(L, tag) = Said(a, tag) \cup Said(b, tag)
        /\ \A status : SaidAs(L, tag, status) = SaidAs(a, tag, status) \cup SaidAs(b, tag, status)
    BY <1>1, JoinSays
  <2>2. Said(a, tag) = {} /\ \A status : SaidAs(a, tag, status) = {}
    BY OtherTags
  <2> QED
    BY <2>1, <2>2
<1>3. ASSUME NEW status
      PROVE  Cardinality(Lined(L, tag, status)) = Cardinality(Lined(b, tag, status))
  <2>1. Cardinality(Lined(L, tag, status))
          = Cardinality(Lined(a, tag, status)) + Cardinality(Lined(b, tag, status))
    BY <1>1, JoinCounts
  <2>2. Cardinality(Lined(a, tag, status)) = 0 /\ Cardinality(Lined(b, tag, status)) \in Nat
    BY OtherTags, LinedIsFinite
  <2> QED
    BY <2>1, <2>2
<1> QED
  BY <1>1, <1>2, <1>3 DEF TellsTheSame

\* One line for each member of a set, in some order: what the members say, and
\* how many of them have a status.
AreLinesOf(s, G, u, tag, what, status) ==
  s = [n \in 1..Cardinality(G) |-> [tag |-> tag, what |-> what[u[n]], status |-> status[u[n]]]]

LEMMA LinesTell ==
  ASSUME NEW G, IsFiniteSet(G), NEW u \in Bijection(1..Cardinality(G), G),
         NEW tag, NEW what, NEW status, NEW s, AreLinesOf(s, G, u, tag, what, status)
  PROVE  /\ IsList(s) /\ TagsOf(s) \subseteq {tag}
         /\ Said(s, tag) = {what[x] : x \in G}
         /\ \A st : SaidAs(s, tag, st) = {what[x] : x \in {x \in G : status[x] = st}}
         /\ \A st : Cardinality(Lined(s, tag, st)) = Cardinality({x \in G : status[x] = st})
<1>1. PICK D : D = 1..Cardinality(G)
  OBVIOUS
<1>2. /\ u \in Bijection(D, G) /\ u \in [D -> G]
      /\ \A x \in G : \E n \in D : u[n] = x
      /\ DOMAIN s = D
      /\ \A n \in D : s[n].tag = tag /\ s[n].what = what[u[n]] /\ s[n].status = status[u[n]]
  BY <1>1 DEF AreLinesOf, Bijection, Injection, Surjection
<1>3. IsList(s)
  <2>1. Cardinality(G) \in Nat
    BY FS_CardinalityType
  <2>2. PICK n \in Nat : n = Cardinality(G)
    BY <2>1
  <2>3. s = [i \in 1..n |-> s[i]]
    BY <2>2 DEF AreLinesOf
  <2> QED
    BY <2>3, ListOfPlaces
<1>4. TagsOf(s) \subseteq {tag}
  BY <1>2 DEF TagsOf
<1>5. Said(s, tag) = {what[x] : x \in G}
  BY <1>2 DEF Said
<1>6. ASSUME NEW st
      PROVE  /\ SaidAs(s, tag, st) = {what[x] : x \in {x \in G : status[x] = st}}
             /\ Cardinality(Lined(s, tag, st)) = Cardinality({x \in G : status[x] = st})
  <2>1. PICK K, H : K = Lined(s, tag, st) /\ H = {x \in G : status[x] = st}
    OBVIOUS
  <2>2. /\ K \in SUBSET D /\ H \in SUBSET G
        /\ \A n \in D : n \in K <=> u[n] \in H
    BY <1>2, <2>1 DEF Lined
  <2>3. {s[n].what : n \in K} = {what[x] : x \in H}
    BY <1>2, <2>2
  <2>4. [n \in K |-> u[n]] \in Bijection(K, H)
    BY <1>2, <2>2, RestrictedBijection
  <2>5. IsFiniteSet(H)
    BY <2>2, FS_Subset
  <2>6. ExistsBijection(K, H)
    BY <2>4 DEF ExistsBijection
  <2>7. ExistsBijection(H, K)
    BY <2>6, Fun_ExistsBijSymmetric
  <2>8. Cardinality(K) = Cardinality(H)
    BY <2>5, <2>7, FS_Bijection
  <2> QED
    BY <2>1, <2>3, <2>8 DEF SaidAs
<1> QED
  BY <1>3, <1>4, <1>5, <1>6

\* What is kept of a list that has every member of a set once has every member
\* that passes once.
LEMMA ChosenOnce ==
  ASSUME NEW S, IsFiniteSet(S), NEW t \in Bijection(1..Cardinality(S), S),
         NEW G \in SUBSET S, NEW K, K = {i \in DOMAIN t : t[i] \in G}
  PROVE  /\ Chosen(t, K) \in Bijection(1..Cardinality(G), G)
         /\ Cardinality(K) = Cardinality(G)
<1>1. PICK D : D = 1..Cardinality(S)
  OBVIOUS
<1>2. t \in Bijection(D, S) /\ t \in [D -> S] /\ Cardinality(S) \in Nat
  BY <1>1, FS_CardinalityType DEF Bijection, Injection
<1>3. K \in SUBSET D /\ \A n \in D : n \in K <=> t[n] \in G
  BY <1>2
<1>4. PICK d : d = [n \in K |-> t[n]]
  OBVIOUS
<1>5. d \in Bijection(K, G)
  <2>1. [n \in K |-> t[n]] \in Bijection(K, G)
    BY <1>2, <1>3, RestrictedBijection
  <2> QED
    BY <1>4, <2>1
<1>6. DrawsFrom(Chosen(t, K), t, K)
  <2>1. PICK N \in Nat : N = Cardinality(S)
    BY <1>2
  <2>2. DOMAIN t = 1..N /\ K \in SUBSET DOMAIN t
    BY <1>1, <1>2, <1>3, <2>1
  <2> QED
    BY <2>2, SomeDraw
<1>7. PICK b \in Bijection(1..Cardinality(K), K) :
        Chosen(t, K) = [n \in 1..Cardinality(K) |-> t[b[n]]]
  BY <1>6 DEF DrawsFrom
<1>8. PICK e : e = [n \in 1..Cardinality(K) |-> d[b[n]]]
  OBVIOUS
<1>9. e \in Bijection(1..Cardinality(K), G)
  <2>1. PICK C : C = 1..Cardinality(K)
    OBVIOUS
  <2>2. b \in Bijection(C, K)
    BY <1>7, <2>1
  <2>3. [n \in C |-> d[b[n]]] \in Bijection(C, G)
    BY ONLY <1>5, <2>2, Fun_BijTransitive
  <2> QED
    BY <1>8, <2>1, <2>3
<1>10. Chosen(t, K) = e
  <2>1. b \in [1..Cardinality(K) -> K]
    BY <1>7 DEF Bijection, Injection
  <2>2. \A n \in 1..Cardinality(K) : t[b[n]] = d[b[n]]
    BY <1>4, <2>1
  <2> QED
    BY <1>7, <1>8, <2>2
<1>11. Cardinality(K) = Cardinality(G)
  <2>1. IsFiniteSet(G)
    BY FS_Subset
  <2>2. ExistsBijection(G, K)
    BY <1>5, Fun_ExistsBijSymmetric DEF ExistsBijection
  <2> QED
    BY <2>1, <2>2, FS_Bijection
<1> QED
  BY <1>9, <1>10, <1>11

\* Members with two ids each, of which the second is theirs alone.
LEMMA PairsOrder ==
  ASSUME NEW S, NEW a, NEW b,
         \A x \in S : a[x] \in DOMAIN Rank /\ b[x] \in DOMAIN Rank,
         \A x, y \in S : b[x] = b[y] => x = y,
         NEW Before,
         \A x, y \in S : <<x, y>> \in Before <=> Precedes(<<a[x], b[x]>>, <<a[y], b[y]>>)
  PROVE  Orders(Before, S)
<1>1. \A x \in S : Rank[a[x]] \in Nat /\ Rank[b[x]] \in Nat
  BY RankOrders
<1>2. \A x, y \in S : <<x, y>> \in Before <=>
        Rank[a[x]] < Rank[a[y]] \/ (a[x] = a[y] /\ Rank[b[x]] < Rank[b[y]])
  <2> SUFFICES ASSUME NEW x \in S, NEW y \in S
               PROVE  <<x, y>> \in Before <=>
                        Rank[a[x]] < Rank[a[y]] \/ (a[x] = a[y] /\ Rank[b[x]] < Rank[b[y]])
    OBVIOUS
  <2>1. PICK p, q, v, w : p = a[x] /\ q = b[x] /\ v = a[y] /\ w = b[y]
    OBVIOUS
  <2>2. Precedes(<<p, q>>, <<v, w>>) <=> \/ Rank[p] < Rank[v]
                                         \/ p = v /\ Rank[q] < Rank[w]
    BY PairsPrecede
  <2>3. <<x, y>> \in Before <=> Precedes(<<p, q>>, <<v, w>>)
    BY <2>1
  <2> QED
    BY <2>1, <2>2, <2>3
<1>3. \A x, y \in S : /\ Rank[a[x]] = Rank[a[y]] => a[x] = a[y]
                      /\ Rank[b[x]] = Rank[b[y]] => x = y
  BY RankOrders
<1>4. \A x \in S : <<x, x>> \notin Before
  BY <1>1, <1>2
<1>5. ASSUME NEW x \in S, NEW y \in S, NEW z \in S, <<x, y>> \in Before, <<y, z>> \in Before
      PROVE  <<x, z>> \in Before
  BY <1>1, <1>2, <1>5
<1>6. ASSUME NEW x \in S, NEW y \in S, x # y
      PROVE  <<x, y>> \in Before \/ <<y, x>> \in Before
  <2>1. Rank[b[x]] # Rank[b[y]] /\ Rank[b[x]] \in Nat /\ Rank[b[y]] \in Nat
    BY <1>1, <1>3, <1>6
  <2>2. Rank[a[x]] = Rank[a[y]] => a[x] = a[y]
    BY <1>3
  <2>3. Rank[a[x]] \in Nat /\ Rank[a[y]] \in Nat
    BY <1>1
  <2>4. CASE a[x] = a[y]
    BY <1>2, <2>1, <2>4
  <2>5. CASE a[x] # a[y]
    <3>1. Rank[a[x]] < Rank[a[y]] \/ Rank[a[y]] < Rank[a[x]]
      BY <2>2, <2>3, <2>5
    <3> QED
      BY <1>2, <3>1
  <2> QED
    BY <2>4, <2>5
<1> QED
  BY <1>4, <1>5, <1>6 DEF Orders

\* Members with an id each that is theirs alone.
LEMMA IdsOrder ==
  ASSUME NEW S, S \subseteq DOMAIN Rank, NEW Before,
         \A x, y \in S : <<x, y>> \in Before <=> Precedes(<<x>>, <<y>>)
  PROVE  Orders(Before, S)
<1>1. \A x, y \in S : <<x, y>> \in Before <=> Rank[x] < Rank[y]
  BY SingleIdsPrecede
<1>2. \A x \in S : Rank[x] \in Nat
  BY RankOrders
<1>3. \A x, y \in S : Rank[x] = Rank[y] => x = y
  BY RankOrders
<1> QED
  BY <1>1, <1>2, <1>3 DEF Orders

=============================================================================
