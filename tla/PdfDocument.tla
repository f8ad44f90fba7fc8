----------------------------- MODULE PdfDocument -----------------------------
(***************************************************************************)
(* The PDF writer of report.rs, and the PDF export of a corpus.            *)
(*                                                                         *)
(* A document is its list of objects in the order they are written.  An    *)
(* object is known to the reader by the position the cross-reference table *)
(* gives it, and to the writer by the number it was written with; the      *)
(* writer computes the numbers, the page tree and the table separately.    *)
(* Fonts, boxes, escapes and byte counts are left out.                     *)
(***************************************************************************)
EXTENDS Matrix

CONSTANT LinesPerPage

ASSUME LinesPerPageIsPositive == LinesPerPage \in Nat \ {0}

FixedObjects == 3

\* paginate_lines: chunks of a page, and one empty page when there are no lines.
PageCount(lines) ==
  IF lines = <<>> THEN 1 ELSE (Len(lines) + LinesPerPage - 1) \div LinesPerPage

SmallerOf(a, b) == IF a < b THEN a ELSE b

Page(lines, index) ==
  SubSeq(lines, (index - 1) * LinesPerPage + 1, SmallerOf(index * LinesPerPage, Len(lines)))

\* The numbers of the page and of its content, by the index of the page.
PageObject(index)    == FixedObjects + 1 + 2 * (index - 1)

\* Not the code: the first content follows the last page.
ContentAfterAllPages(index) == FixedObjects + 1 + index

ContentObject(index) == PageObject(index) + 1

(***************************************************************************)
(* The objects, as written: catalog, page tree, font, then page and        *)
(* content by turns.                                                       *)
(***************************************************************************)
PdfObjects(lines) ==
  LET pages == PageCount(lines)
      tree  == [number |-> 2, kind |-> "pages",
                refs |-> [i \in 1..pages |-> PageObject(i)], text |-> <<>>]
      fixed == <<[number |-> 1, kind |-> "catalog", refs |-> <<2>>, text |-> <<>>],
                 tree,
                 [number |-> 3, kind |-> "font", refs |-> <<>>, text |-> <<>>]>>
      PageAt(i)    == [number |-> PageObject(i), kind |-> "page",
                       refs |-> <<2, 3, ContentObject(i)>>, text |-> <<>>]
      ContentAt(i) == [number |-> ContentObject(i), kind |-> "content", refs |-> <<>>,
                       text |-> Page(lines, i)]
  IN  fixed \o FlattenSeq([i \in 1..pages |-> <<PageAt(i), ContentAt(i)>>])

(***************************************************************************)
(* The document as a reader sees it: entry n of the table is the n-th      *)
(* object written, so a reference n leads to objects[n].                   *)
(***************************************************************************)
ShownPage(objects, n) == objects[objects[n].refs[3]].text

ShownLines(objects) ==
  LET kids == objects[objects[1].refs[1]].refs
  IN  FlattenSeq([i \in DOMAIN kids |-> ShownPage(objects, kids[i])])

IsReadable(objects) ==
  /\ \A n \in DOMAIN objects : objects[n].number = n
  /\ \A n \in DOMAIN objects : \A r \in Elements(objects[n].refs) : r \in DOMAIN objects
  /\ objects[1].kind = "catalog" /\ objects[objects[1].refs[1]].kind = "pages"
  /\ \A k \in Elements(objects[objects[1].refs[1]].refs) :
       objects[k].kind = "page" /\ objects[objects[k].refs[3]].kind = "content"

-----------------------------------------------------------------------------
(***************************************************************************)
(* `export`: the lines of a corpus.  Its gaps are all the failed and       *)
(* warned results, with or without a framework.                            *)
(***************************************************************************)
ResultLine(tag, r) ==
  [tag |-> tag, framework |-> r.framework_id, control |-> r.control_id, rule |-> r.rule_id,
   status |-> r.status]

Heading(text)  == [tag |-> "heading", text |-> text]
IdLine(tag, id) == [tag |-> tag, text |-> id]

CorpusLines(c) ==
  LET ordered == StableSort(c.results, LAMBDA r : <<r.control_id, r.rule_id, r.framework_id>>)
  IN  <<Heading("Sovri PDF compliance report"), IdLine("run", c.run_id)>>
        \o MapSeq(c.frameworks, LAMBDA f : IdLine("framework", f.framework_id))
        \o MapSeq(c.controls,   LAMBDA k : IdLine("control", k.control_id))
        \o MapSeq(c.evidence,   LAMBDA e : IdLine("evidence", e.id))
        \o <<Heading("Results")>> \o MapSeq(ordered, LAMBDA r : ResultLine("result", r))
        \o <<Heading("Gaps")>>
        \o MapSeq(Kept(ordered, LAMBDA r : IsGapStatus(r.status)),
                  LAMBDA r : ResultLine("gap", r))

=============================================================================
