----------------------------- MODULE SignedJson -----------------------------
(***************************************************************************)
(* The signed JSON export (signed_json.rs): the payload as a function of a *)
(* corpus, the document around it, and the verification of a document as   *)
(* it arrives, edited or not.                                              *)
(*                                                                         *)
(* Ed25519 and SHA-256 are external and symbolic: a public key stands for  *)
(* its seed, and a signature is a record of who signed what, so that it    *)
(* holds for nothing else.  The canonical encoding writes every value in   *)
(* one way; `form` says how the text of a document differs from it, since  *)
(* the scanning verifier reads the text and not a parsed value.            *)
(***************************************************************************)
EXTENDS Matrix

Absent        == "absent"
SchemaVersion == "1"
Algorithm     == "Ed25519"

-----------------------------------------------------------------------------
(***************************************************************************)
(* The payload.                                                            *)
(***************************************************************************)

\* Not the code: ties between two frameworks keep the order of the corpus.
UnframedResultOrder(results) == StableSort(results, ReportingKey)

\* Control, rule, then framework; a result without a framework comes first.
OrderedScopedResults(results) ==
  StableSort(results, LAMBDA r : <<r.control_id, r.rule_id, r.framework_id>>)

\* The parts of the id, which the text joins with colons.
DerivedId(r) ==
  IF r.framework_id = Blank THEN <<r.control_id, r.rule_id>>
                            ELSE <<r.framework_id, r.control_id, r.rule_id>>

ResultMember(r) ==
  [id |-> DerivedId(r), framework |-> r.framework_id, control |-> r.control_id,
   rule |-> r.rule_id, status |-> r.status]

GapMember(c, r) ==
  [id |-> DerivedId(r), framework |-> r.framework_id, control |-> r.control_id,
   rule |-> r.rule_id, status |-> r.status,
   reference |-> GapReference(c.controls, r),
   source    |-> FrameworkSource(c.frameworks, r.framework_id)]

\* Not the code: a failed result is a gap also without a framework.
GapMembersOfAnyScope(c) ==
  MapSeq(Kept(OrderedScopedResults(c.results), LAMBDA r : IsGapStatus(r.status)),
         LAMBDA r : GapMember(c, r))

GapMembers(c) ==
  MapSeq(Kept(OrderedScopedResults(c.results), IsGap), LAMBDA r : GapMember(c, r))

EvidenceMember(e) ==
  [id |-> e.id, integrity |-> e.digest, locator |-> e.locator,
   redaction |-> RedactionStatus(e.classification)]

Payload(c) ==
  [executed_at |-> c.executed_at, scan |-> c.run_id,
   frameworks  |-> c.frameworks,
   controls    |-> MapSeq(c.controls, LAMBDA k : k.control_id),
   results     |-> MapSeq(OrderedScopedResults(c.results), ResultMember),
   gaps        |-> GapMembers(c),
   evidence    |-> MapSeq(c.evidence, EvidenceMember),
   scores      |-> ScoringInput(c)]

-----------------------------------------------------------------------------
(***************************************************************************)
(* The document.                                                           *)
(***************************************************************************)
PublicKey(seed)      == seed
KeyFingerprint(seed) == <<"sha256", seed>>

\* Not the code: a signature over the payload and the schema version alone.
SignedPayloadOnly(d) == [m \in {"schema_version", "payload"} |-> d[m]]

\* What the signature covers: every member but itself, and the text's form.
SignedMembers(d) == [m \in DOMAIN d \ {"signature"} |-> d[m]]

\* A signature over the members of d, written in hexadecimal digits.
Sign(seed, d) == <<[by |-> seed, of |-> SignedMembers(d), hex |-> "lower"]>>
Unsigned      == <<>>

\* export: the members, then the signature over them.
SignedDocument(c, seed) ==
  LET members == [form |-> "canonical", schema_version |-> SchemaVersion, payload |-> Payload(c),
                  algorithm |-> Algorithm, key_id |-> KeyFingerprint(seed),
                  public_key |-> PublicKey(seed), signature |-> Unsigned]
  IN  [members EXCEPT !.signature = Sign(seed, members)]

\* How the text of a document may come back: unchanged, indented by another
\* tool, or compact with something around or between the members.
Forms == {"canonical", "indented", "rearranged"}

\* The readers look for `"member":{` without a space in between.
IsCompact(d) == d.form # "indented"

DeclaredSchemaVersion(d) == IF IsCompact(d) THEN d.schema_version ELSE Absent
DeclaredAlgorithm(d)     == IF IsCompact(d) THEN d.algorithm ELSE Absent
EmbeddedPublicKey(d)     == IF IsCompact(d) THEN d.public_key ELSE Absent

\* Removing the signature from the text gives back what was signed; the case
\* of the hexadecimal digits of the signature itself does not matter.
Verifies(d) ==
  /\ EmbeddedPublicKey(d) = PublicKey(d.signature[1].by)
  /\ d.signature[1].of = SignedMembers(d)

VerifySignature(d) ==
  IF d.signature = Unsigned THEN "invalid signature"
  ELSE IF EmbeddedPublicKey(d) = Absent THEN "missing verification key"
  ELSE IF Verifies(d) THEN "valid" ELSE "invalid signature"

Verify(d) ==
  IF DeclaredSchemaVersion(d) # SchemaVersion THEN "unsupported version"
  ELSE IF DeclaredAlgorithm(d) # Algorithm THEN "unsupported algorithm"
  ELSE VerifySignature(d)

=============================================================================
