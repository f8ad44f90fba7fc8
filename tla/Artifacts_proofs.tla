--------------------------- MODULE Artifacts_proofs ---------------------------
(***************************************************************************)
(* Theorems about Artifacts: a verdict is valid exactly for what somebody  *)
(* signed, redaction survives the way through the database, a reader of    *)
(* the PDF finds every line of the report, and the formats tell the same.  *)
(***************************************************************************)
EXTENDS Artifacts, PdfDocument_proofs

(***************************************************************************)
(* Documents.                                                              *)
(***************************************************************************)
Members == {"form", "schema_version", "payload", "algorithm", "key_id", "public_key", "signature"}

Signature(c, seed, hex) ==
  <<[by |-> seed, of |-> SignedMembers(SignedDocument(c, seed)), hex |-> hex]>>

\* A document on its way: it has its members, and its signature, if it has
\* one, is that of an export, however it is spelled.
IsCarried(d) ==
  /\ d = [m \in Members |-> d[m]]
  /\ \/ d.signature = Unsigned
     \/ \E c \in {corpus, rebuilt}, seed \in Seeds, hex \in {"lower", "upper"} :
          d.signature = Signature(c, seed, hex)

CarriedInv ==
  /\ stage \in {"exported", "verified"} => IsCarried(document)
  /\ stage = "verified" => verdict = Verify(document)

\* An export member by member: the signature is over the other members.
LEMMA SignedMemberByMember ==
  ASSUME NEW c, NEW seed, NEW E, E = SignedDocument(c, seed)
  PROVE  /\ E = [m \in Members |-> E[m]]
         /\ E.form = "canonical" /\ E.schema_version = SchemaVersion
         /\ E.algorithm = Algorithm /\ E.public_key = seed
         /\ E.signature = Signature(c, seed, "lower")
<1> DEFINE members == [form |-> "canonical", schema_version |-> SchemaVersion,
                       payload |-> Payload(c), algorithm |-> Algorithm,
                       key_id |-> KeyFingerprint(seed), public_key |-> PublicKey(seed),
                       signature |-> Unsigned]
<1>1. PICK M : M = members
  OBVIOUS
<1>2. PICK S : S = Sign(seed, M)
  OBVIOUS
<1>3. E = [M EXCEPT !.signature = S]
  BY <1>1, <1>2 DEF SignedDocument
<1>4. /\ DOMAIN M = Members
      /\ M.form = "canonical" /\ M.schema_version = SchemaVersion
      /\ M.algorithm = Algorithm /\ M.public_key = seed
  BY <1>1 DEF Members, PublicKey
<1> HIDE DEF members
<1>5. /\ E = [m \in Members |-> E[m]] /\ DOMAIN E = Members
      /\ E.form = "canonical" /\ E.schema_version = SchemaVersion
      /\ E.algorithm = Algorithm /\ E.public_key = seed
      /\ E.signature = S
      /\ \A m \in Members \ {"signature"} : E[m] = M[m]
  <2>1. M = [m \in Members |-> M[m]]
    BY <1>1, <1>4 DEF members, Members
  <2> QED
    BY <2>1, <1>3, <1>4 DEF Members
<1>6. SignedMembers(E) = SignedMembers(M)
  BY <1>4, <1>5 DEF SignedMembers
<1>7. S = Signature(c, seed, "lower")
  BY <1>2, <1>6 DEF Sign, Signature
<1> QED
  BY <1>5, <1>7

\* Respelling changes nothing but the spelling of the signature.
LEMMA RespelledMembers ==
  ASSUME NEW d, d = [m \in Members |-> d[m]],
         NEW c, NEW seed, NEW hex, d.signature = Signature(c, seed, hex)
  PROVE  Respelled(d) = [m \in Members |-> IF m = "signature" THEN Signature(c, seed, "lower")
                                                              ELSE d[m]]
<1>1. PICK S : S = [by |-> seed, of |-> SignedMembers(SignedDocument(c, seed)), hex |-> hex]
  OBVIOUS
<1>2. d.signature = <<S>> /\ d.signature # Unsigned
  BY <1>1 DEF Signature, Unsigned
<1>3. Signature(c, seed, "lower") = <<[S EXCEPT !.hex = "lower"]>>
  BY <1>1 DEF Signature
<1>4. PICK T : T = [S EXCEPT !.hex = "lower"]
  OBVIOUS
<1>5. [d.signature EXCEPT ![1] = T] = <<T>>
  BY <1>2
<1>6. Respelled(d) = [d EXCEPT !.signature = [d.signature EXCEPT ![1] = T]]
  BY <1>2, <1>4 DEF Respelled
<1>7. "signature" \in Members
  BY DEF Members
<1> QED
  BY <1>3, <1>4, <1>5, <1>6, <1>7

\* A document that comes back as an export, up to the spelling of the
\* signature, was signed; the other members are those of the export.
LEMMA ComesBack ==
  ASSUME NEW d, IsCarried(d), NEW X, Respelled(d) = X, X.signature # Unsigned
  PROVE  /\ d.signature # Unsigned
         /\ \A m \in Members \ {"signature"} : d[m] = X[m]
         /\ d.signature[1].by = X.signature[1].by
         /\ d.signature[1].of = X.signature[1].of
<1>1. d.signature # Unsigned
  BY DEF Respelled
<1>2. PICK c \in {corpus, rebuilt}, seed \in Seeds, hex \in {"lower", "upper"} :
        d.signature = Signature(c, seed, hex)
  BY <1>1 DEF IsCarried
<1>3. X = [m \in Members |-> IF m = "signature" THEN Signature(c, seed, "lower") ELSE d[m]]
  BY <1>2, RespelledMembers DEF IsCarried
<1>4. X.signature = Signature(c, seed, "lower")
  BY <1>3 DEF Members
<1> QED
  BY <1>1, <1>2, <1>3, <1>4 DEF Signature

\* What verification says yes to is an export.
LEMMA ValidIsExported ==
  ASSUME NEW d, IsCarried(d), Verify(d) = "valid"
  PROVE  Respelled(d) \in Exports
<1>1. d.signature # Unsigned /\ Verifies(d)
  BY DEF Verify, VerifySignature
<1>2. PICK c \in {corpus, rebuilt}, seed \in Seeds, hex \in {"lower", "upper"} :
        d.signature = Signature(c, seed, hex)
  BY <1>1 DEF IsCarried
<1>3. PICK X : X = SignedDocument(c, seed)
  OBVIOUS
<1>4. X = [m \in Members |-> X[m]] /\ X.signature = Signature(c, seed, "lower")
  BY <1>3, SignedMemberByMember
<1>5. SignedMembers(X) = SignedMembers(d)
  BY <1>1, <1>2, <1>3 DEF Verifies, Signature
<1>6. d = [m \in Members |-> d[m]]
  BY DEF IsCarried
<1>7. \A m \in Members \ {"signature"} : d[m] = X[m]
  <2>1. DOMAIN d = Members /\ DOMAIN X = Members
    BY <1>4, <1>6
  <2>2. [m \in Members \ {"signature"} |-> X[m]] = [m \in Members \ {"signature"} |-> d[m]]
    BY <1>5, <2>1 DEF SignedMembers
  <2> QED
    BY <2>2
<1>8. Respelled(d) = [m \in Members |-> IF m = "signature" THEN Signature(c, seed, "lower")
                                                           ELSE d[m]]
  BY <1>2, <1>6, RespelledMembers
<1>9. Respelled(d) = X
  BY <1>4, <1>7, <1>8
<1> QED
  BY <1>3, <1>9 DEF Exports

\* An export is valid, however its signature is spelled.
LEMMA ExportedIsValid ==
  ASSUME NEW d, IsCarried(d), Respelled(d) \in Exports
  PROVE  Verify(d) = "valid"
<1>1. PICK c \in {corpus, rebuilt}, seed \in Seeds : Respelled(d) = SignedDocument(c, seed)
  BY DEF Exports
<1>2. PICK X : X = SignedDocument(c, seed)
  OBVIOUS
<1>3. /\ X = [m \in Members |-> X[m]]
      /\ X.form = "canonical" /\ X.schema_version = SchemaVersion
      /\ X.algorithm = Algorithm /\ X.public_key = seed
      /\ X.signature = Signature(c, seed, "lower")
  BY <1>2, SignedMemberByMember
<1>4. X.signature # Unsigned /\ X.signature[1].by = seed /\ X.signature[1].of = SignedMembers(X)
  <2>1. PICK M : M = SignedMembers(X)
    OBVIOUS
  <2>2. X.signature = <<[by |-> seed, of |-> M, hex |-> "lower"]>>
    BY <1>2, <1>3, <2>1 DEF Signature
  <2> QED
    BY <2>1, <2>2 DEF Unsigned
<1>5. /\ d.signature # Unsigned
      /\ \A m \in Members \ {"signature"} : d[m] = X[m]
      /\ d.signature[1].by = seed /\ d.signature[1].of = SignedMembers(X)
  BY <1>1, <1>2, <1>4, ComesBack
<1>6. d.form = "canonical" /\ d.schema_version = SchemaVersion /\ d.algorithm = Algorithm
      /\ d.public_key = seed
  BY <1>3, <1>5 DEF Members
<1>7. SignedMembers(X) = SignedMembers(d)
  <2>1. DOMAIN d = Members /\ DOMAIN X = Members
    BY <1>3 DEF IsCarried
  <2> QED
    BY <1>5, <2>1 DEF SignedMembers
<1>8. EmbeddedPublicKey(d) = seed /\ seed # Absent
  BY <1>6, SeedsAreKeys DEF EmbeddedPublicKey, IsCompact
<1>9. Verifies(d)
  BY <1>5, <1>7, <1>8 DEF Verifies, PublicKey
<1>10. VerifySignature(d) = "valid"
  BY <1>5, <1>8, <1>9 DEF VerifySignature
<1>11. DeclaredSchemaVersion(d) = SchemaVersion /\ DeclaredAlgorithm(d) = Algorithm
  BY <1>6 DEF DeclaredSchemaVersion, DeclaredAlgorithm, IsCompact
<1> QED
  BY <1>10, <1>11 DEF Verify

\* An export without its key is otherwise as it was.
LEMMA KeylessExport ==
  ASSUME NEW E \in Exports, NEW X, X = [E EXCEPT !.public_key = Absent]
  PROVE  /\ X.form = "canonical" /\ X.schema_version = SchemaVersion
         /\ X.algorithm = Algorithm /\ X.public_key = Absent
         /\ X.signature # Unsigned
<1>1. PICK c \in {corpus, rebuilt}, seed \in Seeds : E = SignedDocument(c, seed)
  BY DEF Exports
<1>2. /\ E = [m \in Members |-> E[m]]
      /\ E.form = "canonical" /\ E.schema_version = SchemaVersion
      /\ E.algorithm = Algorithm
      /\ E.signature = Signature(c, seed, "lower")
  BY <1>1, SignedMemberByMember
<1>3. /\ X.form = "canonical" /\ X.schema_version = SchemaVersion
      /\ X.algorithm = Algorithm /\ X.public_key = Absent
      /\ X.signature = Signature(c, seed, "lower")
  BY <1>2 DEF Members
<1>4. X.signature # Unsigned
  BY <1>3 DEF Signature, Unsigned
<1> QED
  BY <1>3, <1>4

\* A document that comes back as an export without its key is told so.
LEMMA LostKeyIsTold ==
  ASSUME NEW d, IsCarried(d), NEW X, Respelled(d) = X,
         X.form = "canonical", X.schema_version = SchemaVersion, X.algorithm = Algorithm,
         X.public_key = Absent, X.signature # Unsigned
  PROVE  Verify(d) = "missing verification key"
<1>1. /\ d.signature # Unsigned
      /\ \A m \in Members \ {"signature"} : d[m] = X[m]
  BY ComesBack
<1>2. d.form = "canonical" /\ d.schema_version = SchemaVersion /\ d.algorithm = Algorithm
      /\ d.public_key = Absent
  BY <1>1 DEF Members
<1>3. VerifySignature(d) = "missing verification key"
  BY <1>1, <1>2 DEF VerifySignature, EmbeddedPublicKey
<1>4. DeclaredSchemaVersion(d) = SchemaVersion /\ DeclaredAlgorithm(d) = Algorithm
  BY <1>2 DEF DeclaredSchemaVersion, DeclaredAlgorithm, IsCompact
<1> QED
  BY <1>3, <1>4 DEF Verify

-----------------------------------------------------------------------------
(***************************************************************************)
(* The invariant.                                                          *)
(***************************************************************************)

\* The actions before a document is exported leave it alone, and none of them
\* leads to a stage in which it matters.
Untouched == stage' \notin {"exported", "verified"}

LEMMA BeforeExport ==
  ASSUME WithFramework \/ WithControl \/ WithResult \/ WithEvidence
         \/ WriteCompletedCorpus \/ ReconstructExportCorpus
  PROVE  Untouched
<1>1. CASE WithFramework \/ WithControl \/ WithResult \/ WithEvidence
  BY <1>1 DEF WithFramework, WithControl, WithResult, WithEvidence, Add, Untouched
<1>2. CASE WriteCompletedCorpus
  BY <1>2 DEF WriteCompletedCorpus, Untouched
<1>3. CASE ReconstructExportCorpus
  BY <1>3 DEF ReconstructExportCorpus, Untouched
<1> QED
  BY <1>1, <1>2, <1>3

\* Exports carry a signature of their own.
LEMMA ExportsAreCarried ==
  ASSUME NEW E \in Exports
  PROVE  /\ IsCarried(E)
         /\ \E c \in {corpus, rebuilt}, seed \in Seeds : E.signature = Signature(c, seed, "lower")
<1>1. PICK c \in {corpus, rebuilt}, seed \in Seeds : E = SignedDocument(c, seed)
  BY DEF Exports
<1> QED
  BY <1>1, SignedMemberByMember DEF IsCarried

\* Replacing one member by that of an export, or a member other than the
\* signature by anything, leaves a document that is carried.
LEMMA ReplacedMember ==
  ASSUME NEW d, IsCarried(d), NEW m \in Members, NEW value,
         \/ m # "signature"
         \/ value = Unsigned
         \/ \E c \in {corpus, rebuilt}, seed \in Seeds, hex \in {"lower", "upper"} :
              value = Signature(c, seed, hex)
  PROVE  IsCarried([d EXCEPT ![m] = value])
<1>1. PICK e : e = [d EXCEPT ![m] = value]
  OBVIOUS
<1>2. d = [k \in Members |-> d[k]]
  BY DEF IsCarried
<1>3. e = [k \in Members |-> IF k = m THEN value ELSE d[k]]
  BY <1>1, <1>2
<1>4. e = [k \in Members |-> e[k]]
  BY <1>3
<1>5. e.signature = IF m = "signature" THEN value ELSE d.signature
  BY <1>3 DEF Members
<1>6. IsCarried(e)
  BY <1>4, <1>5 DEF IsCarried
<1> QED
  BY <1>1, <1>6

LEMMA RespelledIsCarried ==
  ASSUME NEW d, IsCarried(d), d.signature # Unsigned
  PROVE  IsCarried([d EXCEPT !.signature[1].hex = "upper"])
<1>1. PICK c \in {corpus, rebuilt}, seed \in Seeds, hex \in {"lower", "upper"} :
        d.signature = Signature(c, seed, hex)
  BY DEF IsCarried
<1>2. PICK S : S = [by |-> seed, of |-> SignedMembers(SignedDocument(c, seed)), hex |-> hex]
  OBVIOUS
<1>3. d.signature = <<S>>
  BY <1>1, <1>2 DEF Signature
<1>4. PICK T : T = [S EXCEPT !.hex = "upper"]
  OBVIOUS
<1>5. Signature(c, seed, "upper") = <<T>>
  BY <1>2, <1>4 DEF Signature
<1>6. [d.signature EXCEPT ![1] = T] = Signature(c, seed, "upper")
  BY <1>3, <1>5
<1>7. [d EXCEPT !.signature[1].hex = "upper"] = [d EXCEPT !.signature = Signature(c, seed, "upper")]
  BY <1>3, <1>4, <1>6
<1>8. "signature" \in Members /\ "upper" \in {"lower", "upper"}
  BY DEF Members
<1>9. IsCarried([d EXCEPT !["signature"] = Signature(c, seed, "upper")])
  BY <1>8, ReplacedMember
<1> QED
  BY <1>7, <1>9

\* Every change a document may undergo on its way.
LEMMA EditedIsCarried ==
  ASSUME IsCarried(document), Edit
  PROVE  IsCarried(document')
<1>1. CASE \E form \in Forms : document' = [document EXCEPT !.form = form]
  <2>1. "form" \in Members /\ "form" # "signature"
    BY DEF Members
  <2> QED
    BY <1>1, <2>1, ReplacedMember
<1>2. CASE \E m \in {"schema_version", "algorithm", "public_key"}, value \in {Absent, "other"} :
             document' = [document EXCEPT ![m] = value]
  <2>1. \A m \in {"schema_version", "algorithm", "public_key"} : m \in Members /\ m # "signature"
    BY DEF Members
  <2>2. PICK m \in {"schema_version", "algorithm", "public_key"}, value \in {Absent, "other"} :
          document' = [document EXCEPT ![m] = value]
    BY <1>2
  <2>3. IsCarried([document EXCEPT ![m] = value])
    BY <2>1, ReplacedMember
  <2> QED
    BY <2>2, <2>3
<1>3. CASE document' = [document EXCEPT !.key_id = KeyFingerprint("other")]
  <2>1. "key_id" \in Members /\ "key_id" # "signature"
    BY DEF Members
  <2> QED
    BY <1>3, <2>1, ReplacedMember
<1>4. CASE document' = [document EXCEPT !.signature = Unsigned]
  <2>1. "signature" \in Members
    BY DEF Members
  <2> QED
    BY <1>4, <2>1, ReplacedMember
<1>5. CASE /\ document.signature # Unsigned
           /\ document' = [document EXCEPT !.signature[1].hex = "upper"]
  BY <1>5, RespelledIsCarried
<1>6. CASE \E other \in Exports, m \in {"payload", "key_id", "public_key", "signature"} :
             document' = [document EXCEPT ![m] = other[m]]
  <2>1. PICK other \in Exports, m \in {"payload", "key_id", "public_key", "signature"} :
          document' = [document EXCEPT ![m] = other[m]]
    BY <1>6
  <2>2. m \in Members
    BY DEF Members
  <2>3. m = "signature" => \E c \in {corpus, rebuilt}, seed \in Seeds :
                             other[m] = Signature(c, seed, "lower")
    BY ExportsAreCarried
  <2> QED
    BY <2>1, <2>2, <2>3, ReplacedMember
<1> QED
  BY <1>1, <1>2, <1>3, <1>4, <1>5, <1>6 DEF Edit

LEMMA InitCarried == Init => CarriedInv
BY DEF Init, CarriedInv

LEMMA NextCarried == CarriedInv /\ [Next]_vars => CarriedInv'
<1> SUFFICES ASSUME CarriedInv, [Next]_vars
             PROVE  CarriedInv'
  OBVIOUS
<1>1. CASE WithFramework \/ WithControl \/ WithResult \/ WithEvidence
             \/ WriteCompletedCorpus \/ ReconstructExportCorpus
  BY <1>1, BeforeExport DEF CarriedInv, Untouched
<1>2. CASE ExportSignedJson
  <2>1. IsCarried(document') /\ UNCHANGED <<corpus, rebuilt>>
    BY <1>2, ExportsAreCarried DEF ExportSignedJson
  <2>2. IsCarried(document)'
    BY <2>1 DEF IsCarried
  <2>3. stage' = "exported"
    BY <1>2 DEF ExportSignedJson
  <2> QED
    BY <2>2, <2>3 DEF CarriedInv
<1>3. CASE Edit
  <2>1. stage = "exported" /\ UNCHANGED <<stage, corpus, rebuilt>>
    BY <1>3 DEF Edit
  <2>2. IsCarried(document')
    BY <1>3, <2>1, EditedIsCarried DEF CarriedInv
  <2>3. IsCarried(document)'
    BY <2>1, <2>2 DEF IsCarried
  <2> QED
    BY <2>1, <2>3 DEF CarriedInv
<1>4. CASE VerifyDocument
  <2>1. /\ IsCarried(document) /\ verdict' = Verify(document) /\ stage' = "verified"
        /\ UNCHANGED <<corpus, rebuilt, document>>
    BY <1>4 DEF VerifyDocument, CarriedInv
  <2>2. IsCarried(document)'
    BY <2>1 DEF IsCarried
  <2>3. (verdict = Verify(document))'
    BY <2>1
  <2> QED
    BY <2>2, <2>3 DEF CarriedInv
<1>5. CASE UNCHANGED vars
  <2>1. UNCHANGED <<stage, corpus, rebuilt, document, verdict>>
    BY <1>5 DEF vars
  <2>2. IsCarried(document) => IsCarried(document)'
    BY <2>1 DEF IsCarried
  <2>3. verdict = Verify(document) => (verdict = Verify(document))'
    BY <2>1
  <2> QED
    BY <2>1, <2>2, <2>3 DEF CarriedInv
<1> QED
  BY <1>1, <1>2, <1>3, <1>4, <1>5 DEF Next

\* Between export and verification a document keeps its members, and a
\* signature over an export of this corpus or none: an edit can take
\* a signature away, move it to another document or respell it, but not make
\* one (export and verify of signed_json.rs).
THEOREM DocumentsAreCarried == Spec => []CarriedInv
BY InitCarried, NextCarried, PTL DEF Spec

\* `verify` says yes exactly to the documents that are, member for member
\* and in their text, an export, and tells a lost key from a signature that
\* does not hold, however the document was edited and spliced.
THEOREM VerdictsExact == Spec => []VerdictsAreExact
<1>1. CarriedInv => VerdictsAreExact
  <2> SUFFICES ASSUME CarriedInv, stage = "verified"
               PROVE  /\ verdict = "valid" <=> Respelled(document) \in Exports
                      /\ (\E d \in Exports : Respelled(document) = [d EXCEPT !.public_key = Absent])
                           => verdict = "missing verification key"
    BY DEF VerdictsAreExact
  <2>1. IsCarried(document) /\ verdict = Verify(document)
    BY DEF CarriedInv
  <2>2. verdict = "valid" => Respelled(document) \in Exports
    BY <2>1, ValidIsExported
  <2>3. Respelled(document) \in Exports => verdict = "valid"
    BY <2>1, ExportedIsValid
  <2>4. ASSUME NEW E \in Exports, Respelled(document) = [E EXCEPT !.public_key = Absent]
        PROVE  verdict = "missing verification key"
    <3>1. PICK X : X = [E EXCEPT !.public_key = Absent]
      OBVIOUS
    <3>2. /\ X.form = "canonical" /\ X.schema_version = SchemaVersion
          /\ X.algorithm = Algorithm /\ X.public_key = Absent
          /\ X.signature # Unsigned
      BY <3>1, KeylessExport
    <3>3. Respelled(document) = X
      BY <2>4, <3>1
    <3>4. Verify(document) = "missing verification key"
      BY <2>1, <3>2, <3>3, LostKeyIsTold
    <3> QED
      BY <2>1, <3>4
  <2> QED
    BY <2>2, <2>3, <2>4
<1> QED
  BY <1>1, DocumentsAreCarried, PTL

\* The evidence rows of a run: their key is the evidence id.
IsEvidenceTable(rows) ==
  /\ IsFiniteSet(rows)
  /\ \A x \in rows : x.evidence_id \in DOMAIN Rank
  /\ \A x, y \in rows : x.evidence_id = y.evidence_id => x = y

LEMMA EvidenceInOrder ==
  ASSUME NEW S, IsEvidenceTable(S)
  PROVE  LET s == InOrderOf(S, LAMBDA x : <<x.evidence_id>>)
         IN  DOMAIN s = 1..Cardinality(S) /\ \A n \in DOMAIN s : s[n] \in S
<1> DEFINE Before == {p \in S \X S : Rank[p[1].evidence_id] < Rank[p[2].evidence_id]}
           s == InOrderOf(S, LAMBDA x : <<x.evidence_id>>)
<1>1. \A x, y \in S : <<x, y>> \in Before <=> Rank[x.evidence_id] < Rank[y.evidence_id]
  OBVIOUS
<1>2. \A x \in S : Rank[x.evidence_id] \in Nat
  BY RankOrders DEF IsEvidenceTable
<1> HIDE DEF Before
<1>3. \A x, y \in S : x # y => <<x, y>> \in Before \/ <<y, x>> \in Before
  BY <1>1, <1>2, RankOrders DEF IsEvidenceTable
<1>4. /\ IsFiniteSet(S)
      /\ \A x \in S : <<x, x>> \notin Before
      /\ \A x, y, z \in S : <<x, y>> \in Before /\ <<y, z>> \in Before => <<x, z>> \in Before
      /\ \A x, y \in S : x # y => <<x, y>> \in Before \/ <<y, x>> \in Before
  <2>1. \A x \in S : <<x, x>> \notin Before
    BY <1>1, <1>2
  <2>2. \A x, y, z \in S : <<x, y>> \in Before /\ <<y, z>> \in Before => <<x, z>> \in Before
    BY <1>1, <1>2
  <2>3. IsFiniteSet(S)
    BY DEF IsEvidenceTable
  <2> QED
    BY <1>3, <2>1, <2>2, <2>3
<1>5. \A x, y \in S : Precedes(<<y.evidence_id>>, <<x.evidence_id>>) <=> <<y, x>> \in Before
  BY <1>1, SingleIdsPrecede
<1>6. \A x \in S : {y \in S : Precedes(<<y.evidence_id>>, <<x.evidence_id>>)}
                     = EarlierIn(S, Before, x)
  BY <1>5 DEF EarlierIn
<1>7. s = [n \in 1..Cardinality(S) |->
             (CHOOSE p \in {<<Cardinality({y \in S : Precedes(<<y.evidence_id>>, <<x.evidence_id>>)}) + 1,
                              x>> : x \in S} : p[1] = n)[2]]
  BY DEF InOrderOf, Ordered
<1> HIDE DEF s
<1>8. IsOrderOf(s, S, Before)
  <2>1. PICK told : told = {<<Cardinality({y \in S : Precedes(<<y.evidence_id>>, <<x.evidence_id>>)})
                                + 1, x>> : x \in S}
    OBVIOUS
  <2>2. told = {<<Cardinality(EarlierIn(S, Before, x)) + 1, x>> : x \in S}
    BY <1>6, <2>1
  <2>3. s = [n \in 1..Cardinality(S) |-> (CHOOSE p \in told : p[1] = n)[2]]
    BY <1>7, <2>1
  <2> QED
    BY <2>2, <2>3 DEF IsOrderOf
<1>9. s \in Bijection(1..Cardinality(S), S)
  BY <1>4, <1>8, OrderedIsBijection
<1> QED
  BY <1>9 DEF s, Bijection, Injection

\* What the evidence of a rebuilt corpus is: each record tells a stored row,
\* with its label read back.
LEMMA RebuiltEvidence ==
  ASSUME NEW v, IsEvidenceTable(v.evidence)
  PROVE  /\ Rebuilt(v).run_id = v.run_id
         /\ \A n \in DOMAIN Rebuilt(v).evidence :
              \E x \in v.evidence :
                /\ Rebuilt(v).evidence[n].id = x.evidence_id
                /\ Rebuilt(v).evidence[n].classification = ReadLabel(x.classification)
<1> DEFINE s == InOrderOf(v.evidence, LAMBDA x : <<x.evidence_id>>)
           Told(x) == [id |-> x.evidence_id, digest |-> x.digest, locator |-> x.locator,
                       classification |-> ReadLabel(x.classification)]
<1>1. DOMAIN s = 1..Cardinality(v.evidence) /\ \A n \in DOMAIN s : s[n] \in v.evidence
  BY EvidenceInOrder
<1>2. Rebuilt(v).run_id = v.run_id
  BY DEF Rebuilt
<1>3. Rebuilt(v).evidence = MapSeq(s, LAMBDA x : Told(x))
  BY DEF Rebuilt
<1> HIDE DEF s
<1>4. Rebuilt(v).evidence = [n \in DOMAIN s |-> Told(s[n])]
  BY <1>3 DEF MapSeq
<1>5. ASSUME NEW n \in DOMAIN Rebuilt(v).evidence
      PROVE  \E x \in v.evidence :
               /\ Rebuilt(v).evidence[n].id = x.evidence_id
               /\ Rebuilt(v).evidence[n].classification = ReadLabel(x.classification)
  <2>1. n \in DOMAIN s /\ Rebuilt(v).evidence[n] = Told(s[n])
    BY <1>4
  <2> QED
    BY <1>1, <2>1
<1> QED
  BY <1>2, <1>5

(***************************************************************************)
(* What saving a corpus leaves of its evidence.                            *)
(***************************************************************************)
EvidenceRecord == [id : DOMAIN Rank, digest : STRING, locator : STRING, classification : STRING]

OneRowPerId(metadata) == \A a, b \in metadata : a.id = b.id => a = b

\* The last record of an id is one record.
LEMMA LastRecordIsOne ==
  ASSUME NEW s \in Seq(EvidenceRecord),
         NEW e \in LastOfEachKey(s, IdKey), NEW f \in LastOfEachKey(s, IdKey), e.id = f.id
  PROVE  e = f
<1>1. PICK i \in DOMAIN s : e = s[i] /\ \A j \in DOMAIN s : s[j].id = s[i].id => j <= i
  BY DEF LastOfEachKey, IdKey
<1>2. PICK k \in DOMAIN s : f = s[k] /\ \A j \in DOMAIN s : s[j].id = s[k].id => j <= k
  BY DEF LastOfEachKey, IdKey
<1>3. i <= k /\ k <= i /\ i \in Nat /\ k \in Nat
  BY <1>1, <1>2
<1> QED
  BY <1>1, <1>2, <1>3

LEMMA OneLimit == \A i, k \in Nat : i <= k /\ k <= i => i = k
OBVIOUS

\* Metadata has one row per id when the corpus has taught what it knows.
LEMMA LearnedHasOneRowPerId ==
  ASSUME NEW c, c.evidence \in Seq(EvidenceRecord), OneRowPerId(evidence)
  PROVE  OneRowPerId(Store!Learned(c))
<1> USE DEF Store!Blank, Blank, Store!Elements, Elements
<1> DEFINE ids == {e.id : e \in Elements(c.evidence)}
           Row(id, s, l) == [id |-> id, digest |-> s.digest, locator |-> l,
                             classification |-> s.classification]
<1>1. \A i \in DOMAIN c.evidence : i \in Nat
  OBVIOUS
<1>2. ASSUME NEW id, NEW s \in Store!DigestSource(c, id), NEW t \in Store!DigestSource(c, id)
      PROVE  s = t
  <2> DEFINE dated == {i \in Store!Sightings(c, id) : c.evidence[i].digest # Blank}
  <2>1. CASE dated # {}
    <3>1. PICK i \in dated : s = c.evidence[i] /\ \A j \in dated : j <= i
      BY <1>2, <2>1 DEF Store!DigestSource
    <3>2. PICK k \in dated : t = c.evidence[k] /\ \A j \in dated : j <= k
      BY <1>2, <2>1 DEF Store!DigestSource
    <3>3. i <= k /\ k <= i /\ i \in Nat /\ k \in Nat
      BY <1>1, <3>1, <3>2 DEF Store!Sightings
    <3>4. i = k
      BY <3>3, OneLimit, Zenon
    <3> QED
      BY <3>1, <3>2, <3>4
  <2>2. CASE dated = {} /\ Store!Known(id) # {}
    <3>1. s \in Store!Known(id) /\ t \in Store!Known(id)
      BY <1>2, <2>2 DEF Store!DigestSource
    <3> QED
      BY <3>1 DEF Store!Known, OneRowPerId
  <2>3. CASE dated = {} /\ Store!Known(id) = {}
    <3>1. PICK i \in Store!Sightings(c, id) :
            s = c.evidence[i] /\ \A j \in Store!Sightings(c, id) : i <= j
      BY <1>2, <2>3 DEF Store!DigestSource
    <3>2. PICK k \in Store!Sightings(c, id) :
            t = c.evidence[k] /\ \A j \in Store!Sightings(c, id) : k <= j
      BY <1>2, <2>3 DEF Store!DigestSource
    <3>3. i <= k /\ k <= i /\ i \in Nat /\ k \in Nat
      BY <1>1, <3>1, <3>2 DEF Store!Sightings
    <3>4. i = k
      BY <3>3, OneLimit, Zenon
    <3> QED
      BY <3>1, <3>2, <3>4
  <2> QED
    BY <2>1, <2>2, <2>3
<1>3. ASSUME NEW id, NEW l \in Store!Locators(c, id), NEW m \in Store!Locators(c, id)
      PROVE  l = m
  <2> DEFINE old   == {x.locator : x \in Store!Known(id)} \ {Blank}
             given == {i \in Store!Sightings(c, id) : c.evidence[i].locator # Blank}
  <2>1. CASE old # {}
    <3>1. l \in old /\ m \in old
      BY <1>3, <2>1 DEF Store!Locators
    <3> QED
      BY <3>1 DEF Store!Known, OneRowPerId
  <2>2. CASE old = {} /\ given = {}
    BY <1>3, <2>2 DEF Store!Locators
  <2>3. CASE old = {} /\ given # {}
    <3>1. PICK i \in given : l = c.evidence[i].locator /\ \A j \in given : i <= j
      BY <1>3, <2>3 DEF Store!Locators
    <3>2. PICK k \in given : m = c.evidence[k].locator /\ \A j \in given : k <= j
      BY <1>3, <2>3 DEF Store!Locators
    <3>3. i <= k /\ k <= i /\ i \in Nat /\ k \in Nat
      BY <1>1, <3>1, <3>2 DEF Store!Sightings
    <3>4. i = k
      BY <3>3, OneLimit, Zenon
    <3> QED
      BY <3>1, <3>2, <3>4
  <2> QED
    BY <2>1, <2>2, <2>3
<1>4. ASSUME NEW x \in Store!Learned(c)
      PROVE  \/ x \in evidence /\ x.id \notin ids
             \/ \E id \in ids : \E s \in Store!DigestSource(c, id), l \in Store!Locators(c, id) :
                  x = Row(id, s, l)
  BY <1>4 DEF Store!Learned
<1> SUFFICES ASSUME NEW x \in Store!Learned(c), NEW y \in Store!Learned(c), x.id = y.id
             PROVE  x = y
  BY DEF OneRowPerId
<1>5. CASE x.id \notin ids
  <2>1. x \in evidence /\ y \in evidence
    BY <1>4, <1>5
  <2> QED
    BY <2>1 DEF OneRowPerId
<1>6. CASE x.id \in ids
  <2>1. PICK s \in Store!DigestSource(c, x.id), l \in Store!Locators(c, x.id) : x = Row(x.id, s, l)
    BY <1>4, <1>6
  <2>2. PICK t \in Store!DigestSource(c, x.id), m \in Store!Locators(c, x.id) : y = Row(x.id, t, m)
    BY <1>4, <1>6
  <2>3. s = t /\ l = m
    BY <1>2, <1>3, <2>1, <2>2
  <2> QED
    BY <2>1, <2>2, <2>3
<1> QED
  BY <1>5, <1>6

\* The records whose label a run has to keep.
PinnedRecords(c) ==
  {e \in Elements(c.evidence) : e.classification \in Protected /\ e.digest # Blank}

KeepsProtected(rows, c) ==
  IsTidy(c) => \A e \in PinnedRecords(c), x \in rows :
                 x.evidence_id = e.id => x.classification = e.classification

\* The snapshot of a run has one row per evidence id, which tells the last
\* record of that id; in a tidy corpus that is the only one.
LEMMA SnapshotIsTable ==
  ASSUME NEW c, c.evidence \in Seq(EvidenceRecord), NEW known, OneRowPerId(known)
  PROVE  /\ IsEvidenceTable(Store!Snapshot(c, known))
         /\ \A x \in Store!Snapshot(c, known) : x.run_id = c.run_id
         /\ KeepsProtected(Store!Snapshot(c, known), c)
<1> DEFINE rows == Store!Snapshot(c, known)
           lasts == LastOfEachKey(c.evidence, IdKey)
           Row(e, m) ==
             [run_id |-> c.run_id, evidence_id |-> e.id,
              digest |-> IF e.digest = Blank THEN m.digest ELSE e.digest,
              locator |-> e.locator,
              classification |-> IF e.digest = Blank THEN m.classification ELSE e.classification]
<1>1. rows = UNION {Store!SnapshotRows(known, c.run_id, e) : e \in lasts}
  BY DEF Store!Snapshot, Store!LastOfEachKey, LastOfEachKey, Store!IdKey, IdKey
<1>2. \A e \in lasts :
        Store!SnapshotRows(known, c.run_id, e) = {Row(e, m) : m \in {m \in known : m.id = e.id}}
  BY DEF Store!SnapshotRows, Store!Blank, Blank
<1>3. \A e \in lasts : \E i \in DOMAIN c.evidence : e = c.evidence[i]
  BY DEF LastOfEachKey
<1> HIDE DEF rows, lasts
<1>4. ASSUME NEW x \in rows
      PROVE  \E e \in lasts, m \in known : m.id = e.id /\ x = Row(e, m)
  <2>1. PICK e \in lasts : x \in {Row(e, m) : m \in {m \in known : m.id = e.id}}
    BY <1>1, <1>2
  <2> QED
    BY <2>1
<1>5. \A x \in rows : x.run_id = c.run_id
  BY <1>4
<1>6. \A x \in rows : \E e \in lasts : x.evidence_id = e.id
  BY <1>4
<1>7. \A e \in lasts : e \in EvidenceRecord
  BY <1>3
<1>8. \A x \in rows : x.evidence_id \in DOMAIN Rank
  BY <1>6, <1>7 DEF EvidenceRecord
<1>9. ASSUME NEW x \in rows, NEW y \in rows, x.evidence_id = y.evidence_id
      PROVE  x = y
  <2>1. PICK e \in lasts, m \in known : m.id = e.id /\ x = Row(e, m)
    BY <1>4
  <2>2. PICK f \in lasts, n \in known : n.id = f.id /\ y = Row(f, n)
    BY <1>4
  <2>3. e.id = f.id
    BY <1>9, <2>1, <2>2
  <2>4. e = f
    BY <2>3, LastRecordIsOne DEF lasts
  <2>5. m = n
    BY <2>1, <2>2, <2>4 DEF OneRowPerId
  <2> QED
    BY <2>1, <2>2, <2>4, <2>5
<1>10. IsFiniteSet(rows)
  <2> DEFINE places == 1..Len(c.evidence)
             at == [x \in rows |-> CHOOSE i \in places : c.evidence[i].id = x.evidence_id]
  <2>1. \A x \in rows : \E i \in places : c.evidence[i].id = x.evidence_id
    BY <1>3, <1>6
  <2>2. \A x \in rows : at[x] \in places /\ c.evidence[at[x]].id = x.evidence_id
    BY <2>1
  <2>3. \A x, y \in rows : at[x] = at[y] => x.evidence_id = y.evidence_id
    BY <2>2
  <2>4. at \in Injection(rows, places)
    <3>1. at \in [rows -> places]
      BY <2>2
    <3>2. \A x, y \in rows : at[x] = at[y] => x = y
      BY <1>9, <2>3
    <3> HIDE DEF at
    <3> QED
      BY <3>1, <3>2 DEF Injection, IsInjective
  <2>5. IsFiniteSet(places)
    BY FS_Interval
  <2> HIDE DEF places, at
  <2> QED
    BY <2>4, <2>5, FS_Injection
<1>11. ASSUME IsTidy(c), NEW e \in PinnedRecords(c), NEW x \in rows, x.evidence_id = e.id
       PROVE  x.classification = e.classification
  <2>1. PICK f \in lasts, m \in known : m.id = f.id /\ x = Row(f, m)
    BY <1>4
  <2>2. PICK i \in DOMAIN c.evidence : e = c.evidence[i]
    BY DEF PinnedRecords, Elements
  <2>3. PICK k \in DOMAIN c.evidence : f = c.evidence[k]
    BY <1>3
  <2>4. \A a, b \in DOMAIN c.evidence : c.evidence[a].id = c.evidence[b].id => a = b
    BY <1>11 DEF IsTidy, HasDistinctKeys, IsInjective, MapSeq, IdKey
  <2>5. e = f
    BY <1>11, <2>1, <2>2, <2>3, <2>4
  <2>6. e.digest # Blank
    BY DEF PinnedRecords
  <2> QED
    BY <2>1, <2>5, <2>6
<1>12. KeepsProtected(rows, c)
  BY <1>11 DEF KeepsProtected
<1>13. IsEvidenceTable(rows)
  BY <1>8, <1>9, <1>10 DEF IsEvidenceTable
<1> QED
  BY <1>5, <1>12, <1>13 DEF rows

(***************************************************************************)
(* The invariant of the store.                                             *)
(***************************************************************************)
Assembled == [run_id : {"run"}, executed_at : {"now"},
              frameworks : Seq(FrameworkEntries), controls : Seq(ControlEntries),
              results    : Seq(ResultEntries),    evidence : Seq(EvidenceEntries)]

\* The rows of a saved run are rows of that run.
HoldsItsRows(v) == IsEvidenceTable(v.evidence) /\ \A x \in v.evidence : x.run_id = v.run_id

StoredInv ==
  /\ corpus \in Assembled
  /\ \A v \in saved : HoldsItsRows(v)
  /\ \A v, w \in saved : v.run_id = w.run_id => v = w
  /\ OneRowPerId(evidence)
  /\ stage \in {"saved", "rebuilt"} =>
       \A v \in saved : v.run_id = corpus.run_id => KeepsProtected(v.evidence, corpus)
  /\ stage = "rebuilt" => \E v \in saved : rebuilt = Rebuilt(v)

LEMMA EvidenceIsRecords ==
  ASSUME corpus \in Assembled
  PROVE  corpus.evidence \in Seq(EvidenceRecord)
<1>1. corpus.evidence \in Seq(EvidenceEntries)
  BY DEF Assembled
<1>2. EvidenceEntries \subseteq EvidenceRecord
  BY EntriesAssumption DEF EvidenceRecord
<1> QED
  BY <1>1, <1>2

LEMMA InitStored == Init => StoredInv
<1> SUFFICES ASSUME Init
             PROVE  StoredInv
  OBVIOUS
<1>1. corpus \in Assembled
  <2>1. PICK E : E = EmptyCorpus
    OBVIOUS
  <2>2. /\ E = [k \in {"run_id", "executed_at", "frameworks", "controls", "results", "evidence"}
                 |-> E[k]]
        /\ E.frameworks = <<>> /\ E.controls = <<>> /\ E.results = <<>> /\ E.evidence = <<>>
    BY <2>1 DEF EmptyCorpus
  <2>3. corpus = [E EXCEPT !.run_id = "run", !.executed_at = "now"]
    BY <2>1 DEF Init
  <2>4. corpus = [run_id |-> "run", executed_at |-> "now",
                  frameworks |-> <<>>, controls |-> <<>>, results |-> <<>>, evidence |-> <<>>]
    BY <2>2, <2>3
  <2> QED
    BY <2>4 DEF Assembled
<1>2. saved \subseteq EarlierRuns /\ \A v, w \in saved : v = w
  BY DEF Init
<1>3. \A v \in saved : HoldsItsRows(v)
  BY <1>2, EarlierAssumption DEF HoldsItsRows, IsEvidenceTable
<1>4. OneRowPerId(evidence)
  BY EarlierAssumption DEF Init, OneRowPerId
<1>5. stage = "build"
  BY DEF Init
<1> QED
  BY <1>1, <1>2, <1>3, <1>4, <1>5 DEF StoredInv

\* A builder call adds an entry to one list.
LEMMA AddKeepsStored ==
  ASSUME StoredInv, WithFramework \/ WithControl \/ WithResult \/ WithEvidence
  PROVE  StoredInv'
<1>1. corpus' \in Assembled /\ stage = "build" /\ UNCHANGED <<stage, saved, evidence>>
  <2>1. CASE WithFramework
    <3>1. PICK f \in FrameworkEntries : Add("frameworks", f)
      BY <2>1 DEF WithFramework
    <3>2. corpus' = [corpus EXCEPT !.frameworks = Append(corpus.frameworks, f)]
      BY <3>1 DEF Add
    <3>3. Append(corpus.frameworks, f) \in Seq(FrameworkEntries)
      BY DEF StoredInv, Assembled
    <3>4. corpus' \in Assembled
      BY <3>2, <3>3 DEF StoredInv, Assembled
    <3> QED
      BY <3>1, <3>4 DEF Add
  <2>2. CASE WithControl
    <3>1. PICK k \in ControlEntries : Add("controls", k)
      BY <2>2 DEF WithControl
    <3>2. corpus' = [corpus EXCEPT !.controls = Append(corpus.controls, k)]
      BY <3>1 DEF Add
    <3>3. Append(corpus.controls, k) \in Seq(ControlEntries)
      BY DEF StoredInv, Assembled
    <3>4. corpus' \in Assembled
      BY <3>2, <3>3 DEF StoredInv, Assembled
    <3> QED
      BY <3>1, <3>4 DEF Add
  <2>3. CASE WithResult
    <3>1. PICK r \in ResultEntries : Add("results", r)
      BY <2>3 DEF WithResult
    <3>2. corpus' = [corpus EXCEPT !.results = Append(corpus.results, r)]
      BY <3>1 DEF Add
    <3>3. Append(corpus.results, r) \in Seq(ResultEntries)
      BY DEF StoredInv, Assembled
    <3>4. corpus' \in Assembled
      BY <3>2, <3>3 DEF StoredInv, Assembled
    <3> QED
      BY <3>1, <3>4 DEF Add
  <2>4. CASE WithEvidence
    <3>1. PICK e \in EvidenceEntries : Add("evidence", e)
      BY <2>4 DEF WithEvidence
    <3>2. corpus' = [corpus EXCEPT !.evidence = Append(corpus.evidence, e)]
      BY <3>1 DEF Add
    <3>3. Append(corpus.evidence, e) \in Seq(EvidenceEntries)
      BY DEF StoredInv, Assembled
    <3>4. corpus' \in Assembled
      BY <3>2, <3>3 DEF StoredInv, Assembled
    <3> QED
      BY <3>1, <3>4 DEF Add
  <2> QED
    BY <2>1, <2>2, <2>3, <2>4
<1> QED
  BY <1>1 DEF StoredInv

LEMMA SaveKeepsStored ==
  ASSUME StoredInv, WriteCompletedCorpus
  PROVE  StoredInv'
<1>1. /\ Store!Save(corpus) /\ stage' = "saved" /\ corpus' = corpus
  BY DEF WriteCompletedCorpus
<1>2. corpus \in Assembled /\ corpus.evidence \in Seq(EvidenceRecord)
  BY EvidenceIsRecords DEF StoredInv
<1>3. OneRowPerId(evidence')
  BY <1>1, <1>2, LearnedHasOneRowPerId DEF Store!Save, StoredInv
<1>4. PICK known : known = evidence'
  OBVIOUS
<1>5. PICK v : /\ v.run_id = corpus.run_id /\ v.evidence = Store!Snapshot(corpus, known)
               /\ saved' = {u \in saved : u.run_id # corpus.run_id} \cup {v}
  BY <1>1, <1>4 DEF Store!Save
<1>6. HoldsItsRows(v) /\ KeepsProtected(v.evidence, corpus)
  <2>1. OneRowPerId(known)
    BY <1>3, <1>4
  <2> QED
    BY <1>2, <1>5, <2>1, SnapshotIsTable DEF HoldsItsRows
<1>7. \A u \in saved' : u = v \/ (u \in saved /\ u.run_id # corpus.run_id)
  BY <1>5
<1>8. \A u \in saved' : HoldsItsRows(u)
  BY <1>6, <1>7 DEF StoredInv
<1>9. \A u, w \in saved' : u.run_id = w.run_id => u = w
  BY <1>5, <1>7 DEF StoredInv
<1>10. \A u \in saved' : u.run_id = corpus.run_id => KeepsProtected(u.evidence, corpus)
  BY <1>6, <1>7
<1> QED
  BY <1>1, <1>2, <1>3, <1>8, <1>9, <1>10 DEF StoredInv

LEMMA ReconstructKeepsStored ==
  ASSUME StoredInv, ReconstructExportCorpus
  PROVE  StoredInv'
<1>1. UNCHANGED <<corpus, saved, evidence>>
  BY DEF ReconstructExportCorpus
<1>2. \/ stage' = "unreadable"
      \/ stage' = "rebuilt" /\ \E v \in saved : rebuilt' = Rebuilt(v)
  BY DEF ReconstructExportCorpus
<1>3. \A v \in saved : v.run_id = corpus.run_id => KeepsProtected(v.evidence, corpus)
  <2>1. CASE stage = "saved"
    BY <2>1 DEF StoredInv
  <2>2. CASE Size(corpus) = 0
    <3>1. /\ Len(corpus.frameworks) \in Nat /\ Len(corpus.controls) \in Nat
          /\ Len(corpus.results) \in Nat /\ Len(corpus.evidence) \in Nat
      BY DEF StoredInv, Assembled
    <3>2. Len(corpus.evidence) = 0
      <4>1. PICK a \in Nat, b \in Nat, d \in Nat, e \in Nat :
              /\ a = Len(corpus.frameworks) /\ b = Len(corpus.controls)
              /\ d = Len(corpus.results) /\ e = Len(corpus.evidence)
        BY <3>1
      <4>2. a + b + d + e = 0
        BY <2>2, <4>1 DEF Size
      <4>3. e = 0
        BY <4>2
      <4> QED
        BY <4>1, <4>3
    <3>3. DOMAIN corpus.evidence = {}
      BY <3>2 DEF StoredInv, Assembled
    <3>4. PinnedRecords(corpus) = {}
      BY <3>3 DEF PinnedRecords, Elements
    <3> QED
      BY <3>4 DEF KeepsProtected
  <2> QED
    BY <2>1, <2>2 DEF ReconstructExportCorpus
<1> QED
  BY <1>1, <1>2, <1>3 DEF StoredInv

LEMMA NextStored == StoredInv /\ [Next]_vars => StoredInv'
<1> SUFFICES ASSUME StoredInv, [Next]_vars
             PROVE  StoredInv'
  OBVIOUS
<1>1. CASE WithFramework \/ WithControl \/ WithResult \/ WithEvidence
  BY <1>1, AddKeepsStored
<1>2. CASE WriteCompletedCorpus
  BY <1>2, SaveKeepsStored
<1>3. CASE ReconstructExportCorpus
  BY <1>3, ReconstructKeepsStored
<1>4. CASE ExportSignedJson \/ Edit \/ VerifyDocument
  <2>1. UNCHANGED <<corpus, saved, evidence>> /\ stage' \in {"exported", "verified"}
    BY <1>4 DEF ExportSignedJson, Edit, VerifyDocument
  <2> QED
    BY <2>1 DEF StoredInv
<1>5. CASE UNCHANGED vars
  <2>1. UNCHANGED <<stage, corpus, saved, evidence, rebuilt>>
    BY <1>5 DEF vars
  <2> QED
    BY <2>1 DEF StoredInv
<1> QED
  BY <1>1, <1>2, <1>3, <1>4, <1>5 DEF Next

\* Every saved run has its own evidence rows, one per id, and the rows of the
\* corpus just saved tell its protected records as protected.
THEOREM RowsAreStored == Spec => []StoredInv
BY InitStored, NextStored, PTL DEF Spec

(***************************************************************************)
(* Redaction.                                                              *)
(***************************************************************************)

\* The ids no export of the rebuilt run may show as open.
ClosedIds ==
  {x.evidence_id : x \in {x \in UNION {v.evidence : v \in saved} :
     x.run_id = rebuilt.run_id /\ x.classification # "Unclassified"}}

PinnedIds ==
  IF rebuilt.run_id = corpus.run_id /\ IsTidy(corpus) THEN {e.id : e \in PinnedRecords(corpus)}
                                                      ELSE {}

\* Whatever label a row has, it is read back as protected unless it says
\* that it is not.
LEMMA LabelsReadClosed ==
  ASSUME NEW label, label # "Unclassified"
  PROVE  RedactionStatus(ReadLabel(label)) = "redacted"
BY DEF RedactionStatus, ReadLabel, Protected

LEMMA ClosedRecordsAreRedacted ==
  ASSUME StoredInv, stage = "rebuilt", NEW n \in DOMAIN rebuilt.evidence,
         rebuilt.evidence[n].id \in ClosedIds \cup PinnedIds
  PROVE  RedactionStatus(rebuilt.evidence[n].classification) = "redacted"
<1>1. PICK v \in saved : rebuilt = Rebuilt(v)
  BY DEF StoredInv
<1>2. HoldsItsRows(v)
  BY DEF StoredInv
<1>3. /\ rebuilt.run_id = v.run_id
      /\ \E x \in v.evidence : /\ rebuilt.evidence[n].id = x.evidence_id
                               /\ rebuilt.evidence[n].classification = ReadLabel(x.classification)
  BY <1>1, <1>2, RebuiltEvidence DEF HoldsItsRows
<1>4. PICK x \in v.evidence : /\ rebuilt.evidence[n].id = x.evidence_id
                              /\ rebuilt.evidence[n].classification = ReadLabel(x.classification)
  BY <1>3
<1>5. CASE rebuilt.evidence[n].id \in ClosedIds
  <2>1. PICK w \in saved : \E y \in w.evidence :
          /\ y.run_id = rebuilt.run_id /\ y.classification # "Unclassified"
          /\ y.evidence_id = rebuilt.evidence[n].id
    BY <1>5 DEF ClosedIds
  <2>2. w = v
    BY <1>3, <2>1 DEF StoredInv, HoldsItsRows
  <2>3. x.classification # "Unclassified"
    BY <1>2, <1>4, <2>1, <2>2 DEF HoldsItsRows, IsEvidenceTable
  <2> QED
    BY <1>4, <2>3, LabelsReadClosed
<1>6. CASE rebuilt.evidence[n].id \in PinnedIds
  <2>1. rebuilt.run_id = corpus.run_id /\ IsTidy(corpus)
    BY <1>6 DEF PinnedIds
  <2>2. PICK e \in PinnedRecords(corpus) : e.id = rebuilt.evidence[n].id
    BY <1>6, <2>1 DEF PinnedIds
  <2>3. KeepsProtected(v.evidence, corpus)
    BY <1>3, <2>1 DEF StoredInv
  <2>4. x.classification = e.classification
    BY <1>4, <2>1, <2>2, <2>3 DEF KeepsProtected
  <2>5. x.classification # "Unclassified"
    BY <2>4 DEF PinnedRecords, Protected
  <2> QED
    BY <1>4, <2>5, LabelsReadClosed
<1> QED
  BY <1>5, <1>6

\* Each row of the sheet and each member of the payload tells a record.
LEMMA EvidenceRowsTellRecords ==
  ASSUME NEW c
  PROVE  /\ \A x \in Elements(EvidenceSheet(c).rows) :
              \E n \in DOMAIN c.evidence :
                /\ x.id = c.evidence[n].id
                /\ x.redaction = RedactionStatus(c.evidence[n].classification)
         /\ \A x \in Elements(Payload(c).evidence) :
              \E n \in DOMAIN c.evidence :
                /\ x.id = c.evidence[n].id
                /\ x.redaction = RedactionStatus(c.evidence[n].classification)
<1> DEFINE Row(e) == [id |-> e.id, location |-> e.locator, integrity |-> IntegrityShown(e.digest),
                      redaction |-> RedactionStatus(e.classification)]
<1>1. EvidenceSheet(c).rows = [n \in DOMAIN c.evidence |-> Row(c.evidence[n])]
  BY DEF EvidenceSheet, Sheet, MapSeq
<1>2. Payload(c).evidence = MapSeq(c.evidence, EvidenceMember)
  BY DEF Payload
<1>3. Payload(c).evidence = [n \in DOMAIN c.evidence |-> EvidenceMember(c.evidence[n])]
  BY <1>2 DEF MapSeq
<1>4. ASSUME NEW x \in Elements(EvidenceSheet(c).rows)
      PROVE  \E n \in DOMAIN c.evidence :
               /\ x.id = c.evidence[n].id
               /\ x.redaction = RedactionStatus(c.evidence[n].classification)
  <2>1. PICK n \in DOMAIN c.evidence : x = Row(c.evidence[n])
    BY <1>1 DEF Elements
  <2> QED
    BY <2>1
<1>5. ASSUME NEW x \in Elements(Payload(c).evidence)
      PROVE  \E n \in DOMAIN c.evidence :
               /\ x.id = c.evidence[n].id
               /\ x.redaction = RedactionStatus(c.evidence[n].classification)
  <2>1. PICK n \in DOMAIN c.evidence : x = EvidenceMember(c.evidence[n])
    BY <1>3 DEF Elements
  <2> QED
    BY <2>1 DEF EvidenceMember
<1> QED
  BY <1>4, <1>5

\* No record saved as protected with its digest, and no stored row with
\* another label than "Unclassified", is shown open in a matrix or a signed
\* JSON made from the rebuilt run (reconstruct_export_corpus and the evidence
\* of matrix.rs and signed_json.rs), whatever else was saved.
THEOREM RedactionDoesSurvive == Spec => []RedactionSurvives
<1>1. StoredInv => RedactionSurvives
  <2> SUFFICES ASSUME StoredInv, stage = "rebuilt"
               PROVE  /\ \A x \in Elements(EvidenceSheet(rebuilt).rows) :
                           x.id \in ClosedIds \cup PinnedIds => x.redaction = "redacted"
                      /\ \A x \in Elements(Payload(rebuilt).evidence) :
                           x.id \in ClosedIds \cup PinnedIds => x.redaction = "redacted"
    BY Zenon DEF RedactionSurvives, ClosedIds, PinnedIds, PinnedRecords
  <2> QED
    BY EvidenceRowsTellRecords, ClosedRecordsAreRedacted
<1> QED
  BY <1>1, RowsAreStored, PTL

(***************************************************************************)
(* The parts of the report of a corpus: its lines are a list, in which     *)
(* what the builder calls assembled is mapped, sorted and filtered place   *)
(* by place.                                                               *)
(***************************************************************************)
ReportOpening(c) ==
  <<Heading("Sovri PDF compliance report"), IdLine("run", c.run_id)>>
    \o MapSeq(c.frameworks, LAMBDA f : IdLine("framework", f.framework_id))
    \o MapSeq(c.controls,   LAMBDA k : IdLine("control", k.control_id))
    \o MapSeq(c.evidence,   LAMBDA e : IdLine("evidence", e.id))
    \o <<Heading("Results")>>

ResultLines(c) == MapSeq(OrderedScopedResults(c.results), LAMBDA r : ResultLine("result", r))

GapLines(c) ==
  MapSeq(Kept(OrderedScopedResults(c.results), LAMBDA r : IsGapStatus(r.status)),
         LAMBDA r : ResultLine("gap", r))

\* The opening is a list that tells no result.
LEMMA OpeningIsList ==
  ASSUME corpus \in Assembled
  PROVE  /\ IsList(ReportOpening(corpus))
         /\ \A tag \in {"result", "gap"} : Without(ReportOpening(corpus), tag)
<1>1. PICK frames, controls, records :
        /\ frames   = MapSeq(corpus.frameworks, LAMBDA f : IdLine("framework", f.framework_id))
        /\ controls = MapSeq(corpus.controls,   LAMBDA k : IdLine("control", k.control_id))
        /\ records  = MapSeq(corpus.evidence,   LAMBDA e : IdLine("evidence", e.id))
  OBVIOUS
<1>2. IsList(corpus.frameworks) /\ IsList(corpus.controls) /\ IsList(corpus.evidence)
  BY ListOfSeq DEF Assembled
<1>3. IsList(frames) /\ \A i \in DOMAIN frames : frames[i].tag = "framework"
  <2>1. frames = [i \in DOMAIN corpus.frameworks |-> frames[i]]
    BY <1>1 DEF MapSeq
  <2>2. \A i \in DOMAIN frames : frames[i].tag = "framework"
    BY <1>1 DEF MapSeq, IdLine
  <2> QED
    BY <1>2, <2>1, <2>2, SamePlaces
<1>4. IsList(controls) /\ \A i \in DOMAIN controls : controls[i].tag = "control"
  <2>1. controls = [i \in DOMAIN corpus.controls |-> controls[i]]
    BY <1>1 DEF MapSeq
  <2>2. \A i \in DOMAIN controls : controls[i].tag = "control"
    BY <1>1 DEF MapSeq, IdLine
  <2> QED
    BY <1>2, <2>1, <2>2, SamePlaces
<1>5. IsList(records) /\ \A i \in DOMAIN records : records[i].tag = "evidence"
  <2>1. records = [i \in DOMAIN corpus.evidence |-> records[i]]
    BY <1>1 DEF MapSeq
  <2>2. \A i \in DOMAIN records : records[i].tag = "evidence"
    BY <1>1 DEF MapSeq, IdLine
  <2> QED
    BY <1>2, <2>1, <2>2, SamePlaces
<1>6. PICK opening, middle : /\ opening = <<Heading("Sovri PDF compliance report"),
                                            IdLine("run", corpus.run_id)>>
                             /\ middle = <<Heading("Results")>>
  OBVIOUS
<1>7. /\ IsList(opening) /\ \A i \in DOMAIN opening : opening[i].tag \in {"heading", "run"}
      /\ IsList(middle)  /\ \A i \in DOMAIN middle  : middle[i].tag = "heading"
  <2>1. PICK one, two, three : /\ one = Heading("Sovri PDF compliance report")
                               /\ two = IdLine("run", corpus.run_id)
                               /\ three = Heading("Results")
    OBVIOUS
  <2>2. one.tag = "heading" /\ two.tag = "run" /\ three.tag = "heading"
    BY <2>1 DEF Heading, IdLine
  <2>3. opening = <<one, two>> /\ middle = <<three>>
    BY <1>6, <2>1
  <2>4. opening \in Seq({one, two}) /\ middle \in Seq({three})
    BY <2>3
  <2>5. /\ \A i \in DOMAIN opening : opening[i].tag \in {"heading", "run"}
        /\ \A i \in DOMAIN middle  : middle[i].tag = "heading"
    BY <2>2, <2>3
  <2> QED
    BY <2>4, <2>5, ListOfSeq
<1>8. ReportOpening(corpus) = opening \o frames \o controls \o records \o middle
  BY <1>1, <1>6 DEF ReportOpening
<1>9. /\ IsList(opening \o frames)
      /\ IsList(opening \o frames \o controls)
      /\ IsList(opening \o frames \o controls \o records)
      /\ IsList(opening \o frames \o controls \o records \o middle)
  BY <1>3, <1>4, <1>5, <1>7, JoinedList
<1>10. ASSUME NEW tag \in {"result", "gap"}
       PROVE  Without(opening \o frames \o controls \o records \o middle, tag)
  <2>1. /\ Without(opening, tag) /\ Without(frames, tag) /\ Without(controls, tag)
        /\ Without(records, tag) /\ Without(middle, tag)
    BY <1>3, <1>4, <1>5, <1>7 DEF Without
  <2>2. Without(opening \o frames, tag)
    BY <1>3, <1>7, <2>1, JoinWithout
  <2>3. Without(opening \o frames \o controls, tag)
    BY <1>4, <1>9, <2>1, <2>2, JoinWithout
  <2>4. Without(opening \o frames \o controls \o records, tag)
    BY <1>5, <1>9, <2>1, <2>3, JoinWithout
  <2> QED
    BY <1>7, <1>9, <2>1, <2>4, JoinWithout
<1> QED
  BY <1>8, <1>9, <1>10

\* Results and gaps are lists whose lines carry their tag.
LEMMA PartsAreLists ==
  ASSUME corpus \in Assembled
  PROVE  /\ IsList(ResultLines(corpus)) /\ AllWith(ResultLines(corpus), "result")
         /\ IsList(GapLines(corpus))    /\ AllWith(GapLines(corpus), "gap")
<1>1. PICK ordered, kept, results, gaps :
        /\ ordered = OrderedScopedResults(corpus.results)
        /\ kept    = Kept(ordered, LAMBDA r : IsGapStatus(r.status))
        /\ results = MapSeq(ordered, LAMBDA r : ResultLine("result", r))
        /\ gaps    = MapSeq(kept, LAMBDA r : ResultLine("gap", r))
  OBVIOUS
<1>2. IsList(corpus.results)
  BY ListOfSeq DEF Assembled
<1>3. IsList(ordered)
  <2>1. ordered = [i \in DOMAIN corpus.results |-> ordered[i]]
    BY <1>1 DEF OrderedScopedResults, StableSort
  <2> QED
    BY <1>2, <2>1, SamePlaces
<1>4. IsList(results) /\ AllWith(results, "result")
  <2>1. results = [i \in DOMAIN ordered |-> results[i]]
    BY <1>1 DEF MapSeq
  <2>2. AllWith(results, "result")
    BY <1>1 DEF AllWith, MapSeq, ResultLine
  <2> QED
    BY <1>3, <2>1, <2>2, SamePlaces
<1>5. IsList(kept)
  <2>1. PICK places : places = {i \in DOMAIN ordered : IsGapStatus(ordered[i].status)}
    OBVIOUS
  <2>2. kept = [n \in 1..Cardinality(places) |-> kept[n]]
    <3>1. PICK u : u = Kept(ordered, LAMBDA r : IsGapStatus(r.status))
      OBVIOUS
    <3>2. u = [n \in 1..Cardinality(places) |-> u[n]]
      BY <2>1, <3>1 DEF Kept, Ordered, MapSeq
    <3>3. kept = u
      BY <1>1, <3>1
    <3> QED
      BY <3>2, <3>3
  <2>3. places \in SUBSET DOMAIN ordered
    BY <2>1
  <2> QED
    BY <1>3, <2>2, <2>3, SomePlaces
<1>6. IsList(gaps) /\ AllWith(gaps, "gap")
  <2>1. gaps = [i \in DOMAIN kept |-> gaps[i]]
    BY <1>1 DEF MapSeq
  <2>2. AllWith(gaps, "gap")
    BY <1>1 DEF AllWith, MapSeq, ResultLine
  <2> QED
    BY <1>5, <2>1, <2>2, SamePlaces
<1>7. ResultLines(corpus) = results /\ GapLines(corpus) = gaps
  BY <1>1 DEF ResultLines, GapLines
<1> QED
  BY <1>4, <1>6, <1>7

LEMMA GapsHeading == IsList(<<Heading("Gaps")>>) /\ Without(<<Heading("Gaps")>>, "result")
                       /\ Without(<<Heading("Gaps")>>, "gap")
<1>1. PICK one : one = Heading("Gaps")
  OBVIOUS
<1>2. <<one>> \in Seq({one}) /\ DOMAIN <<one>> = {1} /\ <<one>>[1] = one
  OBVIOUS
<1>3. one.tag = "heading"
  BY <1>1 DEF Heading
<1> QED
  BY <1>1, <1>2, <1>3, ListOfSeq DEF Without

LEMMA ReportInParts ==
  CorpusLines(corpus) =
    ReportOpening(corpus) \o ResultLines(corpus) \o <<Heading("Gaps")>> \o GapLines(corpus)
BY DEF CorpusLines, ReportOpening, ResultLines, GapLines, OrderedScopedResults

LEMMA ReportIsList ==
  ASSUME corpus \in Assembled
  PROVE  IsList(CorpusLines(corpus))
<1>1. /\ IsList(ReportOpening(corpus)) /\ IsList(ResultLines(corpus)) /\ IsList(GapLines(corpus))
      /\ IsList(<<Heading("Gaps")>>)
  BY OpeningIsList, PartsAreLists, GapsHeading
<1>2. IsList(ReportOpening(corpus) \o ResultLines(corpus))
  BY <1>1, JoinedList
<1>3. IsList(ReportOpening(corpus) \o ResultLines(corpus) \o <<Heading("Gaps")>>)
  BY <1>1, <1>2, JoinedList
<1>4. IsList(ReportOpening(corpus) \o ResultLines(corpus) \o <<Heading("Gaps")>> \o GapLines(corpus))
  BY <1>1, <1>3, JoinedList
<1> QED
  BY <1>4, ReportInParts

\* Whatever was assembled, a reader who follows the catalog, the page tree and
\* the table of the exported PDF finds every line of the report, page after
\* page (report.rs `export`).
THEOREM ReportsAreReadable == Spec => []PdfIsReadable
<1>1. StoredInv => PdfIsReadable
  <2> SUFFICES ASSUME StoredInv PROVE PdfIsReadable
    OBVIOUS
  <2>1. PICK lines : lines = CorpusLines(corpus)
    OBVIOUS
  <2>2. lines \in Seq(Elements(lines))
    BY <2>1, ReportIsList DEF StoredInv, IsList
  <2>3. IsReadable(PdfObjects(lines)) /\ ShownLines(PdfObjects(lines)) = lines
    BY <2>2, PdfsAreReadable
  <2> QED
    BY <2>1, <2>3 DEF PdfIsReadable
<1> QED
  BY <1>1, RowsAreStored, PTL

-----------------------------------------------------------------------------
(***************************************************************************)
(* The formats.  Each of them sorts and filters the results in a way of    *)
(* its own; what they have in common is that an entry of each list comes   *)
(* from a place of the corpus, and from every place that counts exactly    *)
(* one.                                                                    *)
(***************************************************************************)

(***************************************************************************)
(* Sorted results.                                                         *)
(***************************************************************************)

\* The places of a list and the ranks of the keys at them.
LEMMA ResultPlaces ==
  ASSUME NEW s \in Seq(ResultEntries)
  PROVE  /\ Len(s) \in Nat /\ DOMAIN s = 1..Len(s) /\ IsFiniteSet(DOMAIN s)
         /\ Cardinality(DOMAIN s) = Len(s)
         /\ \A i \in DOMAIN s : /\ s[i].framework_id \in DOMAIN Rank
                                /\ s[i].control_id \in DOMAIN Rank
                                /\ s[i].rule_id \in DOMAIN Rank
<1>1. Len(s) \in Nat /\ DOMAIN s = 1..Len(s) /\ \A i \in DOMAIN s : s[i] \in ResultEntries
  OBVIOUS
<1>2. IsFiniteSet(DOMAIN s) /\ Cardinality(DOMAIN s) = Len(s)
  <2>1. 1 \in Int /\ Len(s) \in Int
    BY <1>1
  <2>2. /\ IsFiniteSet(1..Len(s))
        /\ Cardinality(1..Len(s)) = IF 1 > Len(s) THEN 0 ELSE Len(s) - 1 + 1
    BY <2>1, FS_Interval
  <2> QED
    BY <1>1, <2>2
<1>3. \A r \in ResultEntries : /\ r.framework_id \in DOMAIN Rank
                               /\ r.control_id \in DOMAIN Rank
                               /\ r.rule_id \in DOMAIN Rank
  BY EntriesAssumption
<1> QED
  BY <1>1, <1>2, <1>3

\* The matrix sorts by control and rule.
LEMMA ReportingOrderDraws ==
  ASSUME NEW s \in Seq(ResultEntries)
  PROVE  DrawsFrom(ResultsInReportingOrder(s), s, DOMAIN s)
<1>1. PICK D : D = DOMAIN s
  OBVIOUS
<1>2. /\ D \subseteq Nat /\ IsFiniteSet(D) /\ Cardinality(D) = Len(s) /\ D = 1..Len(s)
      /\ \A i \in D : s[i].control_id \in DOMAIN Rank /\ s[i].rule_id \in DOMAIN Rank
  BY <1>1, ResultPlaces
<1>3. PICK a, b, c : /\ a = [i \in D |-> Rank[s[i].control_id]]
                     /\ b = [i \in D |-> Rank[s[i].rule_id]]
                     /\ c = [i \in D |-> 0]
  OBVIOUS
<1>4. a \in [D -> Nat] /\ b \in [D -> Nat] /\ c \in [D -> Nat]
  BY <1>2, <1>3, RankOrders
<1> DEFINE Comes(y, x) ==
             \/ Precedes(<<s[y].control_id, s[y].rule_id>>, <<s[x].control_id, s[x].rule_id>>)
             \/ <<s[y].control_id, s[y].rule_id>> = <<s[x].control_id, s[x].rule_id>> /\ y < x
<1>5. PICK Before : Before = {p \in D \X D : Comes(p[1], p[2])}
  OBVIOUS
<1>6. \A x, y \in D : <<x, y>> \in Before <=> Comes(x, y)
  BY <1>5
<1>7. IsLexical(Before, D, a, b, c)
  <2> SUFFICES ASSUME NEW x \in D, NEW y \in D
               PROVE  <<x, y>> \in Before <=>
                        \/ a[x] < a[y]
                        \/ a[x] = a[y] /\ b[x] < b[y]
                        \/ a[x] = a[y] /\ b[x] = b[y] /\ c[x] < c[y]
                        \/ a[x] = a[y] /\ b[x] = b[y] /\ c[x] = c[y] /\ x < y
    BY DEF IsLexical
  <2>1. /\ a[x] = Rank[s[x].control_id] /\ a[y] = Rank[s[y].control_id]
        /\ b[x] = Rank[s[x].rule_id] /\ b[y] = Rank[s[y].rule_id]
        /\ c[x] = 0 /\ c[y] = 0
    BY <1>3
  <2>2. /\ s[x].control_id = s[y].control_id <=> a[x] = a[y]
        /\ s[x].rule_id = s[y].rule_id <=> b[x] = b[y]
    BY <1>2, <2>1, RankOrders
  <2>3. Precedes(<<s[x].control_id, s[x].rule_id>>, <<s[y].control_id, s[y].rule_id>>) <=>
          \/ Rank[s[x].control_id] < Rank[s[y].control_id]
          \/ s[x].control_id = s[y].control_id /\ Rank[s[x].rule_id] < Rank[s[y].rule_id]
    BY PairsPrecede
  <2>4. <<s[x].control_id, s[x].rule_id>> = <<s[y].control_id, s[y].rule_id>> <=>
          s[x].control_id = s[y].control_id /\ s[x].rule_id = s[y].rule_id
    OBVIOUS
  <2>5. Comes(x, y) <=>
          \/ a[x] < a[y]
          \/ a[x] = a[y] /\ b[x] < b[y]
          \/ a[x] = a[y] /\ b[x] = b[y] /\ c[x] < c[y]
          \/ a[x] = a[y] /\ b[x] = b[y] /\ c[x] = c[y] /\ x < y
    BY <2>1, <2>2, <2>3, <2>4
  <2> HIDE DEF Comes
  <2> QED
    BY <1>6, <2>5
<1>8. Orders(Before, D)
  <2>1. D \in SUBSET Nat
    BY <1>2
  <2> QED
    BY <1>4, <1>7, <2>1, LexicalOrder
<1>9. PICK order : order = [n \in 1..Cardinality(D) |->
                              (CHOOSE p \in {<<Cardinality({y \in D : Comes(y, x)}) + 1, x>>
                                               : x \in D} : p[1] = n)[2]]
  OBVIOUS
<1>10. PICK t : t = ResultsInReportingOrder(s)
  OBVIOUS
<1>11. t = [n \in D |-> s[order[n]]]
  BY <1>1, <1>9, <1>10 DEF ResultsInReportingOrder, StableSort, Ordered, ReportingKey
<1> HIDE DEF Comes
<1>12. IsOrderOf(order, D, Before)
  <2>1. \A x \in D : {y \in D : Comes(y, x)} = EarlierIn(D, Before, x)
    BY <1>6 DEF EarlierIn
  <2>2. PICK told : told = {<<Cardinality({y \in D : Comes(y, x)}) + 1, x>> : x \in D}
    OBVIOUS
  <2>3. told = {<<Cardinality(EarlierIn(D, Before, x)) + 1, x>> : x \in D}
    BY <2>1, <2>2
  <2>4. order = [n \in 1..Cardinality(D) |-> (CHOOSE p \in told : p[1] = n)[2]]
    BY <1>9, <2>2
  <2> QED
    BY <2>3, <2>4 DEF IsOrderOf
<1>13. t = [n \in 1..Cardinality(D) |-> s[order[n]]]
  BY <1>2, <1>11
<1>14. DrawsFrom(t, s, D)
  <2>1. D \in SUBSET DOMAIN s /\ IsFiniteSet(D)
    BY <1>1, <1>2
  <2>2. DrawsFrom([n \in 1..Cardinality(D) |-> s[order[n]]], s, D)
    BY <1>8, <1>12, <2>1, OrderDraws
  <2> QED
    BY <1>13, <2>2
<1> QED
  BY <1>1, <1>10, <1>14

\* The signed JSON and the PDF sort by control, rule and framework.
LEMMA ScopedOrderDraws ==
  ASSUME NEW s \in Seq(ResultEntries)
  PROVE  DrawsFrom(OrderedScopedResults(s), s, DOMAIN s)
<1>1. PICK D : D = DOMAIN s
  OBVIOUS
<1>2. /\ D \subseteq Nat /\ IsFiniteSet(D) /\ Cardinality(D) = Len(s) /\ D = 1..Len(s)
      /\ \A i \in D : /\ s[i].control_id \in DOMAIN Rank /\ s[i].rule_id \in DOMAIN Rank
                    /\ s[i].framework_id \in DOMAIN Rank
  BY <1>1, ResultPlaces
<1>3. PICK a, b, c : /\ a = [i \in D |-> Rank[s[i].control_id]]
                     /\ b = [i \in D |-> Rank[s[i].rule_id]]
                     /\ c = [i \in D |-> Rank[s[i].framework_id]]
  OBVIOUS
<1>4. a \in [D -> Nat] /\ b \in [D -> Nat] /\ c \in [D -> Nat]
  BY <1>2, <1>3, RankOrders
<1> DEFINE Comes(y, x) ==
             \/ Precedes(<<s[y].control_id, s[y].rule_id, s[y].framework_id>>,
                         <<s[x].control_id, s[x].rule_id, s[x].framework_id>>)
             \/ /\ <<s[y].control_id, s[y].rule_id, s[y].framework_id>> =
                     <<s[x].control_id, s[x].rule_id, s[x].framework_id>>
                /\ y < x
<1>5. PICK Before : Before = {p \in D \X D : Comes(p[1], p[2])}
  OBVIOUS
<1>6. \A x, y \in D : <<x, y>> \in Before <=> Comes(x, y)
  BY <1>5
<1>7. IsLexical(Before, D, a, b, c)
  <2> SUFFICES ASSUME NEW x \in D, NEW y \in D
               PROVE  <<x, y>> \in Before <=>
                        \/ a[x] < a[y]
                        \/ a[x] = a[y] /\ b[x] < b[y]
                        \/ a[x] = a[y] /\ b[x] = b[y] /\ c[x] < c[y]
                        \/ a[x] = a[y] /\ b[x] = b[y] /\ c[x] = c[y] /\ x < y
    BY DEF IsLexical
  <2>1. /\ a[x] = Rank[s[x].control_id] /\ a[y] = Rank[s[y].control_id]
        /\ b[x] = Rank[s[x].rule_id] /\ b[y] = Rank[s[y].rule_id]
        /\ c[x] = Rank[s[x].framework_id] /\ c[y] = Rank[s[y].framework_id]
    BY <1>3
  <2>2. /\ s[x].control_id = s[y].control_id <=> a[x] = a[y]
        /\ s[x].rule_id = s[y].rule_id <=> b[x] = b[y]
        /\ s[x].framework_id = s[y].framework_id <=> c[x] = c[y]
    BY <1>2, <2>1, RankOrders
  <2>3. Precedes(<<s[x].control_id, s[x].rule_id, s[x].framework_id>>,
                 <<s[y].control_id, s[y].rule_id, s[y].framework_id>>) <=>
          \/ Rank[s[x].control_id] < Rank[s[y].control_id]
          \/ s[x].control_id = s[y].control_id /\ Rank[s[x].rule_id] < Rank[s[y].rule_id]
          \/ /\ s[x].control_id = s[y].control_id /\ s[x].rule_id = s[y].rule_id
             /\ Rank[s[x].framework_id] < Rank[s[y].framework_id]
    BY TriplesPrecede
  <2>4. <<s[x].control_id, s[x].rule_id, s[x].framework_id>> =
          <<s[y].control_id, s[y].rule_id, s[y].framework_id>> <=>
          /\ s[x].control_id = s[y].control_id /\ s[x].rule_id = s[y].rule_id
          /\ s[x].framework_id = s[y].framework_id
    OBVIOUS
  <2>5. Comes(x, y) <=>
          \/ a[x] < a[y]
          \/ a[x] = a[y] /\ b[x] < b[y]
          \/ a[x] = a[y] /\ b[x] = b[y] /\ c[x] < c[y]
          \/ a[x] = a[y] /\ b[x] = b[y] /\ c[x] = c[y] /\ x < y
    BY <2>1, <2>2, <2>3, <2>4
  <2> HIDE DEF Comes
  <2> QED
    BY <1>6, <2>5
<1>8. Orders(Before, D)
  <2>1. D \in SUBSET Nat
    BY <1>2
  <2> QED
    BY <1>4, <1>7, <2>1, LexicalOrder
<1>9. PICK order : order = [n \in 1..Cardinality(D) |->
                              (CHOOSE p \in {<<Cardinality({y \in D : Comes(y, x)}) + 1, x>>
                                               : x \in D} : p[1] = n)[2]]
  OBVIOUS
<1>10. PICK t : t = OrderedScopedResults(s)
  OBVIOUS
<1>11. t = [n \in D |-> s[order[n]]]
  BY <1>1, <1>9, <1>10 DEF OrderedScopedResults, StableSort, Ordered
<1> HIDE DEF Comes
<1>12. IsOrderOf(order, D, Before)
  <2>1. \A x \in D : {y \in D : Comes(y, x)} = EarlierIn(D, Before, x)
    BY <1>6 DEF EarlierIn
  <2>2. PICK told : told = {<<Cardinality({y \in D : Comes(y, x)}) + 1, x>> : x \in D}
    OBVIOUS
  <2>3. told = {<<Cardinality(EarlierIn(D, Before, x)) + 1, x>> : x \in D}
    BY <2>1, <2>2
  <2>4. order = [n \in 1..Cardinality(D) |-> (CHOOSE p \in told : p[1] = n)[2]]
    BY <1>9, <2>2
  <2> QED
    BY <2>3, <2>4 DEF IsOrderOf
<1>13. t = [n \in 1..Cardinality(D) |-> s[order[n]]]
  BY <1>2, <1>11
<1>14. DrawsFrom(t, s, D)
  <2>1. D \in SUBSET DOMAIN s /\ IsFiniteSet(D)
    BY <1>1, <1>2
  <2>2. DrawsFrom([n \in 1..Cardinality(D) |-> s[order[n]]], s, D)
    BY <1>8, <1>12, <2>1, OrderDraws
  <2> QED
    BY <1>13, <2>2
<1> QED
  BY <1>1, <1>10, <1>14


\* The places of the gaps: those under a framework and those of any scope.
GapPlaces(s)      == {i \in DOMAIN s : IsGap(s[i])}
AnyScopePlaces(s) == {i \in DOMAIN s : IsGapStatus(s[i].status)}

LEMMA GapsDraw ==
  ASSUME NEW s \in Seq(ResultEntries), NEW t, DrawsFrom(t, s, DOMAIN s)
  PROVE  /\ DrawsFrom(Kept(t, IsGap), s, GapPlaces(s))
         /\ DrawsFrom(Kept(t, LAMBDA r : IsGapStatus(r.status)), s, AnyScopePlaces(s))
<1>1. IsFiniteSet(DOMAIN s) /\ Cardinality(DOMAIN s) \in Nat
  BY ResultPlaces
<1>2. DOMAIN t = 1..Cardinality(DOMAIN s)
  BY DEF DrawsFrom
<1>3. DrawsFrom(Kept(t, IsGap), s, GapPlaces(s))
  <2>1. PICK K : K = {i \in DOMAIN t : IsGap(t[i])}
    OBVIOUS
  <2>2. PICK u : u = Chosen(t, K)
    OBVIOUS
  <2>3. u = Kept(t, IsGap)
    BY <2>1, <2>2 DEF Kept, Chosen, MapSeq, Ordered
  <2>4. DrawsFrom(u, t, K)
    <3>1. K \in SUBSET DOMAIN t
      BY <2>1
    <3> QED
      BY <1>1, <1>2, <2>2, <3>1, SomeDraw
  <2>5. \A n \in DOMAIN t, i \in DOMAIN s : t[n] = s[i] => (n \in K <=> i \in GapPlaces(s))
    BY <2>1 DEF GapPlaces
  <2>6. K \in SUBSET DOMAIN t /\ GapPlaces(s) \in SUBSET DOMAIN s
    BY <2>1 DEF GapPlaces
  <2>7. DrawsFrom(u, s, GapPlaces(s))
    BY <1>1, <2>4, <2>5, <2>6, KeptDraws
  <2> QED
    BY <2>3, <2>7
<1>4. DrawsFrom(Kept(t, LAMBDA r : IsGapStatus(r.status)), s, AnyScopePlaces(s))
  <2>1. PICK K : K = {i \in DOMAIN t : IsGapStatus(t[i].status)}
    OBVIOUS
  <2>2. PICK u : u = Chosen(t, K)
    OBVIOUS
  <2>3. u = Kept(t, LAMBDA r : IsGapStatus(r.status))
    BY <2>1, <2>2 DEF Kept, Chosen, MapSeq, Ordered
  <2>4. DrawsFrom(u, t, K)
    <3>1. K \in SUBSET DOMAIN t
      BY <2>1
    <3> QED
      BY <1>1, <1>2, <2>2, <3>1, SomeDraw
  <2>5. \A n \in DOMAIN t, i \in DOMAIN s : t[n] = s[i] => (n \in K <=> i \in AnyScopePlaces(s))
    BY <2>1 DEF AnyScopePlaces
  <2>6. K \in SUBSET DOMAIN t /\ AnyScopePlaces(s) \in SUBSET DOMAIN s
    BY <2>1 DEF AnyScopePlaces
  <2>7. DrawsFrom(u, s, AnyScopePlaces(s))
    BY <1>1, <2>4, <2>5, <2>6, KeptDraws
  <2> QED
    BY <2>3, <2>7
<1> QED
  BY <1>3, <1>4

(***************************************************************************)
(* Tallies.                                                                *)
(***************************************************************************)

\* The same list further back in another one.
ShowsAfter(w, n, v, K) == K \subseteq Nat /\ \A k \in K : v[k] = w[n + k]

LEMMA ShiftedTally ==
  ASSUME NEW n \in Nat, NEW K, IsFiniteSet(K), NEW v, NEW w, ShowsAfter(w, n, v, K)
  PROVE  TallyAt(w, {n + k : k \in K}) = TallyAt(v, K)
<1>1. PICK C, d : C = {n + k : k \in K} /\ d = [k \in K |-> n + k]
  OBVIOUS
<1>2. d \in Bijection(K, C)
  <2>1. d \in [K -> C] /\ \A k \in K : d[k] = n + k
    BY <1>1
  <2>2. \A j, k \in K : d[j] = d[k] => j = k
    BY <2>1 DEF ShowsAfter
  <2>3. \A x \in C : \E k \in K : d[k] = x
    BY <1>1
  <2> QED
    BY <2>1, <2>2, <2>3 DEF Bijection, Injection, Surjection, IsInjective
<1>3. IsFiniteSet(C)
  BY <1>2, FS_Bijection DEF ExistsBijection
<1>4. \A k \in K : v[k] = w[d[k]]
  BY <1>1 DEF ShowsAfter
<1>5. TallyAt(v, K) = TallyAt(w, C)
  BY <1>2, <1>3, <1>4, EqualTallies
<1> QED
  BY <1>1, <1>5

(***************************************************************************)
(* What each format tells.                                                 *)
(***************************************************************************)
OutcomeAt(s) ==
  [i \in DOMAIN s |-> <<s[i].framework_id, s[i].control_id, s[i].rule_id, s[i].status>>]

DetailAt(c) ==
  [i \in DOMAIN c.results |->
     <<OutcomeAt(c.results)[i], GapReference(c.controls, c.results[i]),
       FrameworkSource(c.frameworks, c.results[i].framework_id)>>]

LEMMA WholeListTally ==
  ASSUME NEW s, NEW P, IsFiniteSet(P), NEW t, DrawsFrom(t, s, P), NEW m, DOMAIN m = DOMAIN t,
         NEW w, TellsAlike(t, s, P, DOMAIN t, P, m, w)
  PROVE  Tally(m) = TallyAt(w, P)
<1>1. TallyAt(m, DOMAIN t) = TallyAt(w, P)
  <2>1. DOMAIN t \in SUBSET DOMAIN t /\ P \in SUBSET P
    OBVIOUS
  <2> QED
    BY <2>1, DrawnTally
<1>2. Tally(m) = TallyAt(m, DOMAIN m)
  BY DEF Tally, TallyAt, Elements
<1> QED
  BY <1>1, <1>2

\* The results of the corpus in each order, and the gaps among them.
LEMMA CorpusDraws ==
  ASSUME corpus \in Assembled
  PROVE  LET s        == corpus.results
             reported == ResultsInReportingOrder(s)
             scoped   == OrderedScopedResults(s)
         IN  /\ s \in Seq(ResultEntries) /\ IsFiniteSet(DOMAIN s)
             /\ IsFiniteSet(GapPlaces(s)) /\ IsFiniteSet(AnyScopePlaces(s))
             /\ DrawsFrom(reported, s, DOMAIN s) /\ DrawsFrom(scoped, s, DOMAIN s)
             /\ DrawsFrom(Kept(reported, IsGap), s, GapPlaces(s))
             /\ DrawsFrom(Kept(scoped, IsGap), s, GapPlaces(s))
             /\ DrawsFrom(Kept(scoped, LAMBDA r : IsGapStatus(r.status)), s, AnyScopePlaces(s))
<1>1. PICK s : s = corpus.results
  OBVIOUS
<1>2. s \in Seq(ResultEntries)
  BY <1>1 DEF Assembled
<1>3. IsFiniteSet(DOMAIN s)
  BY <1>2, ResultPlaces
<1>4. IsFiniteSet(GapPlaces(s)) /\ IsFiniteSet(AnyScopePlaces(s))
  <2>1. GapPlaces(s) \in SUBSET DOMAIN s /\ AnyScopePlaces(s) \in SUBSET DOMAIN s
    BY DEF GapPlaces, AnyScopePlaces
  <2> QED
    BY <1>3, <2>1, FS_Subset
<1>5. PICK reported, scoped : reported = ResultsInReportingOrder(s) /\ scoped = OrderedScopedResults(s)
  OBVIOUS
<1>6. DrawsFrom(reported, s, DOMAIN s) /\ DrawsFrom(scoped, s, DOMAIN s)
  BY <1>2, <1>5, ReportingOrderDraws, ScopedOrderDraws
<1>7. DrawsFrom(Kept(reported, IsGap), s, GapPlaces(s))
  BY <1>2, <1>6, GapsDraw
<1>8. /\ DrawsFrom(Kept(scoped, IsGap), s, GapPlaces(s))
      /\ DrawsFrom(Kept(scoped, LAMBDA r : IsGapStatus(r.status)), s, AnyScopePlaces(s))
  BY <1>2, <1>6, GapsDraw
<1> QED
  BY <1>1, <1>2, <1>3, <1>4, <1>5, <1>6, <1>7, <1>8

LEMMA SheetsTell ==
  ASSUME corpus \in Assembled
  PROVE  /\ Tally(MapSeq(Workbook(corpus).results.rows, Outcome)) =
              TallyAt(OutcomeAt(corpus.results), DOMAIN corpus.results)
         /\ Tally(MapSeq(Workbook(corpus).gaps.rows, Detail)) =
              TallyAt(DetailAt(corpus), GapPlaces(corpus.results))
<1>1. PICK s, t : s = corpus.results /\ t = ResultsInReportingOrder(s)
  OBVIOUS
<1>2. IsFiniteSet(DOMAIN s) /\ DrawsFrom(t, s, DOMAIN s)
  BY <1>1, CorpusDraws
<1>3. PICK m : m = MapSeq(Workbook(corpus).results.rows, Outcome)
  OBVIOUS
<1>4. m = [n \in DOMAIN t |-> <<t[n].framework_id, t[n].control_id, t[n].rule_id, t[n].status>>]
  BY <1>1, <1>3 DEF Workbook, ResultsSheet, Sheet, MapSeq, Outcome
<1>5. TellsAlike(t, s, DOMAIN s, DOMAIN t, DOMAIN s, m, OutcomeAt(s))
  BY <1>4 DEF TellsAlike, OutcomeAt
<1>6. Tally(m) = TallyAt(OutcomeAt(s), DOMAIN s)
  <2>1. DOMAIN m = DOMAIN t
    BY <1>4
  <2> QED
    BY <1>2, <1>5, <2>1, WholeListTally
<1>7. PICK u : u = Kept(t, IsGap)
  OBVIOUS
<1>8. IsFiniteSet(GapPlaces(s)) /\ DrawsFrom(u, s, GapPlaces(s))
  BY <1>1, <1>7, CorpusDraws
<1>9. PICK g : g = MapSeq(Workbook(corpus).gaps.rows, Detail)
  OBVIOUS
<1>10. g = [n \in DOMAIN u |->
              <<<<u[n].framework_id, u[n].control_id, u[n].rule_id, u[n].status>>,
                GapReference(corpus.controls, u[n]),
                FrameworkSource(corpus.frameworks, u[n].framework_id)>>]
  BY <1>1, <1>7, <1>9 DEF Workbook, GapsSheet, Sheet, MapSeq, Detail, Outcome
<1>11. TellsAlike(u, s, GapPlaces(s), DOMAIN u, GapPlaces(s), g, DetailAt(corpus))
  BY <1>1, <1>10 DEF TellsAlike, DetailAt, OutcomeAt, GapPlaces
<1>12. Tally(g) = TallyAt(DetailAt(corpus), GapPlaces(s))
  <2>1. DOMAIN g = DOMAIN u
    BY <1>10
  <2> QED
    BY <1>8, <1>11, <2>1, WholeListTally
<1> QED
  BY <1>1, <1>3, <1>6, <1>9, <1>12

LEMMA PayloadTells ==
  ASSUME corpus \in Assembled
  PROVE  /\ Tally(MapSeq(Payload(corpus).results, Outcome)) =
              TallyAt(OutcomeAt(corpus.results), DOMAIN corpus.results)
         /\ Tally(MapSeq(Payload(corpus).gaps, Outcome)) =
              TallyAt(OutcomeAt(corpus.results), GapPlaces(corpus.results))
         /\ Tally(MapSeq(Payload(corpus).gaps, Detail)) =
              TallyAt(DetailAt(corpus), GapPlaces(corpus.results))
<1>1. PICK s, t : s = corpus.results /\ t = OrderedScopedResults(s)
  OBVIOUS
<1>2. IsFiniteSet(DOMAIN s) /\ DrawsFrom(t, s, DOMAIN s)
  BY <1>1, CorpusDraws
<1>3. PICK m : m = MapSeq(Payload(corpus).results, Outcome)
  OBVIOUS
<1>4. m = [n \in DOMAIN t |-> <<t[n].framework_id, t[n].control_id, t[n].rule_id, t[n].status>>]
  BY <1>1, <1>3 DEF Payload, ResultMember, MapSeq, Outcome
<1>5. TellsAlike(t, s, DOMAIN s, DOMAIN t, DOMAIN s, m, OutcomeAt(s))
  BY <1>4 DEF TellsAlike, OutcomeAt
<1>6. Tally(m) = TallyAt(OutcomeAt(s), DOMAIN s)
  <2>1. DOMAIN m = DOMAIN t
    BY <1>4
  <2> QED
    BY <1>2, <1>5, <2>1, WholeListTally
<1>7. PICK u : u = Kept(t, IsGap)
  OBVIOUS
<1>8. IsFiniteSet(GapPlaces(s)) /\ DrawsFrom(u, s, GapPlaces(s))
  BY <1>1, <1>7, CorpusDraws
<1>9. PICK g, h : /\ g = MapSeq(Payload(corpus).gaps, Outcome)
                  /\ h = MapSeq(Payload(corpus).gaps, Detail)
  OBVIOUS
<1>10. /\ g = [n \in DOMAIN u |->
                 <<u[n].framework_id, u[n].control_id, u[n].rule_id, u[n].status>>]
       /\ h = [n \in DOMAIN u |->
                 <<<<u[n].framework_id, u[n].control_id, u[n].rule_id, u[n].status>>,
                   GapReference(corpus.controls, u[n]),
                   FrameworkSource(corpus.frameworks, u[n].framework_id)>>]
  BY <1>1, <1>7, <1>9 DEF Payload, GapMembers, GapMember, MapSeq, Detail, Outcome
<1>11. /\ TellsAlike(u, s, GapPlaces(s), DOMAIN u, GapPlaces(s), g, OutcomeAt(s))
       /\ TellsAlike(u, s, GapPlaces(s), DOMAIN u, GapPlaces(s), h, DetailAt(corpus))
  BY <1>1, <1>10 DEF TellsAlike, DetailAt, OutcomeAt, GapPlaces
<1>12. /\ Tally(g) = TallyAt(OutcomeAt(s), GapPlaces(s))
       /\ Tally(h) = TallyAt(DetailAt(corpus), GapPlaces(s))
  <2>1. DOMAIN g = DOMAIN u /\ DOMAIN h = DOMAIN u
    BY <1>10
  <2> QED
    BY <1>8, <1>11, <2>1, WholeListTally
<1> QED
  BY <1>1, <1>3, <1>6, <1>9, <1>12

\* The lines of the report with a tag, and those of them that count.
Counts(C, L, tag, K, mid, n) ==
  /\ \A i \in C : i \in DOMAIN L /\ L[i].tag = tag
  /\ K \subseteq DOMAIN mid /\ \A k \in DOMAIN mid : k \in K <=> n + k \in C

TellsOutcomes(m, mid) == DOMAIN m = DOMAIN mid /\ \A k \in DOMAIN mid : m[k] = Outcome(mid[k])

OutcomesTold(L, C) ==
  [x \in {Outcome(L[i]) : i \in C} |-> Cardinality({i \in C : Outcome(L[i]) = x})]

LEMMA CountedLines ==
  ASSUME NEW L, NEW mid, NEW n, NEW tag, IsPart(mid, L, n, tag),
         NEW C, NEW K, Counts(C, L, tag, K, mid, n), NEW m, TellsOutcomes(m, mid)
  PROVE  OutcomesTold(L, C) = TallyAt(m, K)
<1> USE DEF IsPart, Counts
<1>0. DOMAIN m = DOMAIN mid /\ \A k \in DOMAIN mid : m[k] = Outcome(mid[k])
  BY DEF TellsOutcomes
<1>1. C = {n + k : k \in K}
  <2>1. ASSUME NEW i \in C
        PROVE  \E k \in K : i = n + k
    <3>1. i \in {j \in DOMAIN L : L[j].tag = tag}
      BY <2>1
    <3>2. PICK k \in DOMAIN mid : i = n + k
      BY <3>1
    <3> QED
      BY <2>1, <3>2
  <2>2. \A k \in K : n + k \in C
    OBVIOUS
  <2> QED
    BY <2>1, <2>2
<1>2. PICK w : w = [i \in C |-> Outcome(L[i])]
  OBVIOUS
<1>3. ShowsAfter(w, n, m, K)
  BY <1>0, <1>1, <1>2 DEF ShowsAfter
<1>4. IsFiniteSet(K)
  BY FS_Subset
<1>5. TallyAt(w, {n + k : k \in K}) = TallyAt(m, K)
  BY <1>3, <1>4, ShiftedTally
<1>6. /\ {Outcome(L[i]) : i \in C} = {w[i] : i \in C}
      /\ \A x : {i \in C : Outcome(L[i]) = x} = {i \in C : w[i] = x}
  BY <1>2
<1>7. OutcomesTold(L, C) = TallyAt(w, C)
  BY <1>6 DEF TallyAt, OutcomesTold
<1> QED
  BY <1>1, <1>5, <1>7

LEMMA ReportTellsResults ==
  ASSUME corpus \in Assembled
  PROVE  TallyOf(CorpusLines(corpus), LAMBDA l : l.tag = "result", Outcome) =
           TallyAt(OutcomeAt(corpus.results), DOMAIN corpus.results)
<1>1. PICK pre, mid, post, L :
        /\ pre = ReportOpening(corpus) /\ mid = ResultLines(corpus)
        /\ post = <<Heading("Gaps")>> \o GapLines(corpus) /\ L = CorpusLines(corpus)
  OBVIOUS
<1>2. /\ IsList(pre) /\ IsList(mid) /\ IsList(post)
      /\ Without(pre, "result") /\ AllWith(mid, "result") /\ Without(post, "result")
  <2>1. Without(GapLines(corpus), "result")
    BY PartsAreLists DEF AllWith, Without
  <2>2. Without(<<Heading("Gaps")>> \o GapLines(corpus), "result")
    BY <2>1, PartsAreLists, GapsHeading, JoinWithout
  <2>3. IsList(<<Heading("Gaps")>> \o GapLines(corpus))
    BY PartsAreLists, GapsHeading, JoinedList
  <2> QED
    BY <1>1, <2>2, <2>3, OpeningIsList, PartsAreLists
<1>3. L = pre \o mid \o post
  <2>1. PICK heading, gaps : heading = <<Heading("Gaps")>> /\ gaps = GapLines(corpus)
    OBVIOUS
  <2>2. L = pre \o mid \o heading \o gaps /\ post = heading \o gaps
    BY <1>1, <2>1, ReportInParts
  <2>3. IsList(pre \o mid) /\ IsList(heading) /\ IsList(gaps)
    BY <1>2, <2>1, JoinedList, PartsAreLists, GapsHeading
  <2>4. PICK M : M = pre \o mid
    OBVIOUS
  <2>5. PICK T : T = Elements(M) \cup Elements(heading) \cup Elements(gaps)
    OBVIOUS
  <2>6. M \in Seq(Elements(M)) /\ heading \in Seq(Elements(heading)) /\ gaps \in Seq(Elements(gaps))
    BY <2>3, <2>4 DEF IsList
  <2>7. Elements(M) \subseteq T /\ Elements(heading) \subseteq T /\ Elements(gaps) \subseteq T
    BY <2>5
  <2>8. M \in Seq(T) /\ heading \in Seq(T) /\ gaps \in Seq(T)
    BY <2>6, <2>7
  <2>9. M \o heading \o gaps = M \o (heading \o gaps)
    BY <2>8, ConcatAssociative
  <2> QED
    BY <2>2, <2>4, <2>9
<1>4. IsPart(mid, L, Len(pre), "result")
  BY <1>2, <1>3, TaggedPart
<1>5. PICK C, m : C = {i \in DOMAIN L : L[i].tag = "result"} /\ m = MapSeq(mid, Outcome)
  OBVIOUS
<1>6. Counts(C, L, "result", DOMAIN mid, mid, Len(pre))
  BY <1>4, <1>5 DEF Counts, IsPart
<1>7. TallyOf(CorpusLines(corpus), LAMBDA l : l.tag = "result", Outcome) = TallyAt(m, DOMAIN mid)
  <2>1. TallyOf(CorpusLines(corpus), LAMBDA l : l.tag = "result", Outcome) =
          OutcomesTold(L, C)
    BY <1>1, <1>5 DEF TallyOf, OutcomesTold
  <2>2. TellsOutcomes(m, mid)
    BY <1>5 DEF TellsOutcomes, MapSeq
  <2>3. OutcomesTold(L, C) = TallyAt(m, DOMAIN mid)
    BY <1>4, <1>6, <2>2, CountedLines
  <2> QED
    BY <2>1, <2>3
<1>8. PICK s, t : s = corpus.results /\ t = OrderedScopedResults(s)
  OBVIOUS
<1>9. IsFiniteSet(DOMAIN s) /\ DrawsFrom(t, s, DOMAIN s)
  BY <1>8, CorpusDraws
<1>10. m = [n \in DOMAIN t |-> <<t[n].framework_id, t[n].control_id, t[n].rule_id, t[n].status>>]
       /\ DOMAIN mid = DOMAIN t
  BY <1>1, <1>5, <1>8 DEF ResultLines, ResultLine, MapSeq, Outcome
<1>11. TellsAlike(t, s, DOMAIN s, DOMAIN t, DOMAIN s, m, OutcomeAt(s))
  BY <1>10 DEF TellsAlike, OutcomeAt
<1>12. TallyAt(m, DOMAIN t) = TallyAt(OutcomeAt(s), DOMAIN s)
  <2>1. DOMAIN t \in SUBSET DOMAIN t /\ DOMAIN s \in SUBSET DOMAIN s
    OBVIOUS
  <2> QED
    BY <1>9, <1>11, <2>1, DrawnTally
<1> QED
  BY <1>7, <1>8, <1>10, <1>12

LEMMA ReportTellsGaps ==
  ASSUME corpus \in Assembled
  PROVE  TallyOf(CorpusLines(corpus), LAMBDA l : l.tag = "gap" /\ l.framework # Blank, Outcome) =
           TallyAt(OutcomeAt(corpus.results), GapPlaces(corpus.results))
<1>1. PICK pre, mid, L :
        /\ pre = ReportOpening(corpus) \o ResultLines(corpus) \o <<Heading("Gaps")>>
        /\ mid = GapLines(corpus) /\ L = CorpusLines(corpus)
  OBVIOUS
<1>2. IsList(pre) /\ IsList(mid) /\ Without(pre, "gap") /\ AllWith(mid, "gap")
  <2>1. Without(ResultLines(corpus), "gap")
    BY PartsAreLists DEF AllWith, Without
  <2>2. /\ IsList(ReportOpening(corpus) \o ResultLines(corpus))
        /\ Without(ReportOpening(corpus) \o ResultLines(corpus), "gap")
    BY <2>1, OpeningIsList, PartsAreLists, JoinedList, JoinWithout
  <2>3. IsList(pre) /\ Without(pre, "gap")
    BY <1>1, <2>2, GapsHeading, JoinedList, JoinWithout
  <2> QED
    BY <1>1, <2>3, PartsAreLists
<1>3. IsPart(mid, L, Len(pre), "gap")
  <2>1. PICK post : post = <<>>
    OBVIOUS
  <2>2. IsList(post) /\ Without(post, "gap")
    BY <2>1 DEF IsList, Without
  <2>3. L = pre \o mid \o post
    <3>1. L = pre \o mid
      BY <1>1, ReportInParts
    <3>2. IsList(pre \o mid)
      BY <1>2, JoinedList
    <3>3. (pre \o mid) \o <<>> = pre \o mid
      BY <3>2, ConcatEmptySeq DEF IsList
    <3> QED
      BY <2>1, <3>1, <3>3
  <2> QED
    BY <1>2, <2>2, <2>3, TaggedPart
<1>4. PICK C, K, m : /\ C = {i \in DOMAIN L : L[i].tag = "gap" /\ L[i].framework # Blank}
                     /\ K = {k \in DOMAIN mid : mid[k].framework # Blank}
                     /\ m = MapSeq(mid, Outcome)
  OBVIOUS
<1>5. Counts(C, L, "gap", K, mid, Len(pre))
  BY <1>3, <1>4 DEF Counts, IsPart
<1>6. TallyOf(CorpusLines(corpus), LAMBDA l : l.tag = "gap" /\ l.framework # Blank, Outcome)
        = TallyAt(m, K)
  <2>1. TallyOf(CorpusLines(corpus), LAMBDA l : l.tag = "gap" /\ l.framework # Blank, Outcome) =
          OutcomesTold(L, C)
    BY <1>1, <1>4 DEF TallyOf, OutcomesTold
  <2>2. TellsOutcomes(m, mid)
    BY <1>4 DEF TellsOutcomes, MapSeq
  <2>3. OutcomesTold(L, C) = TallyAt(m, K)
    BY <1>3, <1>5, <2>2, CountedLines
  <2> QED
    BY <2>1, <2>3
<1>7. PICK s, u : /\ s = corpus.results
                  /\ u = Kept(OrderedScopedResults(s), LAMBDA r : IsGapStatus(r.status))
  OBVIOUS
<1>8. IsFiniteSet(AnyScopePlaces(s)) /\ DrawsFrom(u, s, AnyScopePlaces(s))
  BY <1>7, CorpusDraws
<1>9. /\ m = [n \in DOMAIN u |-> <<u[n].framework_id, u[n].control_id, u[n].rule_id, u[n].status>>]
      /\ DOMAIN mid = DOMAIN u /\ \A n \in DOMAIN u : mid[n].framework = u[n].framework_id
  BY <1>1, <1>4, <1>7 DEF GapLines, ResultLine, MapSeq, Outcome
<1>10. TellsAlike(u, s, AnyScopePlaces(s), K, GapPlaces(s), m, OutcomeAt(s))
  BY <1>4, <1>9 DEF TellsAlike, OutcomeAt, AnyScopePlaces, GapPlaces, IsGap
<1>11. TallyAt(m, K) = TallyAt(OutcomeAt(s), GapPlaces(s))
  <2>1. K \in SUBSET DOMAIN u /\ GapPlaces(s) \in SUBSET AnyScopePlaces(s)
    BY <1>4, <1>9 DEF GapPlaces, AnyScopePlaces, IsGap
  <2> QED
    BY <1>8, <1>10, <2>1, DrawnTally
<1> QED
  BY <1>6, <1>7, <1>11

\* The rows of the store's gaps have the keys of the gaps the JSON lists.
LEMMA GapKeysAgree ==
  ASSUME corpus \in Assembled
  PROVE  {ResultKey(g) : g \in GapRows(corpus)} =
           {<<x.framework, x.control, x.rule>> : x \in Elements(Payload(corpus).gaps)}
<1>1. PICK s, u : s = corpus.results /\ u = Kept(OrderedScopedResults(s), IsGap)
  OBVIOUS
<1>2. PICK places : places = GapPlaces(s)
  OBVIOUS
<1>3. /\ places \subseteq Nat /\ places \subseteq DOMAIN s
      /\ \A i \in DOMAIN s : i \in places <=> IsGap(s[i])
  <2>1. DOMAIN s \subseteq Nat
    BY <1>1, CorpusDraws, ResultPlaces
  <2> QED
    BY <1>2, <2>1 DEF GapPlaces
<1>4. {ResultKey(g) : g \in GapRows(corpus)} = {ResultKey(s[i]) : i \in places}
  <2>1. PICK first : first = {i \in DOMAIN s :
          IsGap(s[i]) /\ \A j \in DOMAIN s : IsGap(s[j]) /\ ResultKey(s[j]) = ResultKey(s[i]) => i <= j}
    OBVIOUS
  <2>2. {ResultKey(g) : g \in GapRows(corpus)} = {ResultKey(s[i]) : i \in first}
    <3>1. PICK firsts, rows : firsts = FirstGaps(s) /\ rows = GapRows(corpus)
      OBVIOUS
    <3>2. firsts = {s[i] : i \in first}
      BY <2>1, <3>1 DEF FirstGaps
    <3>3. rows = {[run_id |-> corpus.run_id, framework_id |-> r.framework_id,
                   control_id |-> r.control_id, rule_id |-> r.rule_id, status |-> r.status]
                    : r \in firsts}
      BY <1>1, <3>1 DEF GapRows
    <3>4. ASSUME NEW r \in firsts
          PROVE  \E g \in rows : ResultKey(g) = ResultKey(r)
      <4>1. PICK g : g = [run_id |-> corpus.run_id, framework_id |-> r.framework_id,
                          control_id |-> r.control_id, rule_id |-> r.rule_id,
                          status |-> r.status]
        OBVIOUS
      <4>2. g \in rows
        BY <3>3, <4>1
      <4>3. ResultKey(g) = ResultKey(r)
        BY <4>1 DEF ResultKey
      <4> QED
        BY <4>2, <4>3
    <3>5. \A g \in rows : \E r \in firsts : ResultKey(g) = ResultKey(r)
      BY <3>3 DEF ResultKey
    <3> QED
      BY <3>1, <3>2, <3>4, <3>5
  <2>3. ASSUME NEW i \in places
        PROVE  \E k \in first : ResultKey(s[k]) = ResultKey(s[i])
    <3>1. PICK S : S = {j \in places : ResultKey(s[j]) = ResultKey(s[i])}
      OBVIOUS
    <3>2. S \subseteq Nat /\ i \in S
      BY <1>3, <2>3, <3>1
    <3>3. PICK k \in S : \A j \in S : k <= j
      BY <3>2, FirstPosition
    <3>4. k \in places /\ ResultKey(s[k]) = ResultKey(s[i])
      BY <3>1, <3>3
    <3>5. k \in first
      BY <1>3, <2>1, <3>1, <3>3, <3>4
    <3> QED
      BY <3>4, <3>5
  <2>4. first \subseteq places
    BY <1>3, <2>1
  <2> QED
    BY <2>2, <2>3, <2>4
<1>5. /\ DOMAIN u = 1..Cardinality(places)
      /\ {ResultKey(u[n]) : n \in DOMAIN u} = {ResultKey(s[i]) : i \in places}
  <2>1. DrawsFrom(u, s, places)
    BY <1>1, <1>2, CorpusDraws
  <2>2. PICK b \in Bijection(1..Cardinality(places), places) :
          u = [n \in 1..Cardinality(places) |-> s[b[n]]]
    BY <2>1 DEF DrawsFrom
  <2>3. /\ b \in [1..Cardinality(places) -> places]
        /\ \A i \in places : \E n \in 1..Cardinality(places) : b[n] = i
    BY <2>2 DEF Bijection, Injection, Surjection
  <2> QED
    BY <2>2, <2>3
<1>6. {<<x.framework, x.control, x.rule>> : x \in Elements(Payload(corpus).gaps)}
        = {ResultKey(u[n]) : n \in DOMAIN u}
  <2>1. PICK g : g = Payload(corpus).gaps
    OBVIOUS
  <2>2. DOMAIN g = DOMAIN u
    BY <1>1, <2>1 DEF Payload, GapMembers, MapSeq
  <2>3. \A n \in DOMAIN u : <<g[n].framework, g[n].control, g[n].rule>> = ResultKey(u[n])
    BY <1>1, <2>1 DEF Payload, GapMembers, GapMember, MapSeq, ResultKey
  <2> QED
    BY <2>1, <2>2, <2>3 DEF Elements
<1> QED
  BY <1>4, <1>5, <1>6

LEMMA RedactionsAgree ==
  MapSeq(Workbook(corpus).evidence.rows, LAMBDA x : <<x.id, x.redaction>>) =
    MapSeq(Payload(corpus).evidence, LAMBDA x : <<x.id, x.redaction>>)
<1>1. PICK a, b : a = Workbook(corpus).evidence.rows /\ b = Payload(corpus).evidence
  OBVIOUS
<1>2. /\ DOMAIN a = DOMAIN corpus.evidence /\ DOMAIN b = DOMAIN corpus.evidence
      /\ \A i \in DOMAIN corpus.evidence :
           a[i].id = b[i].id /\ a[i].redaction = b[i].redaction
  BY <1>1 DEF Workbook, EvidenceSheet, Sheet, Payload, EvidenceMember, MapSeq
<1> QED
  BY <1>1, <1>2 DEF MapSeq

\* Whatever was assembled, the three formats tell the same run: each result and
\* each gap as often, with the same reference and source, and each evidence
\* record with the same redaction status; and the gaps are those the database
\* stores (matrix.rs, signed_json.rs and report.rs `export`).
THEOREM FormatsDoAgree == Spec => []FormatsAgree
<1>1. StoredInv => FormatsAgree
  <2> SUFFICES ASSUME StoredInv PROVE FormatsAgree
    OBVIOUS
  <2>1. corpus \in Assembled
    BY DEF StoredInv
  <2> QED
    BY <2>1, SheetsTell, PayloadTells, ReportTellsResults, ReportTellsGaps, GapKeysAgree,
       RedactionsAgree DEF FormatsAgree
<1> QED
  BY <1>1, RowsAreStored, PTL

=============================================================================
