--------------------------- MODULE LibrariesProofs ---------------------------
(***************************************************************************)
(* verify honours delegation receipts, for any parties, keys, lists,       *)
(* grants, options and clocks; the roots of an off-chain batch are of its  *)
(* sessions, for any number of overlapping calls; and /health tells what   *)
(* its probes found.  The three share nothing but this module.             *)
(***************************************************************************)
EXTENDS DelegationReceipts, OffchainBatch, HealthProbe, VerdictProofs, SequenceTheorems, WellFoundedInduction

-----------------------------------------------------------------------------
(* The status list.                                                        *)

Bytes == 0 .. 255
Field(b, w) == (b \div w) % 4
Replaced(b, w, s) == b - Field(b, w) * w + s * w

\* The slot that is set reads back, and its neighbours in the byte are kept.
LEMMA ByteKept ==
    ASSUME NEW b \in Bytes, NEW s \in 0 .. 2,
           NEW w \in {1, 4, 16, 64}, NEW x \in {1, 4, 16, 64}
    PROVE  /\ Replaced(b, w, s) \in Bytes
           /\ Field(Replaced(b, w, s), x) = IF x = w THEN s ELSE Field(b, x)
<1> USE DEF Bytes, Field, Replaced
<1>1. CASE w = 1
  <2>1. CASE x = 1 BY <1>1, <2>1
  <2>2. CASE x = 4 BY <1>1, <2>2
  <2>3. CASE x = 16 BY <1>1, <2>3
  <2>4. CASE x = 64 BY <1>1, <2>4
  <2> QED BY <2>1, <2>2, <2>3, <2>4
<1>2. CASE w = 4
  <2>1. CASE x = 1 BY <1>2, <2>1
  <2>2. CASE x = 4 BY <1>2, <2>2
  <2>3. CASE x = 16 BY <1>2, <2>3, SMTT(60)
  <2>4. CASE x = 64 BY <1>2, <2>4
  <2> QED BY <2>1, <2>2, <2>3, <2>4
<1>3. CASE w = 16
  <2>1. CASE x = 1 BY <1>3, <2>1
  <2>2. CASE x = 4 BY <1>3, <2>2
  <2>3. CASE x = 16 BY <1>3, <2>3
  <2>4. CASE x = 64 BY <1>3, <2>4
  <2> QED BY <2>1, <2>2, <2>3, <2>4
<1>4. CASE w = 64
  <2>1. CASE x = 1 BY <1>4, <2>1
  <2>2. CASE x = 4 BY <1>4, <2>2
  <2>3. CASE x = 16 BY <1>4, <2>3
  <2>4. CASE x = 64 BY <1>4, <2>4
  <2> QED BY <2>1, <2>2, <2>3, <2>4
<1> QED BY <1>1, <1>2, <1>3, <1>4

\* What is read out of a byte has two bits.
LEMMA QuarterOfByte ==
    ASSUME NEW b \in Nat, NEW w \in {1, 4, 16, 64}
    PROVE  (b \div w) % 4 \in 0 .. 3
<1>1. b \div w \in Int
  OBVIOUS
<1>2. \A q \in Int : q % 4 \in 0 .. 3
  OBVIOUS
<1> QED BY <1>1, <1>2

\* The list says of every index what setStatusBit was last asked for it.
SlotsKept ==
    /\ scenario \in Scenarios
    /\ bitstring \in [1 .. LIST_BYTES -> Bytes]
    /\ \A idx \in scenario.indices :
        ByteOf(idx) \in 1 .. LIST_BYTES => slots[idx] = Slot(bitstring, idx)

LEMMA WeightOfIndex ==
    ASSUME NEW idx \in Nat
    PROVE  /\ Weight(idx) \in {1, 4, 16, 64}
           /\ ByteOf(idx) \in Nat
           /\ \A j \in Nat : Weight(j) = Weight(idx) /\ ByteOf(j) = ByteOf(idx) => j = idx
<1> DEFINE W(m) == <<1, 4, 16, 64>>[m + 1]
<1>1. \A m \in 0 .. 3 : W(m) = IF m = 0 THEN 1 ELSE IF m = 1 THEN 4 ELSE IF m = 2 THEN 16 ELSE 64
  OBVIOUS
<1>2. \A j \in Nat : j % 4 \in 0 .. 3 /\ j = 4 * (j \div 4) + (j % 4)
  OBVIOUS
<1>3. \A j \in Nat : Weight(j) = W(j % 4)
  BY DEF Weight
<1> HIDE DEF W
<1>4. Weight(idx) \in {1, 4, 16, 64}
  BY <1>1, <1>2, <1>3
<1>5. ASSUME NEW j \in Nat, Weight(j) = Weight(idx), ByteOf(j) = ByteOf(idx)
      PROVE  j = idx
  <2>1. j % 4 = idx % 4
    BY <1>1, <1>2, <1>3, <1>5
  <2>2. j \div 4 = idx \div 4
    BY <1>5 DEF ByteOf
  <2> QED BY <1>2, <2>1, <2>2
<1>6. ByteOf(idx) \in Nat
  BY DEF ByteOf
<1> QED BY <1>4, <1>5, <1>6

LEMMA StatusSet ==
    ASSUME ScenarioAssumption, SlotsKept, NEW idx \in scenario.indices, NEW status \in 0 .. 2,
           slots \in [scenario.indices -> 0 .. 2], SetStatusBit(idx, status)
    PROVE  SlotsKept'
<1> USE DEF SlotsKept
<1>1. scenario.indices \subseteq Nat /\ scenario' = scenario /\ ByteOf(idx) \in 1 .. LIST_BYTES
  BY DEF ScenarioAssumption, SetStatusBit
<1> DEFINE b == bitstring[ByteOf(idx)]
           new == Replaced(b, Weight(idx), status)
<1>2. b \in Bytes /\ new \in Bytes
  <2>1. idx \in Nat /\ Weight(idx) \in {1, 4, 16, 64}
    BY <1>1, WeightOfIndex
  <2>2. b \in Bytes
    BY <1>1
  <2> QED BY <2>1, <2>2, ByteKept
<1>3. bitstring' = [bitstring EXCEPT ![ByteOf(idx)] = new]
  BY DEF SetStatusBit, WithStatus, Masked, Slot, Replaced, Field
<1> HIDE DEF b, new
<1>5. b = bitstring[ByteOf(idx)] /\ new = Replaced(b, Weight(idx), status)
  BY DEF b, new
<1>4. ASSUME NEW j \in scenario.indices, ByteOf(j) \in 1 .. LIST_BYTES
      PROVE  slots'[j] = Slot(bitstring', j)
  <2>1. j \in Nat /\ Weight(j) \in {1, 4, 16, 64} /\ Weight(idx) \in {1, 4, 16, 64}
    BY <1>1, WeightOfIndex
  <2>2. CASE ByteOf(j) # ByteOf(idx)
    <3>1. bitstring'[ByteOf(j)] = bitstring[ByteOf(j)]
      BY <1>1, <1>3, <1>4, <2>2
    <3>2. slots'[j] = slots[j]
      BY <2>2 DEF SetStatusBit
    <3> QED BY <1>4, <3>1, <3>2 DEF Slot
  <2>3. CASE ByteOf(j) = ByteOf(idx)
    <3>1. bitstring'[ByteOf(j)] = new
      BY <1>1, <1>3, <2>3
    <3>2. Field(new, Weight(j)) = IF Weight(j) = Weight(idx) THEN status ELSE Field(b, Weight(j))
      BY <1>2, <1>5, <2>1, ByteKept
    <3>3. Slot(bitstring', j) = IF Weight(j) = Weight(idx) THEN status ELSE Slot(bitstring, j)
      BY <1>5, <2>3, <3>1, <3>2 DEF Slot, Field
    <3>4. Weight(j) = Weight(idx) <=> j = idx
      BY <1>1, <2>1, <2>3, WeightOfIndex
    <3>5. slots'[j] = IF j = idx THEN status ELSE slots[j]
      BY DEF SetStatusBit
    <3> QED BY <1>4, <3>3, <3>4, <3>5
  <2> QED BY <2>2, <2>3
<1> QED BY <1>1, <1>2, <1>3, <1>4

-----------------------------------------------------------------------------
(* Documents.                                                              *)

Document(d) == d = [header |-> d.header, claims |-> d.claims, signature |-> d.signature]

\* A receipt carries what its issuer signed; one that is bound to a holder or has
\* a slot is of the issuer's form, its permission a label.
ReceiptsSigned ==
    \A r \in receipts :
        /\ Document(r) /\ SignedBy(r, r.signature[1])
        /\ r.claims.iat \in Int /\ r.claims.exp \in Int
        /\ Given(r.claims.cnf) \/ Given(r.claims.status) =>
            /\ r.header.typ = ISS_TYP /\ r.header.alg = "EdDSA" /\ Given(r.header.kid)
            /\ IsLabel(r.claims.perm) /\ Given(r.signature[1])
            /\ r.claims.status \in scenario.indices \cup {Undefined}

ProofsDated ==
    \A kb \in presented :
        /\ Document(kb) /\ kb.claims.iat \in Int
        /\ kb.claims = [aud |-> kb.claims.aud, nonce |-> kb.claims.nonce, sd_hash |-> kb.claims.sd_hash,
                        iat |-> kb.claims.iat]

\* What a bearer alters keeps the signature it came with.
LEMMA AlteredKeepsSignature ==
    ASSUME NEW r, Document(r), NEW d \in Altered(r)
    PROVE  Document(d) /\ d.signature = r.signature
BY DEF Document, Altered

LEMMA DocumentsCarrySignatures ==
    ASSUME ReceiptsSigned, NEW d \in Documents
    PROVE  Document(d) /\ \E r \in receipts : d.signature = r.signature
<1>1. CASE d \in receipts
  BY <1>1 DEF ReceiptsSigned
<1>2. CASE d \notin receipts
  <2>1. PICK r \in receipts : d \in Altered(r)
    BY <1>2 DEF Documents
  <2> QED BY <2>1, AlteredKeepsSignature DEF ReceiptsSigned
<1> QED BY <1>1, <1>2

\* What is signed as it stands was issued as it stands.
LEMMA SignedIsIssued ==
    ASSUME ReceiptsSigned, NEW d \in Documents, NEW k, SignedBy(d, k)
    PROVE  d \in receipts
<1>1. Document(d)
  BY DocumentsCarrySignatures
<1>2. PICK r \in receipts : d.signature = r.signature
  BY DocumentsCarrySignatures
<1>3. Document(r) /\ r.signature = <<r.signature[1], r.header, r.claims>>
  BY DEF ReceiptsSigned, SignedBy
<1>4. d.signature = <<k, d.header, d.claims>>
  BY DEF SignedBy
<1>5. d.header = r.header /\ d.claims = r.claims
  BY <1>2, <1>3, <1>4
<1>6. d = r
  BY <1>1, <1>2, <1>3, <1>5 DEF Document
<1> QED BY <1>6

LEMMA ProofsAreDated ==
    ASSUME ScenarioAssumption, ProofsDated, NEW kb \in Proofs
    PROVE  kb.claims.iat \in Int
<1>1. CASE kb \in presented
  BY <1>1 DEF ProofsDated
<1>2. ASSUME NEW p \in presented, NEW holder, kb \in OtherProofs(p, holder)
      PROVE  kb.claims.iat \in Int
  <2>1. /\ Document(p) /\ p.claims.iat \in Int /\ SKEW \in Int
        /\ p.claims = [aud |-> p.claims.aud, nonce |-> p.claims.nonce, sd_hash |-> p.claims.sd_hash,
                       iat |-> p.claims.iat]
    BY DEF ProofsDated, ScenarioAssumption
  <2>2. [p.claims EXCEPT !.iat = @ + SKEW + 1].iat = p.claims.iat + SKEW + 1
    BY <2>1
  <2>3. [p EXCEPT !.header.alg = "none"].claims = p.claims
    BY <2>1 DEF Document
  <2>4. kb.claims = p.claims \/ kb.claims = [p.claims EXCEPT !.iat = @ + SKEW + 1]
    <3> DEFINE renamed == Signed(holder, [p.header EXCEPT !.typ = "JWT"], p.claims)
               unsigned == [p EXCEPT !.header.alg = "none"]
               keyed == Signed(holder, [p.header EXCEPT !.kid = "another"], p.claims)
               dated == Signed(holder, p.header, [p.claims EXCEPT !.iat = @ + SKEW + 1])
    <3>1. kb \in {renamed, unsigned, keyed, dated}
      BY <1>2 DEF OtherProofs
    <3>2. renamed.claims = p.claims /\ keyed.claims = p.claims
      BY DEF Signed
    <3>3. dated.claims = [p.claims EXCEPT !.iat = @ + SKEW + 1]
      BY DEF Signed
    <3> HIDE DEF renamed, keyed, dated
    <3>4. unsigned.claims = p.claims
      BY <2>3
    <3> HIDE DEF unsigned
    <3> QED BY <3>1, <3>2, <3>3, <3>4
  <2> QED BY <2>1, <2>2, <2>4
<1>3. kb \in presented \/ \E p \in presented, holder \in scenario.holders : kb \in OtherProofs(p, holder)
  BY DEF Proofs
<1> QED BY <1>1, <1>2, <1>3

\* What may be handed over grows with what was issued and presented.
LEMMA HandedGrows ==
    ASSUME scenario' = scenario, receipts \subseteq receipts', presented \subseteq presented'
    PROVE  Documents \subseteq Documents' /\ Proofs \subseteq Proofs' /\ Handed \subseteq Handed'
<1>1. Documents \subseteq Documents'
  BY DEF Documents
<1>2. Proofs \subseteq Proofs'
  BY DEF Proofs
<1>3. Handed \subseteq Handed'
  BY <1>1, <1>2 DEF Handed
<1> QED BY <1>1, <1>2, <1>3

LEMMA HandedIsShaped ==
    ASSUME NEW h \in Handed
    PROVE  /\ h.jws \in Documents
           /\ h.shape = "presented" => h.kb \in Proofs
           /\ h.torn \in {"none", "header", "payload", "kb"}
           /\ h.shape \in {"presented", "compact", "issuer", "other"}
BY DEF Handed, Shaped

\* Every step that makes documents keeps them as they should be.
LEMMA IssueKeeps ==
    ASSUME ScenarioAssumption, scenario \in Scenarios, clock \in Int, ReceiptsSigned,
           \/ \E grant \in scenario.grants : Allow(grant)
           \/ \E grant \in scenario.grantsV01 : AllowV01(grant)
    PROVE  ReceiptsSigned'
<1>1. ASSUME NEW key, NEW header, NEW grant \in scenario.grants \cup scenario.grantsV01, NEW holder, NEW status,
             Issue(key, header, grant, holder, status),
             Given(holder) \/ Given(status) =>
                /\ header.typ = ISS_TYP /\ header.alg = "EdDSA" /\ Given(header.kid)
                /\ IsLabel(grant.perm) /\ Given(key) /\ status \in scenario.indices \cup {Undefined}
      PROVE  ReceiptsSigned'
  <2> DEFINE claims == [iss |-> grant.iss, sub |-> grant.sub, aud |-> grant.aud, act |-> grant.act,
                        perm |-> grant.perm, max |-> grant.max, cnf |-> holder, status |-> status,
                        iat |-> clock + grant.ahead, exp |-> clock + grant.ahead + grant.ttl]
             new == Signed(key, header, claims)
  <2>1. receipts' = receipts \cup {new} /\ scenario' = scenario
    BY <1>1 DEF Issue
  <2>2. grant.ahead \in Int /\ grant.ttl \in Int
    BY DEF ScenarioAssumption
  <2>3. /\ claims.iat \in Int /\ claims.exp \in Int
        /\ claims.cnf = holder /\ claims.status = status /\ claims.perm = grant.perm
    BY <2>2
  <2> HIDE DEF claims
  <2>4. /\ Document(new) /\ SignedBy(new, new.signature[1]) /\ new.signature[1] = key
        /\ new.claims = claims /\ new.header = header
    BY DEF Signed, Document, SignedBy
  <2> HIDE DEF new
  <2> QED BY <1>1, <2>1, <2>3, <2>4 DEF ReceiptsSigned, Document, SignedBy, Given, IsLabel
<1>2. ASSUME NEW grant \in scenario.grants, Allow(grant)
      PROVE  ReceiptsSigned'
  <2>1. IsLabel(grant.perm) /\ Given(grant.kid) /\ Given(grant.key) /\ grant.status \in scenario.indices \cup {Undefined}
    BY DEF ScenarioAssumption
  <2>2. LET header == Header(ISS_TYP, grant.kid)
        IN  header.typ = ISS_TYP /\ header.alg = "EdDSA" /\ header.kid = grant.kid
    BY DEF Header
  <2> QED BY <1>1, <1>2, <2>1, <2>2 DEF Allow
<1>3. ASSUME NEW grant \in scenario.grantsV01, AllowV01(grant)
      PROVE  ReceiptsSigned'
  BY <1>1, <1>3 DEF AllowV01, Given
<1> QED BY <1>2, <1>3

LEMMA PresentKeeps ==
    ASSUME clock \in Int, ProofsDated, NEW receipt, NEW holder, NEW nonce, NEW audience,
           Present(receipt, holder, nonce, audience)
    PROVE  ProofsDated'
<1> DEFINE new == Proof(receipt, holder, nonce, audience, clock)
<1>1. presented' = presented \cup {new}
  BY DEF Present
<1>2. /\ Document(new) /\ new.claims.iat \in Int
      /\ new.claims = [aud |-> new.claims.aud, nonce |-> new.claims.nonce, sd_hash |-> new.claims.sd_hash,
                       iat |-> new.claims.iat]
  BY DEF Proof, Signed, Document
<1> HIDE DEF new
<1> QED BY <1>1, <1>2 DEF ProofsDated, Document





-----------------------------------------------------------------------------
(* The cascades.                                                           *)

\* checkIssuerClaims: what a pass means, and which refusals are about time.
LEMMA ClaimsJudged ==
    ASSUME NEW claims, NEW options, NEW now, NEW granted
    PROVE  LET out == FirstRefusal(ClaimChecks(claims, options, now), granted)
           IN  \/ out = granted /\ ~Expired(claims, now) /\ Within(claims, options, FALSE)
               \/ out = "EXPIRED" /\ Expired(claims, now)
               \/ out = "FUTURE_NBF" /\ ~(claims.iat - SKEW <= now)
               \/ /\ out \in {"WRONG_AUDIENCE", "WRONG_SUBJECT", "WRONG_ACTION", "PERMISSION_VIOLATION",
                              "AMOUNT_EXCEEDS_CAP", "CURRENCY_MISMATCH"}
                  /\ ~Within(claims, options, FALSE)
<1> DEFINE checks == ClaimChecks(claims, options, now)
<1>1. DOMAIN checks = 1 .. 8 /\ DOMAIN checks \in SUBSET Nat
  BY DEF ClaimChecks
<1>2. /\ checks[1][1] = (~Expired(claims, now))
      /\ checks[2][1] = (claims.iat - SKEW <= now)
      /\ checks[3][1] = (claims.aud = options.audience)
      /\ checks[4][1] = (options.subject \in {Undefined, claims.sub})
      /\ checks[5][1] = (options.action \in {Undefined, claims.act})
      /\ checks[6][1] = (Given(options.perm) => PermImplies(claims.perm, options.perm))
      /\ checks[7][1] = (Given(options.amount) => Given(claims.max) /\ options.amount <= claims.max.amount)
      /\ checks[8][1] = (Given(options.amount) /\ Given(options.currency) /\ Given(claims.max) => claims.max.currency = options.currency)
  BY DEF ClaimChecks
<1>3. /\ checks[1][2] = "EXPIRED"
      /\ checks[2][2] = "FUTURE_NBF"
      /\ checks[3][2] = "WRONG_AUDIENCE"
      /\ checks[4][2] = "WRONG_SUBJECT"
      /\ checks[5][2] = "WRONG_ACTION"
      /\ checks[6][2] = "PERMISSION_VIOLATION"
      /\ checks[7][2] = "AMOUNT_EXCEEDS_CAP"
      /\ checks[8][2] = "CURRENCY_MISMATCH"
  BY DEF ClaimChecks
<1> HIDE DEF checks
<1>4. \/ (\A i \in 1 .. 8 : checks[i][1]) /\ FirstRefusal(checks, granted) = granted
      \/ \E i \in 1 .. 8 : ~checks[i][1] /\ FirstRefusal(checks, granted) = checks[i][2]
                          /\ \A j \in 1 .. 8 : j < i => checks[j][1]
  BY <1>1, FirstRefusalFirst
<1>5. Within(claims, options, FALSE) <=> \A i \in 3 .. 8 : checks[i][1]
  <2>1. (\A i \in 3 .. 8 : checks[i][1]) <=>
          checks[3][1] /\ checks[4][1] /\ checks[5][1] /\ checks[6][1] /\ checks[7][1] /\ checks[8][1]
    <3>1. \A i \in 3 .. 8 : i \in {3, 4, 5, 6, 7, 8}
      OBVIOUS
    <3>2. {3, 4, 5, 6, 7, 8} \subseteq 3 .. 8
      OBVIOUS
    <3> QED BY ONLY <3>1, <3>2, Zenon
  <2>2. CASE Given(claims.max)
    BY <1>2, <2>1, <2>2, Zenon DEF Within, Given
  <2>3. CASE ~Given(claims.max)
    BY <1>2, <2>1, <2>3, Zenon DEF Within
  <2> QED BY <2>2, <2>3
<1>6. CASE (\A i \in 1 .. 8 : checks[i][1]) /\ FirstRefusal(checks, granted) = granted
  <2>1. checks[1][1] /\ \A i \in 3 .. 8 : checks[i][1]
    BY <1>6
  <2> QED BY <1>2, <1>5, <1>6, <2>1 DEF checks
<1>7. ASSUME NEW i \in 1 .. 8, ~checks[i][1], FirstRefusal(checks, granted) = checks[i][2]
      PROVE  \/ FirstRefusal(checks, granted) = "EXPIRED" /\ Expired(claims, now)
             \/ FirstRefusal(checks, granted) = "FUTURE_NBF" /\ ~(claims.iat - SKEW <= now)
             \/ /\ FirstRefusal(checks, granted) \in {"WRONG_AUDIENCE", "WRONG_SUBJECT", "WRONG_ACTION",
                      "PERMISSION_VIOLATION", "AMOUNT_EXCEEDS_CAP", "CURRENCY_MISMATCH"}
                /\ ~Within(claims, options, FALSE)
  <2>1. CASE i = 1
    BY <1>2, <1>3, <1>7, <2>1
  <2>2. CASE i = 2
    BY <1>2, <1>3, <1>7, <2>2
  <2>3. CASE i \in 3 .. 8
    <3>1. ~Within(claims, options, FALSE)
      BY <1>5, <1>7, <2>3
    <3>2. checks[i][2] \in {"WRONG_AUDIENCE", "WRONG_SUBJECT", "WRONG_ACTION",
              "PERMISSION_VIOLATION", "AMOUNT_EXCEEDS_CAP", "CURRENCY_MISMATCH"}
      BY <1>3, <2>3
    <3> QED BY <1>7, <3>1, <3>2
  <2>4. i = 1 \/ i = 2 \/ i \in 3 .. 8
    OBVIOUS
  <2> QED BY <2>1, <2>2, <2>3, <2>4, Zenon
<1>8. CASE \E i \in 1 .. 8 : ~checks[i][1] /\ FirstRefusal(checks, granted) = checks[i][2]
  <2>1. PICK i \in 1 .. 8 : ~checks[i][1] /\ FirstRefusal(checks, granted) = checks[i][2]
    BY <1>8
  <2>2. \/ FirstRefusal(checks, granted) = "EXPIRED" /\ Expired(claims, now)
        \/ FirstRefusal(checks, granted) = "FUTURE_NBF" /\ ~(claims.iat - SKEW <= now)
        \/ /\ FirstRefusal(checks, granted) \in {"WRONG_AUDIENCE", "WRONG_SUBJECT", "WRONG_ACTION",
                 "PERMISSION_VIOLATION", "AMOUNT_EXCEEDS_CAP", "CURRENCY_MISMATCH"}
           /\ ~Within(claims, options, FALSE)
    BY <1>7, <2>1
  <2> QED BY <2>2 DEF checks
<1> QED BY <1>4, <1>6, <1>8

\* The structure of a compact form, and of the presented form.
LEMMA CompactJudged ==
    ASSUME NEW handed, NEW options, NEW now, handed.shape = "compact"
    PROVE  LET out == FirstRefusal(StructureChecks(handed, options, now), "ok")
           IN  \/ out = "ok" /\ Given(options.audience)
               \/ out = "LEGACY_V01_REJECTED"
               \/ out = "BAD_FORMAT"
               \/ out = "INVALID_SIGNATURE"
<1> DEFINE checks == StructureChecks(handed, options, now)
           Judged(out) ==
               \/ out = "ok" /\ Given(options.audience)
               \/ out = "LEGACY_V01_REJECTED"
               \/ out = "BAD_FORMAT"
               \/ out = "INVALID_SIGNATURE"
<1>1. DOMAIN checks = 1 .. 6 /\ DOMAIN checks \in SUBSET Nat
  BY DEF StructureChecks
<1>2. /\ checks[1][1] = (options.acceptLegacyV01)
      /\ checks[2][1] = (Given(options.audience))
      /\ checks[3][1] = (options.trust # "none")
      /\ checks[4][1] = (handed.torn # "header")
      /\ checks[5][1] = (handed.torn # "payload")
      /\ checks[6][1] = (options.trust = "keys" => options.keys # <<>>)
  BY DEF StructureChecks
<1>3. /\ checks[1][2] = "LEGACY_V01_REJECTED"
      /\ checks[2][2] = "BAD_FORMAT"
      /\ checks[3][2] = "BAD_FORMAT"
      /\ checks[4][2] = "BAD_FORMAT"
      /\ checks[5][2] = "INVALID_SIGNATURE"
      /\ checks[6][2] = "BAD_FORMAT"
  BY DEF StructureChecks
<1> HIDE DEF checks
<1>4. CASE (\A i \in 1 .. 6 : checks[i][1]) /\ FirstRefusal(checks, "ok") = "ok"
  <2>1. checks[1][1] /\ checks[2][1] /\ checks[3][1] /\ checks[4][1] /\ checks[5][1] /\ checks[6][1]
    BY <1>4
  <2> QED BY <1>2, <1>4, <2>1 DEF checks
<1>5. CASE \E i \in 1 .. 6 : /\ ~checks[i][1] /\ FirstRefusal(checks, "ok") = checks[i][2]
                           /\ \A j \in 1 .. 6 : j < i => checks[j][1]
  <2>1. PICK i \in 1 .. 6 : /\ ~checks[i][1] /\ FirstRefusal(checks, "ok") = checks[i][2]
                            /\ \A j \in 1 .. 6 : j < i => checks[j][1]
    BY <1>5
  <2>2. ASSUME i = 1 PROVE Judged(FirstRefusal(checks, "ok"))
    BY <1>2, <1>3, <2>1, <2>2
  <2>3. ASSUME i = 2 PROVE Judged(FirstRefusal(checks, "ok"))
    BY <1>2, <1>3, <2>1, <2>3
  <2>4. ASSUME i = 3 PROVE Judged(FirstRefusal(checks, "ok"))
    BY <1>2, <1>3, <2>1, <2>4
  <2>5. ASSUME i = 4 PROVE Judged(FirstRefusal(checks, "ok"))
    BY <1>2, <1>3, <2>1, <2>5
  <2>6. ASSUME i = 5 PROVE Judged(FirstRefusal(checks, "ok"))
    BY <1>2, <1>3, <2>1, <2>6
  <2>7. ASSUME i = 6 PROVE Judged(FirstRefusal(checks, "ok"))
    BY <1>2, <1>3, <2>1, <2>7
  <2>8. i = 1 \/ i = 2 \/ i = 3 \/ i = 4 \/ i = 5 \/ i = 6
    OBVIOUS
  <2>9. Judged(FirstRefusal(checks, "ok"))
    BY <2>2, <2>3, <2>4, <2>5, <2>6, <2>7, <2>8, Zenon
  <2> QED BY <2>9 DEF checks
<1> QED BY <1>1, <1>4, <1>5, FirstRefusalFirst

LEMMA PresentedJudged ==
    ASSUME NEW handed, NEW options, NEW now, handed.shape # "compact"
    PROVE  LET out == FirstRefusal(StructureChecks(handed, options, now), "ok")
           IN  \/ out = "ok" /\ handed.shape = "presented" /\ options.trust = "resolver"
               \/ out = "KB_MISSING" /\ handed.shape # "presented"
               \/ out = "SD_JWT_MALFORMED" /\ handed.shape # "presented"
               \/ out = "SD_JWT_MALFORMED" /\ handed.torn # "none"
               \/ out = "UNSUPPORTED_ALG" /\ handed.jws.header.alg # "EdDSA"
               \/ out = "TYP_MISMATCH" /\ handed.jws.header.typ # ISS_TYP
               \/ out = "KID_MISSING" /\ ~Given(handed.jws.header.kid)
               \/ out = "EXPIRED" /\ Expired(handed.jws.claims, now)
               \/ out = "KID_RESOLVER_ERROR" /\ options.trust # "resolver"
<1> DEFINE checks == StructureChecks(handed, options, now)
           Judged(out) ==
               \/ out = "ok" /\ handed.shape = "presented" /\ options.trust = "resolver"
               \/ out = "KB_MISSING" /\ handed.shape # "presented"
               \/ out = "SD_JWT_MALFORMED" /\ handed.shape # "presented"
               \/ out = "SD_JWT_MALFORMED" /\ handed.torn # "none"
               \/ out = "UNSUPPORTED_ALG" /\ handed.jws.header.alg # "EdDSA"
               \/ out = "TYP_MISMATCH" /\ handed.jws.header.typ # ISS_TYP
               \/ out = "KID_MISSING" /\ ~Given(handed.jws.header.kid)
               \/ out = "EXPIRED" /\ Expired(handed.jws.claims, now)
               \/ out = "KID_RESOLVER_ERROR" /\ options.trust # "resolver"
<1>1. DOMAIN checks = 1 .. 9 /\ DOMAIN checks \in SUBSET Nat
  BY DEF StructureChecks
<1>2. /\ checks[1][1] = (handed.shape # "issuer")
      /\ checks[2][1] = (handed.shape = "presented")
      /\ checks[3][1] = (handed.torn # "header")
      /\ checks[4][1] = (handed.jws.header.alg = "EdDSA")
      /\ checks[5][1] = (handed.jws.header.typ = ISS_TYP)
      /\ checks[6][1] = (Given(handed.jws.header.kid))
      /\ checks[7][1] = (handed.torn # "payload")
      /\ checks[8][1] = (~Expired(handed.jws.claims, now))
      /\ checks[9][1] = (options.trust = "resolver")
  BY DEF StructureChecks
<1>3. /\ checks[1][2] = "KB_MISSING"
      /\ checks[2][2] = "SD_JWT_MALFORMED"
      /\ checks[3][2] = "SD_JWT_MALFORMED"
      /\ checks[4][2] = "UNSUPPORTED_ALG"
      /\ checks[5][2] = "TYP_MISMATCH"
      /\ checks[6][2] = "KID_MISSING"
      /\ checks[7][2] = "SD_JWT_MALFORMED"
      /\ checks[8][2] = "EXPIRED"
      /\ checks[9][2] = "KID_RESOLVER_ERROR"
  BY DEF StructureChecks
<1> HIDE DEF checks
<1>4. CASE (\A i \in 1 .. 9 : checks[i][1]) /\ FirstRefusal(checks, "ok") = "ok"
  <2>1. checks[1][1] /\ checks[2][1] /\ checks[3][1] /\ checks[4][1] /\ checks[5][1] /\ checks[6][1] /\ checks[7][1] /\ checks[8][1] /\ checks[9][1]
    BY <1>4
  <2> QED BY <1>2, <1>4, <2>1 DEF checks
<1>5. CASE \E i \in 1 .. 9 : /\ ~checks[i][1] /\ FirstRefusal(checks, "ok") = checks[i][2]
                           /\ \A j \in 1 .. 9 : j < i => checks[j][1]
  <2>1. PICK i \in 1 .. 9 : /\ ~checks[i][1] /\ FirstRefusal(checks, "ok") = checks[i][2]
                            /\ \A j \in 1 .. 9 : j < i => checks[j][1]
    BY <1>5
  <2>2. ASSUME i = 1 PROVE Judged(FirstRefusal(checks, "ok"))
    BY <1>2, <1>3, <2>1, <2>2
  <2>3. ASSUME i = 2 PROVE Judged(FirstRefusal(checks, "ok"))
    BY <1>2, <1>3, <2>1, <2>3
  <2>4. ASSUME i = 3 PROVE Judged(FirstRefusal(checks, "ok"))
    BY <1>2, <1>3, <2>1, <2>4
  <2>5. ASSUME i = 4 PROVE Judged(FirstRefusal(checks, "ok"))
    BY <1>2, <1>3, <2>1, <2>5
  <2>6. ASSUME i = 5 PROVE Judged(FirstRefusal(checks, "ok"))
    BY <1>2, <1>3, <2>1, <2>6
  <2>7. ASSUME i = 6 PROVE Judged(FirstRefusal(checks, "ok"))
    BY <1>2, <1>3, <2>1, <2>7
  <2>8. ASSUME i = 7 PROVE Judged(FirstRefusal(checks, "ok"))
    BY <1>2, <1>3, <2>1, <2>8
  <2>9. ASSUME i = 8 PROVE Judged(FirstRefusal(checks, "ok"))
    BY <1>2, <1>3, <2>1, <2>9
  <2>10. ASSUME i = 9 PROVE Judged(FirstRefusal(checks, "ok"))
    BY <1>2, <1>3, <2>1, <2>10
  <2>11. i = 1 \/ i = 2 \/ i = 3 \/ i = 4 \/ i = 5 \/ i = 6 \/ i = 7 \/ i = 8 \/ i = 9
    OBVIOUS
  <2>12. Judged(FirstRefusal(checks, "ok"))
    BY <2>2, <2>3, <2>4, <2>5, <2>6, <2>7, <2>8, <2>9, <2>10, <2>11, Zenon
  <2> QED BY <2>12 DEF checks
<1> QED BY <1>1, <1>4, <1>5, FirstRefusalFirst

\* jose's jwtVerify.
LEMMA JwtJudged ==
    ASSUME NEW jws, NEW key, NEW audience
    PROVE  LET out == FirstRefusal(<<<<SignedBy(jws, key), "INVALID_SIGNATURE">>,
                   <<Given(audience) => jws.claims.aud = audience, "WRONG_AUDIENCE">>,
                   <<~Expired(jws.claims, clock), "EXPIRED">>>>, "ok")
           IN  \/ out = "ok" /\ SignedBy(jws, key) /\ (Given(audience) => jws.claims.aud = audience) /\ ~Expired(jws.claims, clock)
               \/ out = "INVALID_SIGNATURE" /\ ~SignedBy(jws, key)
               \/ out = "WRONG_AUDIENCE" /\ Given(audience)
               \/ out = "EXPIRED" /\ Expired(jws.claims, clock)
<1> DEFINE checks == <<<<SignedBy(jws, key), "INVALID_SIGNATURE">>,
                   <<Given(audience) => jws.claims.aud = audience, "WRONG_AUDIENCE">>,
                   <<~Expired(jws.claims, clock), "EXPIRED">>>>
           Judged(out) ==
               \/ out = "ok" /\ SignedBy(jws, key) /\ (Given(audience) => jws.claims.aud = audience) /\ ~Expired(jws.claims, clock)
               \/ out = "INVALID_SIGNATURE" /\ ~SignedBy(jws, key)
               \/ out = "WRONG_AUDIENCE" /\ Given(audience)
               \/ out = "EXPIRED" /\ Expired(jws.claims, clock)
<1>1. DOMAIN checks = 1 .. 3 /\ DOMAIN checks \in SUBSET Nat
  BY DEF JwtVerify
<1>2. /\ checks[1][1] = (SignedBy(jws, key))
      /\ checks[2][1] = (Given(audience) => jws.claims.aud = audience)
      /\ checks[3][1] = (~Expired(jws.claims, clock))
  BY DEF JwtVerify
<1>3. /\ checks[1][2] = "INVALID_SIGNATURE"
      /\ checks[2][2] = "WRONG_AUDIENCE"
      /\ checks[3][2] = "EXPIRED"
  BY DEF JwtVerify
<1> HIDE DEF checks
<1>4. CASE (\A i \in 1 .. 3 : checks[i][1]) /\ FirstRefusal(checks, "ok") = "ok"
  <2>1. checks[1][1] /\ checks[2][1] /\ checks[3][1]
    BY <1>4
  <2> QED BY <1>2, <1>4, <2>1 DEF checks
<1>5. CASE \E i \in 1 .. 3 : /\ ~checks[i][1] /\ FirstRefusal(checks, "ok") = checks[i][2]
                           /\ \A j \in 1 .. 3 : j < i => checks[j][1]
  <2>1. PICK i \in 1 .. 3 : /\ ~checks[i][1] /\ FirstRefusal(checks, "ok") = checks[i][2]
                            /\ \A j \in 1 .. 3 : j < i => checks[j][1]
    BY <1>5
  <2>2. ASSUME i = 1 PROVE Judged(FirstRefusal(checks, "ok"))
    BY <1>2, <1>3, <2>1, <2>2
  <2>3. ASSUME i = 2 PROVE Judged(FirstRefusal(checks, "ok"))
    BY <1>2, <1>3, <2>1, <2>3
  <2>4. ASSUME i = 3 PROVE Judged(FirstRefusal(checks, "ok"))
    BY <1>2, <1>3, <2>1, <2>4
  <2>5. i = 1 \/ i = 2 \/ i = 3
    OBVIOUS
  <2>6. Judged(FirstRefusal(checks, "ok"))
    BY <2>2, <2>3, <2>4, <2>5, Zenon
  <2> QED BY <2>6 DEF checks
<1> QED BY <1>1, <1>4, <1>5, FirstRefusalFirst

\* The holder's proof: that one is asked for, ...
LEMMA HolderJudged ==
    ASSUME NEW handed, NEW options, NEW granted
    PROVE  LET out == FirstRefusal(HolderChecks(handed, options), granted)
           IN  \/ out = granted /\ Given(handed.jws.claims.cnf)
               \/ out = "CNF_MISSING" /\ ~Given(handed.jws.claims.cnf)
               \/ out = "KB_NONCE_REQUIRED" /\ ~Given(options.kbNonce)
               \/ out = "KB_BAD_FORMAT" /\ handed.torn # "none"
<1> DEFINE checks == HolderChecks(handed, options)
           Judged(out) ==
               \/ out = granted /\ Given(handed.jws.claims.cnf)
               \/ out = "CNF_MISSING" /\ ~Given(handed.jws.claims.cnf)
               \/ out = "KB_NONCE_REQUIRED" /\ ~Given(options.kbNonce)
               \/ out = "KB_BAD_FORMAT" /\ handed.torn # "none"
<1>1. DOMAIN checks = 1 .. 3 /\ DOMAIN checks \in SUBSET Nat
  BY DEF HolderChecks
<1>2. /\ checks[1][1] = (Given(handed.jws.claims.cnf))
      /\ checks[2][1] = (Given(options.kbNonce))
      /\ checks[3][1] = (handed.torn # "kb")
  BY DEF HolderChecks
<1>3. /\ checks[1][2] = "CNF_MISSING"
      /\ checks[2][2] = "KB_NONCE_REQUIRED"
      /\ checks[3][2] = "KB_BAD_FORMAT"
  BY DEF HolderChecks
<1> HIDE DEF checks
<1>4. CASE (\A i \in 1 .. 3 : checks[i][1]) /\ FirstRefusal(checks, granted) = granted
  <2>1. checks[1][1] /\ checks[2][1] /\ checks[3][1]
    BY <1>4
  <2> QED BY <1>2, <1>4, <2>1 DEF checks
<1>5. CASE \E i \in 1 .. 3 : /\ ~checks[i][1] /\ FirstRefusal(checks, granted) = checks[i][2]
                           /\ \A j \in 1 .. 3 : j < i => checks[j][1]
  <2>1. PICK i \in 1 .. 3 : /\ ~checks[i][1] /\ FirstRefusal(checks, granted) = checks[i][2]
                            /\ \A j \in 1 .. 3 : j < i => checks[j][1]
    BY <1>5
  <2>2. ASSUME i = 1 PROVE Judged(FirstRefusal(checks, granted))
    BY <1>2, <1>3, <2>1, <2>2
  <2>3. ASSUME i = 2 PROVE Judged(FirstRefusal(checks, granted))
    BY <1>2, <1>3, <2>1, <2>3
  <2>4. ASSUME i = 3 PROVE Judged(FirstRefusal(checks, granted))
    BY <1>2, <1>3, <2>1, <2>4
  <2>5. i = 1 \/ i = 2 \/ i = 3
    OBVIOUS
  <2>6. Judged(FirstRefusal(checks, granted))
    BY <2>2, <2>3, <2>4, <2>5, Zenon
  <2> QED BY <2>6 DEF checks
<1> QED BY <1>1, <1>4, <1>5, FirstRefusalFirst

\* ... and what it says.
LEMMA KbJudged ==
    ASSUME NEW kb, NEW receipt, NEW options, NEW now, NEW granted
    PROVE  LET out == FirstRefusal(KbChecks(kb, receipt, options, now), granted)
           IN  \/ out = granted /\ SignedBy(kb, receipt.claims.cnf) /\ kb.claims.aud = options.audience
                  /\ kb.claims.nonce = options.kbNonce /\ Presents(kb, receipt)
                  /\ kb.claims.iat - SKEW <= now /\ now - kb.claims.iat <= KB_MAX_AGE + SKEW
               \/ out = "KB_TYP_INVALID" /\ kb.header.typ # KB_TYP
               \/ out = "KB_ALG_UNSUPPORTED" /\ kb.header.alg # "EdDSA"
               \/ out = "KB_BINDING_MISMATCH" /\ kb.header.kid \notin {Undefined, receipt.claims.cnf}
               \/ out = "KB_INVALID_SIGNATURE" /\ ~SignedBy(kb, receipt.claims.cnf)
               \/ out = "KB_WRONG_AUDIENCE" /\ kb.claims.aud # options.audience
               \/ out = "KB_WRONG_NONCE" /\ kb.claims.nonce # options.kbNonce
               \/ out = "KB_WRONG_SD_HASH" /\ ~Presents(kb, receipt)
               \/ out = "KB_IAT_FUTURE" /\ ~(kb.claims.iat - SKEW <= now)
               \/ out = "KB_IAT_TOO_OLD" /\ ~(now - kb.claims.iat <= KB_MAX_AGE + SKEW)
<1> DEFINE checks == KbChecks(kb, receipt, options, now)
           Judged(out) ==
               \/ out = granted /\ SignedBy(kb, receipt.claims.cnf) /\ kb.claims.aud = options.audience
                  /\ kb.claims.nonce = options.kbNonce /\ Presents(kb, receipt)
                  /\ kb.claims.iat - SKEW <= now /\ now - kb.claims.iat <= KB_MAX_AGE + SKEW
               \/ out = "KB_TYP_INVALID" /\ kb.header.typ # KB_TYP
               \/ out = "KB_ALG_UNSUPPORTED" /\ kb.header.alg # "EdDSA"
               \/ out = "KB_BINDING_MISMATCH" /\ kb.header.kid \notin {Undefined, receipt.claims.cnf}
               \/ out = "KB_INVALID_SIGNATURE" /\ ~SignedBy(kb, receipt.claims.cnf)
               \/ out = "KB_WRONG_AUDIENCE" /\ kb.claims.aud # options.audience
               \/ out = "KB_WRONG_NONCE" /\ kb.claims.nonce # options.kbNonce
               \/ out = "KB_WRONG_SD_HASH" /\ ~Presents(kb, receipt)
               \/ out = "KB_IAT_FUTURE" /\ ~(kb.claims.iat - SKEW <= now)
               \/ out = "KB_IAT_TOO_OLD" /\ ~(now - kb.claims.iat <= KB_MAX_AGE + SKEW)
<1>1. DOMAIN checks = 1 .. 9 /\ DOMAIN checks \in SUBSET Nat
  BY DEF KbChecks
<1>2. /\ checks[1][1] = (kb.header.typ = KB_TYP)
      /\ checks[2][1] = (kb.header.alg = "EdDSA")
      /\ checks[3][1] = (kb.header.kid \in {Undefined, receipt.claims.cnf})
      /\ checks[4][1] = (SignedBy(kb, receipt.claims.cnf))
      /\ checks[5][1] = (kb.claims.aud = options.audience)
      /\ checks[6][1] = (kb.claims.nonce = options.kbNonce)
      /\ checks[7][1] = (Presents(kb, receipt))
      /\ checks[8][1] = (kb.claims.iat - SKEW <= now)
      /\ checks[9][1] = (now - kb.claims.iat <= KB_MAX_AGE + SKEW)
  BY DEF KbChecks
<1>3. /\ checks[1][2] = "KB_TYP_INVALID"
      /\ checks[2][2] = "KB_ALG_UNSUPPORTED"
      /\ checks[3][2] = "KB_BINDING_MISMATCH"
      /\ checks[4][2] = "KB_INVALID_SIGNATURE"
      /\ checks[5][2] = "KB_WRONG_AUDIENCE"
      /\ checks[6][2] = "KB_WRONG_NONCE"
      /\ checks[7][2] = "KB_WRONG_SD_HASH"
      /\ checks[8][2] = "KB_IAT_FUTURE"
      /\ checks[9][2] = "KB_IAT_TOO_OLD"
  BY DEF KbChecks
<1> HIDE DEF checks
<1>4. CASE (\A i \in 1 .. 9 : checks[i][1]) /\ FirstRefusal(checks, granted) = granted
  <2>1. checks[1][1] /\ checks[2][1] /\ checks[3][1] /\ checks[4][1] /\ checks[5][1] /\ checks[6][1] /\ checks[7][1] /\ checks[8][1] /\ checks[9][1]
    BY <1>4
  <2> QED BY <1>2, <1>4, <2>1 DEF checks
<1>5. CASE \E i \in 1 .. 9 : /\ ~checks[i][1] /\ FirstRefusal(checks, granted) = checks[i][2]
                           /\ \A j \in 1 .. 9 : j < i => checks[j][1]
  <2>1. PICK i \in 1 .. 9 : /\ ~checks[i][1] /\ FirstRefusal(checks, granted) = checks[i][2]
                            /\ \A j \in 1 .. 9 : j < i => checks[j][1]
    BY <1>5
  <2>2. ASSUME i = 1 PROVE Judged(FirstRefusal(checks, granted))
    BY <1>2, <1>3, <2>1, <2>2
  <2>3. ASSUME i = 2 PROVE Judged(FirstRefusal(checks, granted))
    BY <1>2, <1>3, <2>1, <2>3
  <2>4. ASSUME i = 3 PROVE Judged(FirstRefusal(checks, granted))
    BY <1>2, <1>3, <2>1, <2>4
  <2>5. ASSUME i = 4 PROVE Judged(FirstRefusal(checks, granted))
    BY <1>2, <1>3, <2>1, <2>5
  <2>6. ASSUME i = 5 PROVE Judged(FirstRefusal(checks, granted))
    BY <1>2, <1>3, <2>1, <2>6
  <2>7. ASSUME i = 6 PROVE Judged(FirstRefusal(checks, granted))
    BY <1>2, <1>3, <2>1, <2>7
  <2>8. ASSUME i = 7 PROVE Judged(FirstRefusal(checks, granted))
    BY <1>2, <1>3, <2>1, <2>8
  <2>9. ASSUME i = 8 PROVE Judged(FirstRefusal(checks, granted))
    BY <1>2, <1>3, <2>1, <2>9
  <2>10. ASSUME i = 9 PROVE Judged(FirstRefusal(checks, granted))
    BY <1>2, <1>3, <2>1, <2>10
  <2>11. i = 1 \/ i = 2 \/ i = 3 \/ i = 4 \/ i = 5 \/ i = 6 \/ i = 7 \/ i = 8 \/ i = 9
    OBVIOUS
  <2>12. Judged(FirstRefusal(checks, granted))
    BY <2>2, <2>3, <2>4, <2>5, <2>6, <2>7, <2>8, <2>9, <2>10, <2>11, Zenon
  <2> QED BY <2>12 DEF checks
<1> QED BY <1>1, <1>4, <1>5, FirstRefusalFirst

\* checkSemantics of the v0.1 path.
LEMMA SemanticsJudged ==
    ASSUME NEW claims, NEW options
    PROVE  LET out == FirstRefusal(SemanticChecks(claims, options), "ok")
           IN  \/ out = "ok" /\ options.subject \in {Undefined, claims.sub} /\ options.action \in {Undefined, claims.act}
                  /\ ~IsLabel(claims.perm)
                  /\ (Given(options.perm) => Numeric(options.perm) \subseteq Numeric(claims.perm))
                  /\ (Given(options.amount) /\ Given(options.currency) /\ Given(claims.max)
                        => claims.max.currency = options.currency /\ options.amount <= claims.max.amount)
               \/ out = "WRONG_SUBJECT"
               \/ out = "WRONG_ACTION"
               \/ out = "BAD_FORMAT"
               \/ out = "PERMISSION_VIOLATION"
               \/ out = "CURRENCY_MISMATCH"
               \/ out = "AMOUNT_EXCEEDS_CAP"
<1> DEFINE checks == SemanticChecks(claims, options)
           Judged(out) ==
               \/ out = "ok" /\ options.subject \in {Undefined, claims.sub} /\ options.action \in {Undefined, claims.act}
                  /\ ~IsLabel(claims.perm)
                  /\ (Given(options.perm) => Numeric(options.perm) \subseteq Numeric(claims.perm))
                  /\ (Given(options.amount) /\ Given(options.currency) /\ Given(claims.max)
                        => claims.max.currency = options.currency /\ options.amount <= claims.max.amount)
               \/ out = "WRONG_SUBJECT"
               \/ out = "WRONG_ACTION"
               \/ out = "BAD_FORMAT"
               \/ out = "PERMISSION_VIOLATION"
               \/ out = "CURRENCY_MISMATCH"
               \/ out = "AMOUNT_EXCEEDS_CAP"
<1>1. DOMAIN checks = 1 .. 8 /\ DOMAIN checks \in SUBSET Nat
  BY DEF SemanticChecks
<1>2. /\ checks[1][1] = (options.subject \in {Undefined, claims.sub})
      /\ checks[2][1] = (options.action \in {Undefined, claims.act})
      /\ checks[3][1] = (~IsLabel(claims.perm))
      /\ checks[4][1] = (ValidCumulative(Numeric(claims.perm)))
      /\ checks[5][1] = ((IF Given(options.perm) THEN Numeric(options.perm) ELSE {}) \subseteq Numeric(claims.perm))
      /\ checks[6][1] = (Given(options.amount) /\ Given(options.currency) /\ Given(claims.max) => claims.max.currency = options.currency)
      /\ checks[7][1] = (Given(options.amount) /\ Given(options.currency) /\ Given(claims.max) => options.amount <= claims.max.amount)
      /\ checks[8][1] = (Financial(claims.act) => "FINANCIAL_SMALL" \in Numeric(claims.perm))
  BY DEF SemanticChecks, V01Permission
<1>3. /\ checks[1][2] = "WRONG_SUBJECT"
      /\ checks[2][2] = "WRONG_ACTION"
      /\ checks[3][2] = "BAD_FORMAT"
      /\ checks[4][2] = "PERMISSION_VIOLATION"
      /\ checks[5][2] = "PERMISSION_VIOLATION"
      /\ checks[6][2] = "CURRENCY_MISMATCH"
      /\ checks[7][2] = "AMOUNT_EXCEEDS_CAP"
      /\ checks[8][2] = "PERMISSION_VIOLATION"
  BY DEF SemanticChecks
<1> HIDE DEF checks
<1>4. CASE (\A i \in 1 .. 8 : checks[i][1]) /\ FirstRefusal(checks, "ok") = "ok"
  <2>1. checks[1][1] /\ checks[2][1] /\ checks[3][1] /\ checks[4][1] /\ checks[5][1] /\ checks[6][1] /\ checks[7][1] /\ checks[8][1]
    BY <1>4
  <2> QED BY <1>2, <1>4, <2>1 DEF checks
<1>5. CASE \E i \in 1 .. 8 : /\ ~checks[i][1] /\ FirstRefusal(checks, "ok") = checks[i][2]
                           /\ \A j \in 1 .. 8 : j < i => checks[j][1]
  <2>1. PICK i \in 1 .. 8 : /\ ~checks[i][1] /\ FirstRefusal(checks, "ok") = checks[i][2]
                            /\ \A j \in 1 .. 8 : j < i => checks[j][1]
    BY <1>5
  <2>2. ASSUME i = 1 PROVE Judged(FirstRefusal(checks, "ok"))
    BY <1>2, <1>3, <2>1, <2>2
  <2>3. ASSUME i = 2 PROVE Judged(FirstRefusal(checks, "ok"))
    BY <1>2, <1>3, <2>1, <2>3
  <2>4. ASSUME i = 3 PROVE Judged(FirstRefusal(checks, "ok"))
    BY <1>2, <1>3, <2>1, <2>4
  <2>5. ASSUME i = 4 PROVE Judged(FirstRefusal(checks, "ok"))
    BY <1>2, <1>3, <2>1, <2>5
  <2>6. ASSUME i = 5 PROVE Judged(FirstRefusal(checks, "ok"))
    BY <1>2, <1>3, <2>1, <2>6
  <2>7. ASSUME i = 6 PROVE Judged(FirstRefusal(checks, "ok"))
    BY <1>2, <1>3, <2>1, <2>7
  <2>8. ASSUME i = 7 PROVE Judged(FirstRefusal(checks, "ok"))
    BY <1>2, <1>3, <2>1, <2>8
  <2>9. ASSUME i = 8 PROVE Judged(FirstRefusal(checks, "ok"))
    BY <1>2, <1>3, <2>1, <2>9
  <2>10. i = 1 \/ i = 2 \/ i = 3 \/ i = 4 \/ i = 5 \/ i = 6 \/ i = 7 \/ i = 8
    OBVIOUS
  <2>11. Judged(FirstRefusal(checks, "ok"))
    BY <2>2, <2>3, <2>4, <2>5, <2>6, <2>7, <2>8, <2>9, <2>10, Zenon
  <2> QED BY <2>11 DEF checks
<1> QED BY <1>1, <1>4, <1>5, FirstRefusalFirst

\* The issuer's list, which is read once it is the issuer's and its signature holds.
Read(claims, list) ==
    /\ list.claims.iss = claims.iss /\ SignedBy(list, Lookup(claims.iss, list.header.kid))
    /\ InRange(list, claims.status)

LEMMA ListJudged ==
    ASSUME NEW claims, NEW list, NEW throws
    PROVE  LET out == FirstRefusal(ListChecks(claims, list, throws), "ok")
           IN  \/ out = "ok" /\ Read(claims, list) /\ Slot(list.claims.lst, claims.status) \notin {1, 2, 3}
               \/ out = "STATUS_LIST_ISSUER_MISMATCH"
               \/ out = "STATUS_LIST_UNREACHABLE"
               \/ out = "STATUS_LIST_SIG_INVALID"
               \/ out = "STATUS_REVOKED" /\ Read(claims, list) /\ Slot(list.claims.lst, claims.status) \in {1, 3}
               \/ out = "STATUS_SUSPENDED" /\ Read(claims, list) /\ Slot(list.claims.lst, claims.status) = 2
<1> DEFINE checks == ListChecks(claims, list, throws)
           Judged(out) ==
               \/ out = "ok" /\ Read(claims, list) /\ Slot(list.claims.lst, claims.status) \notin {1, 2, 3}
               \/ out = "STATUS_LIST_ISSUER_MISMATCH"
               \/ out = "STATUS_LIST_UNREACHABLE"
               \/ out = "STATUS_LIST_SIG_INVALID"
               \/ out = "STATUS_REVOKED" /\ Read(claims, list) /\ Slot(list.claims.lst, claims.status) \in {1, 3}
               \/ out = "STATUS_SUSPENDED" /\ Read(claims, list) /\ Slot(list.claims.lst, claims.status) = 2
<1>1. DOMAIN checks = 1 .. 6 /\ DOMAIN checks \in SUBSET Nat
  BY DEF ListChecks
<1>2. /\ checks[1][1] = (list.claims.iss = claims.iss)
      /\ checks[2][1] = (~throws /\ Given(Lookup(list.claims.iss, list.header.kid)))
      /\ checks[3][1] = (list.header.typ = LIST_TYP /\ SignedBy(list, Lookup(list.claims.iss, list.header.kid)))
      /\ checks[4][1] = (InRange(list, claims.status))
      /\ checks[5][1] = ((IF InRange(list, claims.status) THEN Slot(list.claims.lst, claims.status) ELSE 3) \notin {1, 3})
      /\ checks[6][1] = ((IF InRange(list, claims.status) THEN Slot(list.claims.lst, claims.status) ELSE 3) # 2)
  BY DEF ListChecks
<1>3. /\ checks[1][2] = "STATUS_LIST_ISSUER_MISMATCH"
      /\ checks[2][2] = "STATUS_LIST_UNREACHABLE"
      /\ checks[3][2] = "STATUS_LIST_SIG_INVALID"
      /\ checks[4][2] = "STATUS_LIST_UNREACHABLE"
      /\ checks[5][2] = "STATUS_REVOKED"
      /\ checks[6][2] = "STATUS_SUSPENDED"
  BY DEF ListChecks
<1> HIDE DEF checks
<1>4. CASE (\A i \in 1 .. 6 : checks[i][1]) /\ FirstRefusal(checks, "ok") = "ok"
  <2>1. checks[1][1] /\ checks[2][1] /\ checks[3][1] /\ checks[4][1] /\ checks[5][1] /\ checks[6][1]
    BY <1>4
  <2> QED BY <1>2, <1>4, <2>1 DEF checks, Read
<1>5. CASE \E i \in 1 .. 6 : /\ ~checks[i][1] /\ FirstRefusal(checks, "ok") = checks[i][2]
                           /\ \A j \in 1 .. 6 : j < i => checks[j][1]
  <2>1. PICK i \in 1 .. 6 : /\ ~checks[i][1] /\ FirstRefusal(checks, "ok") = checks[i][2]
                            /\ \A j \in 1 .. 6 : j < i => checks[j][1]
    BY <1>5
  <2>2. ASSUME i = 1 PROVE Judged(FirstRefusal(checks, "ok"))
    BY <1>2, <1>3, <2>1, <2>2
  <2>3. ASSUME i = 2 PROVE Judged(FirstRefusal(checks, "ok"))
    BY <1>2, <1>3, <2>1, <2>3
  <2>4. ASSUME i = 3 PROVE Judged(FirstRefusal(checks, "ok"))
    BY <1>2, <1>3, <2>1, <2>4
  <2>5. ASSUME i = 4 PROVE Judged(FirstRefusal(checks, "ok"))
    BY <1>2, <1>3, <2>1, <2>5
  <2>6. ASSUME i = 5 PROVE Judged(FirstRefusal(checks, "ok"))
    <3>1. checks[1][1] /\ checks[3][1] /\ checks[4][1]
      BY <2>1, <2>6
    <3>2. Read(claims, list)
      BY <1>2, <3>1 DEF Read
    <3>3. ~checks[5][1] /\ FirstRefusal(checks, "ok") = checks[5][2]
      BY <2>1, <2>6
    <3> QED BY <1>2, <1>3, <3>2, <3>3 DEF Read
  <2>7. ASSUME i = 6 PROVE Judged(FirstRefusal(checks, "ok"))
    <3>1. checks[1][1] /\ checks[3][1] /\ checks[4][1]
      BY <2>1, <2>7
    <3>2. Read(claims, list)
      BY <1>2, <3>1 DEF Read
    <3>3. ~checks[6][1] /\ FirstRefusal(checks, "ok") = checks[6][2]
      BY <2>1, <2>7
    <3> QED BY <1>2, <1>3, <3>2, <3>3 DEF Read
  <2>8. i = 1 \/ i = 2 \/ i = 3 \/ i = 4 \/ i = 5 \/ i = 6
    OBVIOUS
  <2>9. Judged(FirstRefusal(checks, "ok"))
    BY <2>2, <2>3, <2>4, <2>5, <2>6, <2>7, <2>8, Zenon
  <2> QED BY <2>9 DEF checks
<1> QED BY <1>1, <1>4, <1>5, FirstRefusalFirst

-----------------------------------------------------------------------------
(* The verifications.                                                      *)

Record(s) ==
    s = [phase |-> s.phase, handed |-> s.handed, options |-> s.options, keys |-> s.keys,
         tried |-> s.tried, list |-> s.list, at |-> s.at, answer |-> s.answer]

\* What verify knows before it looks at the signature, after it, after it judged
\* the claims and the proof, and what it owes to the parties when it answers.
Formed(s) ==
    \/ s.handed.shape = "compact" /\ Given(s.options.audience)
    \/ s.handed.shape = "presented" /\ s.options.trust = "resolver"
Resolved(s) ==
    s.options.trust = "resolver" =>
        /\ s.tried = 0
        /\ s.keys = <<Lookup(s.handed.jws.claims.iss, s.handed.jws.header.kid)>>
Authentic(s) ==
    /\ s.handed.shape = "presented" /\ s.options.trust = "resolver"
    /\ s.handed.jws \in receipts /\ SignedBy(s.handed.jws, TrustedKey(s))
Honoured(s) ==
    /\ s.answer = "ok" => Granted(s)
    /\ s.answer \in {"ok", "STATUS_REVOKED", "STATUS_SUSPENDED"} /\ Given(s.handed.jws.claims.status) => Listed(s)
    /\ s.answer # "none" /\ InOrder(s) => Caused(s)

Known(s) ==
    /\ s.phase = "resolving" => Formed(s) /\ s.options.trust = "resolver" /\ s.tried = 0
    /\ s.phase = "verifying" => Formed(s) /\ Resolved(s)
    /\ s.phase = "verified" => Authentic(s)
    /\ s.phase \in {"fetching", "reading"} => Granted(s) /\ Given(s.handed.jws.claims.status)
    /\ s.phase = "reading" => s.list \in published
    /\ s.phase = "answered" => Honoured(s)

Verifying(s) ==
    s.phase # "idle" =>
        /\ Record(s)
        /\ s.phase \in {"resolving", "verifying", "verified", "fetching", "reading", "answered"}
        /\ s.handed \in Handed /\ s.at \in Int /\ s.at <= clock
        /\ Known(s)

\* Every list that was signed says in bits what it was meant to say.
ListsSay ==
    /\ \A list \in published, idx \in scenario.indices :
        ByteOf(idx) \in DOMAIN list.claims.lst =>
            /\ list.claims.lst[ByteOf(idx)] \in Nat
            /\ list.claims.slots[idx] = Slot(list.claims.lst, idx)
    /\ served \in published \cup {Undefined}

Kept ==
    /\ clock \in Int /\ slots \in [scenario.indices -> 0 .. 2]
    /\ SlotsKept /\ ReceiptsSigned /\ ProofsDated /\ ListsSay

Held == {verifications[v] : v \in Verifications}
DInv ==
    /\ Kept
    /\ verifications = [v \in Verifications |-> verifications[v]]
    /\ \A s \in Held : Verifying(s)

Grows ==
    /\ scenario' = scenario /\ clock \in Int /\ clock' \in Int /\ clock <= clock'
    /\ receipts \subseteq receipts' /\ presented \subseteq presented' /\ published \subseteq published'

\* What was handed over and passes for in order was in order all along: that a
\* receipt is issued later does not make it so.
LEMMA InOrderEarlier ==
    ASSUME ReceiptsSigned, NEW s, s.handed \in Handed, InOrder(s)'
    PROVE  InOrder(s)
<1>1. s.handed.jws \in Documents
  BY HandedIsShaped
<1>2. SignedBy(s.handed.jws, Lookup(s.handed.jws.claims.iss, s.handed.jws.header.kid))
  BY DEF InOrder
<1>3. s.handed.jws \in receipts
  BY <1>1, <1>2, SignedIsIssued
<1> QED BY <1>3 DEF InOrder

LEMMA GrantedLater ==
    ASSUME NEW s, Granted(s), Grows
    PROVE  Granted(s)'
<1>1. Proofs \subseteq Proofs' /\ receipts \subseteq receipts'
  BY HandedGrows DEF Grows
<1> QED BY <1>1 DEF Granted, TrustedKey

\* A verification that waits stays as it should be while others act.
LEMMA VerifyingStable ==
    ASSUME ReceiptsSigned, NEW s, Verifying(s), Grows
    PROVE  Verifying(s)'
<1> SUFFICES ASSUME s.phase # "idle"
             PROVE  Verifying(s)'
  BY DEF Verifying
<1>1. s.handed \in Handed' /\ s.at <= clock'
  BY HandedGrows DEF Verifying, Grows
<1>2. Granted(s) => Granted(s)'
  BY GrantedLater, SMTT(60)
<1>3. Authentic(s) => Authentic(s)'
  BY SMTT(60) DEF Authentic, Grows, TrustedKey
<1>4. Listed(s) => Listed(s)'
  BY DEF Listed, Grows
<1>5. InOrder(s)' => InOrder(s)
  BY InOrderEarlier DEF Verifying
<1>6. Honoured(s) => Honoured(s)'
  BY <1>2, <1>4, <1>5 DEF Honoured, Caused
<1>7. s.list \in published => s.list \in published'
  BY DEF Grows
<1>8. Known(s)'
  BY <1>2, <1>3, <1>6, <1>7 DEF Verifying, Known, Formed, Resolved
<1> QED BY <1>1, <1>8 DEF Verifying, Record

LEMMA GoesKeeps ==
    ASSUME DInv, NEW v \in Verifications, NEW t, Goes(v, t), Verifying(t)
    PROVE  DInv'
<1>1. Grows /\ Kept'
  BY DEF Goes, Grows, DInv, Kept, SlotsKept, ReceiptsSigned, ProofsDated, ListsSay
<1>2. \A u \in Verifications : verifications'[u] = IF u = v THEN t ELSE verifications[u]
  BY DEF Goes, DInv
<1>3. verifications' = [u \in Verifications |-> verifications'[u]]
  BY DEF Goes, DInv
<1>4. ASSUME NEW s \in Held'
      PROVE  Verifying(s)'
  <2>1. PICK u \in Verifications : s = verifications'[u]
    BY <1>4 DEF Held
  <2>2. Verifying(s)
    BY <1>2, <2>1 DEF DInv, Held
  <2> QED BY <1>1, <2>2, VerifyingStable DEF DInv, Kept
<1> QED BY <1>1, <1>3, <1>4 DEF DInv

-----------------------------------------------------------------------------
(* The steps of verify.                                                    *)

LEMMA AnsweredIs ==
    ASSUME NEW s, Record(s), NEW answer, NEW t, t = Answered(s, answer)
    PROVE  /\ Record(t) /\ t.phase = "answered" /\ t.answer = answer /\ t.at = clock
           /\ t.handed = s.handed /\ t.options = s.options /\ t.keys = s.keys
           /\ t.tried = s.tried /\ t.list = s.list
BY DEF Record, Answered

\* A refusal that has its cause and is not about the list.
LEMMA Refused ==
    ASSUME NEW s, Record(s), s.handed \in Handed, clock \in Int, NEW answer, NEW t, t = Answered(s, answer),
           answer \notin {"ok", "STATUS_REVOKED", "STATUS_SUSPENDED"}, InOrder(t) => Caused(t)
    PROVE  Verifying(t)
BY AnsweredIs, SMTT(60) DEF Verifying, Known, Honoured

\* What being in order says of the header of the receipt and of the key.
LEMMA InOrderIs ==
    ASSUME ReceiptsSigned, NEW s, InOrder(s)
    PROVE  LET receipt == s.handed.jws
           IN  /\ s.handed.shape = "presented" /\ s.handed.torn = "none" /\ s.options.trust = "resolver"
               /\ receipt.header.typ = ISS_TYP /\ receipt.header.alg = "EdDSA" /\ Given(receipt.header.kid)
               /\ SignedBy(receipt, Lookup(receipt.claims.iss, receipt.header.kid))
               /\ Given(Lookup(receipt.claims.iss, receipt.header.kid))
<1> DEFINE receipt == s.handed.jws
           key == Lookup(receipt.claims.iss, receipt.header.kid)
<1>1. receipt \in receipts /\ Given(receipt.claims.cnf) /\ SignedBy(receipt, key)
  BY DEF InOrder
<1>2. Given(receipt.signature[1]) /\ receipt.header.typ = ISS_TYP /\ receipt.header.alg = "EdDSA" /\ Given(receipt.header.kid)
  BY <1>1 DEF ReceiptsSigned
<1>3. receipt.signature[1] = key
  BY <1>1 DEF SignedBy
<1> QED BY <1>1, <1>2, <1>3 DEF InOrder

LEMMA BeginKeeps ==
    ASSUME DInv, NEW v \in Verifications, NEW handed \in Handed, NEW options, Begin(v, handed, options)
    PROVE  DInv'
<1> DEFINE code == FirstRefusal(StructureChecks(handed, options, clock), "ok")
           next == IF options.trust = "resolver" THEN "resolving" ELSE "verifying"
<1>1. PICK s : s = [phase |-> "begun", handed |-> handed, options |-> options, keys |-> options.keys,
                    tried |-> 0, list |-> Undefined, at |-> clock, answer |-> "none"]
  OBVIOUS
<1>2. PICK t : t = Past(s, code, next) /\ Goes(v, t)
  BY <1>1 DEF Begin
<1>3. /\ Record(s) /\ s.handed = handed /\ s.options = options /\ s.tried = 0 /\ s.at = clock
      /\ s.handed \in Handed /\ clock \in Int /\ ReceiptsSigned
  BY <1>1 DEF Record, DInv, Kept
<1> DEFINE codes == {"LEGACY_V01_REJECTED", "BAD_FORMAT", "INVALID_SIGNATURE", "KB_MISSING", "SD_JWT_MALFORMED",
                     "UNSUPPORTED_ALG", "TYP_MISMATCH", "KID_MISSING", "EXPIRED", "KID_RESOLVER_ERROR"}
<1>4. /\ code \in codes \cup {"ok"}
      /\ code = "ok" => \/ handed.shape = "compact" /\ Given(options.audience)
                        \/ handed.shape = "presented" /\ options.trust = "resolver"
      /\ handed.shape = "presented" /\ handed.torn = "none" /\ options.trust = "resolver"
           /\ handed.jws.header.typ = ISS_TYP /\ handed.jws.header.alg = "EdDSA" /\ Given(handed.jws.header.kid)
           => code = "ok" \/ (code = "EXPIRED" /\ Expired(handed.jws.claims, clock))
  <2>1. CASE handed.shape = "compact"
    BY <2>1, CompactJudged
  <2>2. CASE handed.shape # "compact"
    <3>1. \/ code = "ok" /\ handed.shape = "presented" /\ options.trust = "resolver"
          \/ code \in {"KB_MISSING", "SD_JWT_MALFORMED"} /\ (handed.shape # "presented" \/ handed.torn # "none")
          \/ code = "UNSUPPORTED_ALG" /\ handed.jws.header.alg # "EdDSA"
          \/ code = "TYP_MISMATCH" /\ handed.jws.header.typ # ISS_TYP
          \/ code = "KID_MISSING" /\ ~Given(handed.jws.header.kid)
          \/ code = "EXPIRED" /\ Expired(handed.jws.claims, clock)
          \/ code = "KID_RESOLVER_ERROR" /\ options.trust # "resolver"
      BY <2>2, PresentedJudged
    <3> HIDE DEF code
    <3> QED BY <2>2, <3>1
  <2> QED BY <2>1, <2>2
<1> HIDE DEF code
<1>5. ASSUME code = "ok" PROVE Verifying(t)
  <2>1. t = [s EXCEPT !.phase = next]
    BY <1>2, <1>5 DEF Past
  <2>2. /\ Record(t) /\ t.phase = next /\ t.handed = handed /\ t.options = options
        /\ t.tried = 0 /\ t.at = clock
    BY <1>3, <2>1 DEF Record
  <2>3. Formed(t)
    BY <1>4, <1>5, <2>2 DEF Formed
  <2> QED BY <1>3, <2>2, <2>3 DEF Verifying, Known, Resolved
<1>6. ASSUME code # "ok" PROVE Verifying(t)
  <2>1. t = Answered(s, code)
    BY <1>2, <1>6 DEF Past
  <2>2. code \notin {"ok", "STATUS_REVOKED", "STATUS_SUSPENDED"}
    BY <1>4, <1>6
  <2>3. t.handed = handed /\ t.options = options /\ t.at = clock /\ t.answer = code
    BY <1>3, <2>1, AnsweredIs
  <2>4. InOrder(t) => Caused(t)
    BY <1>3, <1>4, <1>6, <2>3, InOrderIs DEF Caused
  <2> QED BY <1>3, <2>1, <2>2, <2>4, Refused
<1> QED BY <1>2, <1>5, <1>6, GoesKeeps

LEMMA ResolveKeeps ==
    ASSUME DInv, NEW v \in Verifications, NEW throws \in BOOLEAN, ResolveKey(v, throws)
    PROVE  DInv'
<1>1. PICK s : s = verifications[v]
  BY SMTT(60)
<1> DEFINE key == Lookup(s.handed.jws.claims.iss, s.handed.jws.header.kid)
           code == IF throws THEN "KID_RESOLVER_ERROR" ELSE IF Given(key) THEN "ok" ELSE "UNKNOWN_ISSUER_KID"
<1>2. PICK r : r = [s EXCEPT !.keys = <<key>>]
  OBVIOUS
<1>3. PICK t : t = Past(r, code, "verifying") /\ Goes(v, t)
  BY <1>1, <1>2 DEF ResolveKey
<1>4. s.phase = "resolving" /\ Verifying(s) /\ clock \in Int /\ ReceiptsSigned
  BY <1>1 DEF ResolveKey, Running, DInv, Held, Kept
<1>5. /\ Record(r) /\ r.handed = s.handed /\ r.options = s.options /\ r.tried = s.tried /\ r.at = s.at
      /\ r.keys = <<key>>
  BY <1>2, <1>4 DEF Verifying, Record
<1> HIDE DEF key
<1>6. ASSUME code = "ok" PROVE Verifying(t)
  <2>1. t = [r EXCEPT !.phase = "verifying"]
    BY <1>3, <1>6 DEF Past
  <2>2. /\ Record(t) /\ t.phase = "verifying" /\ t.handed = s.handed /\ t.options = s.options
        /\ t.tried = s.tried /\ t.at = s.at /\ t.keys = <<key>>
    BY <1>5, <2>1 DEF Record
  <2> QED BY <1>4, <2>2 DEF Verifying, Known, Formed, Resolved, key
<1>7. ASSUME code # "ok" PROVE Verifying(t)
  <2>1. t = Answered(r, code)
    BY <1>3, <1>7 DEF Past
  <2>2. code \in {"KID_RESOLVER_ERROR", "UNKNOWN_ISSUER_KID"} /\ (code = "UNKNOWN_ISSUER_KID" => ~Given(key))
    BY <1>7
  <2>3. t.handed = s.handed /\ t.answer = code
    BY <1>5, <2>1, AnsweredIs
  <2>4. InOrder(t) => Caused(t)
    BY <1>4, <2>2, <2>3, InOrderIs DEF Caused, key
  <2>5. r.handed \in Handed
    BY <1>4, <1>5 DEF Verifying
  <2> HIDE DEF code
  <2> QED BY <1>4, <1>5, <2>1, <2>2, <2>4, <2>5, Refused
<1> QED BY <1>3, <1>6, <1>7, GoesKeeps

LEMMA VerifyJwsKeeps ==
    ASSUME DInv, NEW v \in Verifications, VerifyJws(v)
    PROVE  DInv'
<1>1. PICK s : s = verifications[v]
  OBVIOUS
<1>2. PICK code : code = JwtVerify(s.handed.jws, s.keys[1], Undefined)
  OBVIOUS
<1>3. PICK t : Goes(v, t) /\ t = IF code = "ok" THEN [s EXCEPT !.phase = "verified"] ELSE Answered(s, code)
  BY <1>1, <1>2 DEF VerifyJws, Reason
<1>4. /\ s.phase = "verifying" /\ s.handed.shape = "presented"
      /\ Verifying(s) /\ clock \in Int /\ ReceiptsSigned
  BY <1>1 DEF VerifyJws, Running, DInv, Held, Kept
<1>5. /\ s.options.trust = "resolver"
      /\ s.keys[1] = TrustedKey(s)
      /\ TrustedKey(s) = Lookup(s.handed.jws.claims.iss, s.handed.jws.header.kid)
  BY <1>4 DEF Verifying, Known, Formed, Resolved, TrustedKey
<1>6. \/ code = "ok" /\ SignedBy(s.handed.jws, TrustedKey(s))
      \/ code = "INVALID_SIGNATURE" /\ ~SignedBy(s.handed.jws, TrustedKey(s))
      \/ code = "EXPIRED" /\ Expired(s.handed.jws.claims, clock)
  BY <1>2, <1>5, JwtJudged DEF JwtVerify, Given
<1>7. ASSUME code = "ok" PROVE Verifying(t)
  <2>1. t = [s EXCEPT !.phase = "verified"]
    BY <1>3, <1>7
  <2>2. /\ Record(t) /\ t.phase = "verified" /\ t.handed = s.handed /\ t.options = s.options
        /\ t.keys = s.keys /\ t.tried = s.tried /\ t.at = s.at
    BY <1>4, <2>1 DEF Verifying, Record
  <2>3. s.handed.jws \in receipts
    BY <1>4, <1>6, <1>7, HandedIsShaped, SignedIsIssued DEF Verifying
  <2>4. Authentic(t)
    BY <1>4, <1>5, <1>6, <1>7, <2>2, <2>3 DEF Authentic, TrustedKey
  <2> QED BY <1>4, <2>2, <2>4 DEF Verifying, Known
<1>8. ASSUME code # "ok" PROVE Verifying(t)
  <2>1. t = Answered(s, code) /\ code \in {"INVALID_SIGNATURE", "EXPIRED"}
    BY <1>3, <1>6, <1>8
  <2>2. Record(s) /\ s.handed \in Handed
    BY <1>4 DEF Verifying
  <2>3. t.handed = s.handed /\ t.at = clock /\ t.answer = code
    BY <2>1, <2>2, AnsweredIs
  <2>4. InOrder(t) => Caused(t)
    BY <1>4, <1>5, <1>6, <1>8, <2>3, InOrderIs DEF Caused
  <2> QED BY <1>4, <2>1, <2>2, <2>4, Refused
<1> QED BY <1>3, <1>7, <1>8, GoesKeeps

\* A number implies what is among its bits.
LEMMA NumberImplies ==
    ASSUME NEW granted, NEW required, ~IsLabel(granted), ~IsLabel(required),
           Numeric(required) \subseteq Numeric(granted)
    PROVE  PermImplies(granted, required)
BY DEF PermImplies, Resolves, ResolvedPermission, Numeric, Implied

LEMMA WithinLegacy ==
    ASSUME NEW claims, NEW options, claims.aud = options.audience,
           options.subject \in {Undefined, claims.sub} /\ options.action \in {Undefined, claims.act},
           ~IsLabel(claims.perm),
           Given(options.perm) => Numeric(options.perm) \subseteq Numeric(claims.perm),
           Given(options.amount) /\ Given(options.currency) /\ Given(claims.max)
             => claims.max.currency = options.currency /\ options.amount <= claims.max.amount
    PROVE  Within(claims, options, TRUE)
<1>1. Given(options.perm) /\ ~IsLabel(options.perm) => PermImplies(claims.perm, options.perm)
  BY NumberImplies
<1> QED BY <1>1 DEF Within

LEMMA TryKeyKeeps ==
    ASSUME DInv, NEW v \in Verifications, TryKey(v)
    PROVE  DInv'
<1>1. PICK s : s = verifications[v]
  OBVIOUS
<1> DEFINE jws == s.handed.jws
           key == s.keys[s.tried + 1]
<1>2. PICK code : code = JwtVerify(jws, key, s.options.audience)
  OBVIOUS
<1>3. PICK judged : judged = FirstRefusal(SemanticChecks(jws.claims, s.options), "ok")
  OBVIOUS
<1>4. PICK n : n = [s EXCEPT !.tried = @ + 1]
  OBVIOUS
<1>5. PICK t : /\ Goes(v, t)
               /\ t = IF s.tried = 0 /\ jws.claims.iat - SKEW > clock THEN Answered(n, "FUTURE_NBF")
                      ELSE IF code = "ok" THEN Answered(n, judged)
                      ELSE IF n.tried = Len(s.keys) THEN Answered(n, code) ELSE n
  BY <1>1, <1>2, <1>3, <1>4 DEF TryKey
<1>6. /\ s.phase = "verifying" /\ s.handed.shape = "compact"
      /\ Verifying(s) /\ clock \in Int /\ ReceiptsSigned
  BY <1>1 DEF TryKey, Running, DInv, Held, Kept
<1>7. /\ Record(n) /\ n.phase = "verifying" /\ n.handed = s.handed /\ n.options = s.options
      /\ n.keys = s.keys /\ n.tried = s.tried + 1 /\ n.at = s.at /\ n.handed \in Handed
  BY <1>4, <1>6 DEF Verifying, Record
<1>8. /\ s.handed.jws \in Documents /\ Given(s.options.audience)
      /\ s.options.trust = "resolver" =>
            s.tried = 0 /\ s.keys = <<Lookup(jws.claims.iss, jws.header.kid)>>
  BY <1>6, HandedIsShaped DEF Verifying, Known, Formed, Resolved
<1>9. \A answer : /\ Answered(n, answer).handed = s.handed
                  /\ ~InOrder(Answered(n, answer))
  <2>1. SUFFICES ASSUME NEW answer
                 PROVE  /\ Answered(n, answer).handed = s.handed
                        /\ ~InOrder(Answered(n, answer))
    OBVIOUS
  <2>2. Answered(n, answer).handed = n.handed
    BY <1>7, AnsweredIs, SMTT(30)
  <2>3. Answered(n, answer).handed = s.handed /\ s.handed.shape # "presented"
    BY <1>6, <1>7, <2>2
  <2> QED BY <2>3, Zenon DEF InOrder
<1>10. \/ code = "ok" /\ SignedBy(jws, key) /\ jws.claims.aud = s.options.audience /\ ~Expired(jws.claims, clock)
       \/ code \in {"INVALID_SIGNATURE", "WRONG_AUDIENCE", "EXPIRED"}
  BY <1>2, <1>8, JwtJudged DEF JwtVerify
<1>11. ASSUME NEW answer, answer \notin {"ok", "STATUS_REVOKED", "STATUS_SUSPENDED"}
       PROVE  Verifying(Answered(n, answer))
  <2>1. PICK r : r = Answered(n, answer)
    OBVIOUS
  <2>2. ~InOrder(r)
    BY <1>9, <2>1
  <2>3. Verifying(r)
    BY <1>6, <1>7, <1>11, <2>1, <2>2, Refused
  <2> QED BY <2>1, <2>3
<1>12. CASE t = Answered(n, "FUTURE_NBF")
  BY <1>5, <1>11, <1>12, GoesKeeps
<1>13. CASE code = "ok" /\ t = Answered(n, judged)
  <2>1. \/ /\ judged = "ok" /\ Within(jws.claims, s.options, TRUE) /\ ~IsLabel(jws.claims.perm)
        \/ judged \notin {"ok", "STATUS_REVOKED", "STATUS_SUSPENDED"}
    BY <1>3, <1>10, <1>13, SemanticsJudged, WithinLegacy
  <2>2. CASE judged # "ok"
    BY <1>5, <1>11, <1>13, <2>1, <2>2, GoesKeeps
  <2>3. CASE judged = "ok"
    <3>1. jws \in receipts
      BY <1>6, <1>8, <1>10, <1>13, SignedIsIssued
    <3>2. ~Given(jws.claims.cnf) /\ ~Given(jws.claims.status)
      BY <2>1, <2>3, <3>1, <1>6 DEF ReceiptsSigned
    <3>3. /\ Record(t) /\ t.phase = "answered" /\ t.answer = "ok" /\ t.at = clock
          /\ t.handed = s.handed /\ t.options = s.options /\ t.keys = s.keys /\ t.tried = s.tried + 1
      BY <1>7, <1>13, <2>3, AnsweredIs
    <3>4. TrustedKey(t) = key
      BY <1>8, <3>3 DEF TrustedKey
    <3>5. Granted(t)
      <4>1. Within(t.handed.jws.claims, t.options, t.handed.shape = "compact")
        BY <1>6, <2>1, <2>3, <3>3
      <4> QED BY <1>10, <1>13, <3>1, <3>2, <3>3, <3>4, <4>1 DEF Granted
    <3>6. ~InOrder(t)
      BY <1>9, <1>13
    <3>7. Verifying(t)
      BY <1>6, <1>7, <3>2, <3>3, <3>5, <3>6 DEF Verifying, Known, Honoured
    <3> QED BY <1>5, <3>7, GoesKeeps
  <2> QED BY <2>2, <2>3
<1>14. CASE code # "ok" /\ n.tried = Len(s.keys) /\ t = Answered(n, code)
  <2>1. code \notin {"ok", "STATUS_REVOKED", "STATUS_SUSPENDED"}
    BY <1>10, <1>14
  <2> QED BY <1>5, <1>11, <1>14, <2>1, GoesKeeps
<1>15. CASE n.tried # Len(s.keys) /\ t = n
  <2>1. s.options.trust # "resolver"
    <3>1. s.options.trust = "resolver" => n.tried = 1 /\ Len(s.keys) = 1
      BY <1>7, <1>8
    <3> QED BY <1>15, <3>1
  <2>2. Verifying(n)
    BY <1>6, <1>7, <2>1 DEF Verifying, Known, Formed, Resolved
  <2> QED BY <1>5, <1>15, <2>2, GoesKeeps
<1> QED BY <1>5, <1>12, <1>13, <1>14, <1>15

\* What being in order says of the proof.
LEMMA InOrderProof ==
    ASSUME NEW s, InOrder(s)
    PROVE  LET kb == s.handed.kb
               receipt == s.handed.jws
           IN  /\ kb.header.typ = KB_TYP /\ kb.header.alg = "EdDSA" /\ kb.header.kid = Undefined
               /\ SignedBy(kb, receipt.claims.cnf) /\ Presents(kb, receipt)
               /\ kb.claims.aud = s.options.audience /\ kb.claims.nonce = s.options.kbNonce
               /\ kb.claims.iat <= s.at
<1> DEFINE receipt == s.handed.jws
           kb == s.handed.kb
           made == Proof(receipt, receipt.claims.cnf, s.options.kbNonce, s.options.audience, kb.claims.iat)
<1>1. kb = made /\ kb.claims.iat <= s.at
  BY DEF InOrder
<1>2. /\ made.header.typ = KB_TYP /\ made.header.alg = "EdDSA" /\ made.header.kid = Undefined
      /\ SignedBy(made, receipt.claims.cnf) /\ Presents(made, receipt)
      /\ made.claims.aud = s.options.audience /\ made.claims.nonce = s.options.kbNonce
  BY DEF Proof, Signed, Header, SignedBy, Presents
<1> HIDE DEF made
<1> QED BY <1>1, <1>2

LEMMA CheckClaimsKeeps ==
    ASSUME ScenarioAssumption, DInv, NEW v \in Verifications, CheckClaims(v)
    PROVE  DInv'
<1>1. PICK s : s = verifications[v]
  OBVIOUS
<1> DEFINE receipt == s.handed.jws
           kb == s.handed.kb
           status == receipt.claims.status
           options == s.options
<1>2. PICK listed : listed = IF Given(status) => options.checkStatus THEN "ok" ELSE "STATUS_CHECK_UNCONFIGURED"
  OBVIOUS
<1>3. PICK bound : bound = FirstRefusal(KbChecks(kb, receipt, options, clock), listed)
  OBVIOUS
<1>4. PICK held : held = FirstRefusal(HolderChecks(s.handed, options), bound)
  OBVIOUS
<1>5. PICK code : code = FirstRefusal(ClaimChecks(receipt.claims, options, clock), held)
  OBVIOUS
<1>6. PICK t : /\ Goes(v, t)
               /\ t = IF code = "ok" /\ Given(status) THEN [s EXCEPT !.phase = "fetching", !.at = clock]
                      ELSE Answered(s, code)
  BY <1>1, <1>2, <1>3, <1>4, <1>5, ZenonT(60) DEF CheckClaims
<1>7. /\ s.phase = "verified" /\ Verifying(s) /\ clock \in Int /\ ReceiptsSigned /\ ProofsDated
  BY <1>1 DEF CheckClaims, Running, DInv, Held, Kept
<1>8. Record(s) /\ s.handed \in Handed /\ Authentic(s)
  BY <1>7 DEF Verifying, Known
<1>9. kb \in Proofs /\ kb.claims.iat \in Int /\ SKEW \in Nat /\ KB_MAX_AGE \in Nat
  BY <1>7, <1>8, HandedIsShaped, ProofsAreDated DEF Authentic, ScenarioAssumption
<1>10. code \notin {"STATUS_REVOKED", "STATUS_SUSPENDED"}
  <2>1. listed \in {"ok", "STATUS_CHECK_UNCONFIGURED"}
    BY <1>2
  <2>2. bound \notin {"STATUS_REVOKED", "STATUS_SUSPENDED"}
    BY <1>3, <2>1, KbJudged
  <2>3. held \notin {"STATUS_REVOKED", "STATUS_SUSPENDED"}
    BY <1>4, <2>2, HolderJudged
  <2> QED BY <1>5, <2>3, ClaimsJudged
<1>11. ASSUME code = "ok"
       PROVE  /\ ~Expired(receipt.claims, clock) /\ Within(receipt.claims, options, FALSE)
              /\ SignedBy(kb, receipt.claims.cnf) /\ kb.claims.aud = options.audience
              /\ kb.claims.nonce = options.kbNonce /\ Presents(kb, receipt)
              /\ clock - kb.claims.iat \in -SKEW .. KB_MAX_AGE + SKEW
  <2>1. held = "ok" /\ ~Expired(receipt.claims, clock) /\ Within(receipt.claims, options, FALSE)
    BY <1>5, <1>11, ClaimsJudged, ZenonT(60)
  <2>2. bound = "ok"
    BY <1>4, <2>1, HolderJudged
  <2>3. /\ SignedBy(kb, receipt.claims.cnf) /\ kb.claims.aud = options.audience
        /\ kb.claims.nonce = options.kbNonce /\ Presents(kb, receipt)
        /\ kb.claims.iat - SKEW <= clock /\ clock - kb.claims.iat <= KB_MAX_AGE + SKEW
    <3>1. \/ /\ SignedBy(kb, receipt.claims.cnf) /\ kb.claims.aud = options.audience
             /\ kb.claims.nonce = options.kbNonce /\ Presents(kb, receipt)
             /\ kb.claims.iat - SKEW <= clock /\ clock - kb.claims.iat <= KB_MAX_AGE + SKEW
          \/ bound \in {"KB_TYP_INVALID", "KB_ALG_UNSUPPORTED", "KB_BINDING_MISMATCH", "KB_INVALID_SIGNATURE",
                        "KB_WRONG_AUDIENCE", "KB_WRONG_NONCE", "KB_WRONG_SD_HASH", "KB_IAT_FUTURE", "KB_IAT_TOO_OLD"}
      BY <1>3, KbJudged
    <3> QED BY <2>2, <3>1
  <2>4. clock - kb.claims.iat \in -SKEW .. KB_MAX_AGE + SKEW
    BY <1>7, <1>9, <2>3
  <2> QED BY <2>1, <2>3, <2>4
<1>12. ASSUME NEW r, r.handed = s.handed, r.options = options, r.at = clock,
              r.keys = s.keys, r.tried = s.tried, code = "ok"
       PROVE  Granted(r)
  <2>1. receipt \in receipts /\ SignedBy(receipt, TrustedKey(r))
    BY <1>8, <1>12 DEF Authentic, TrustedKey
  <2>2. Within(r.handed.jws.claims, r.options, r.handed.shape = "compact")
    <3>1. (r.handed.shape = "compact") = FALSE
      BY <1>8, <1>12 DEF Authentic
    <3> QED BY <1>11, <1>12, <3>1
  <2>3. kb.claims.sd_hash = receipt
    BY <1>11, <1>12 DEF Presents
  <2> QED BY <1>9, <1>11, <1>12, <2>1, <2>2, <2>3 DEF Granted
<1>13. CASE code = "ok" /\ Given(status)
  <2>1. t = [s EXCEPT !.phase = "fetching", !.at = clock]
    BY <1>6, <1>13
  <2>2. /\ Record(t) /\ t.phase = "fetching" /\ t.at = clock /\ t.handed = s.handed
        /\ t.options = options /\ t.keys = s.keys /\ t.tried = s.tried
    BY <1>8, <2>1 DEF Record
  <2>3. Verifying(t)
    BY <1>7, <1>8, <1>12, <1>13, <2>2 DEF Verifying, Known
  <2> QED BY <1>6, <2>3, GoesKeeps
<1>14. CASE ~(code = "ok" /\ Given(status))
  <2>1. t = Answered(s, code)
    BY <1>6, <1>14
  <2>2. /\ Record(t) /\ t.phase = "answered" /\ t.at = clock /\ t.handed = s.handed
        /\ t.options = options /\ t.keys = s.keys /\ t.tried = s.tried /\ t.answer = code
    BY <1>8, <2>1, AnsweredIs
  <2>3. ASSUME InOrder(t)
        PROVE  Caused(t)
    <3>1. /\ kb.header.typ = KB_TYP /\ kb.header.alg = "EdDSA" /\ kb.header.kid = Undefined
          /\ SignedBy(kb, receipt.claims.cnf) /\ Presents(kb, receipt)
          /\ kb.claims.aud = options.audience /\ kb.claims.nonce = options.kbNonce
          /\ kb.claims.iat <= clock
      BY <2>2, <2>3, InOrderProof
    <3>2. /\ Within(receipt.claims, options, FALSE) /\ options.checkStatus
          /\ Given(receipt.claims.cnf) /\ Given(options.kbNonce) /\ s.handed.torn = "none"
      BY <2>2, <2>3 DEF InOrder
    <3>3. listed = "ok"
      BY <1>2, <3>2
    <3>4. bound = "ok" \/ (bound = "KB_IAT_TOO_OLD" /\ ~(clock - kb.claims.iat <= KB_MAX_AGE + SKEW))
      <4>1. kb.claims.iat - SKEW <= clock
        BY <1>7, <1>9, <3>1
      <4> QED BY <1>3, <3>1, <3>3, <4>1, KbJudged
    <3>5. held = bound
      BY <1>4, <3>2, HolderJudged
    <3>6. \/ code = bound
          \/ code = "EXPIRED" /\ Expired(receipt.claims, clock)
          \/ code = "FUTURE_NBF" /\ ~(receipt.claims.iat - SKEW <= clock)
      <4>1. \/ code = held
            \/ code = "EXPIRED" /\ Expired(receipt.claims, clock)
            \/ code = "FUTURE_NBF" /\ ~(receipt.claims.iat - SKEW <= clock)
            \/ ~Within(receipt.claims, options, FALSE)
        BY <1>5, ClaimsJudged
      <4> QED BY <3>2, <3>5, <4>1
    <3>7. receipt.claims.iat \in Int
      BY <1>7, <1>8 DEF Authentic, ReceiptsSigned
    <3> QED BY <1>7, <1>9, <2>2, <3>4, <3>6, <3>7 DEF Caused
  <2>4. ASSUME code = "ok" PROVE Verifying(t)
    BY <1>7, <1>8, <1>12, <1>14, <2>2, <2>3, <2>4 DEF Verifying, Known, Honoured
  <2>5. ASSUME code # "ok" PROVE Verifying(t)
    BY <1>7, <1>8, <1>10, <2>1, <2>3, <2>5, Refused
  <2> QED BY <1>6, <2>4, <2>5, GoesKeeps
<1> QED BY <1>13, <1>14

LEMMA FetchListKeeps ==
    ASSUME DInv, NEW v \in Verifications, NEW reached \in BOOLEAN, FetchList(v, reached)
    PROVE  DInv'
<1>1. PICK s : s = verifications[v]
  OBVIOUS
<1>2. PICK code : code = IF reached /\ Given(served) THEN "ok" ELSE "STATUS_LIST_UNREACHABLE"
  OBVIOUS
<1>3. PICK r : r = [s EXCEPT !.list = served]
  OBVIOUS
<1>4. PICK t : t = Past(r, code, "reading") /\ Goes(v, t)
  BY <1>1, <1>2, <1>3 DEF FetchList
<1>5. s.phase = "fetching" /\ Verifying(s) /\ clock \in Int /\ ListsSay
  BY <1>1 DEF FetchList, Running, DInv, Held, Kept
<1>6. /\ Record(r) /\ r.list = served /\ r.handed = s.handed /\ r.options = s.options /\ r.keys = s.keys
      /\ r.tried = s.tried /\ r.at = s.at /\ r.handed \in Handed
  BY <1>3, <1>5 DEF Verifying, Record
<1>7. ASSUME code = "ok" PROVE Verifying(t)
  <2>1. t = [r EXCEPT !.phase = "reading"]
    BY <1>4, <1>7 DEF Past
  <2>2. /\ Record(t) /\ t.phase = "reading" /\ t.list = served /\ t.handed = s.handed /\ t.options = s.options
        /\ t.keys = s.keys /\ t.tried = s.tried /\ t.at = s.at
    BY <1>6, <2>1 DEF Record
  <2>3. served \in published
    BY <1>2, <1>5, <1>7 DEF ListsSay, Given
  <2>4. Granted(t) /\ Given(t.handed.jws.claims.status)
    BY <1>5, <2>2 DEF Verifying, Known, Granted, TrustedKey
  <2> QED BY <1>5, <2>2, <2>3, <2>4 DEF Verifying, Known
<1>8. ASSUME code # "ok" PROVE Verifying(t)
  <2>1. t = Answered(r, code) /\ code = "STATUS_LIST_UNREACHABLE"
    BY <1>2, <1>4, <1>8 DEF Past
  <2>2. t.answer = code
    BY <1>6, <2>1, AnsweredIs
  <2>3. Caused(t)
    BY <2>1, <2>2 DEF Caused
  <2> QED BY <1>5, <1>6, <2>1, <2>3, Refused
<1> QED BY <1>4, <1>7, <1>8, GoesKeeps

LEMMA ReadListKeeps ==
    ASSUME ScenarioAssumption, DInv, NEW v \in Verifications, NEW throws \in BOOLEAN, ReadList(v, throws)
    PROVE  DInv'
<1>1. PICK s : s = verifications[v]
  OBVIOUS
<1> DEFINE claims == s.handed.jws.claims
<1>2. PICK code : code = FirstRefusal(ListChecks(claims, s.list, throws), "ok")
  OBVIOUS
<1>3. PICK t : Goes(v, t) /\ t = [s EXCEPT !.phase = "answered", !.answer = code]
  BY <1>1, <1>2 DEF ReadList
<1>4. s.phase = "reading" /\ Verifying(s) /\ clock \in Int /\ ReceiptsSigned /\ ListsSay
  BY <1>1 DEF ReadList, Running, DInv, Held, Kept
<1>5. /\ Record(t) /\ t.phase = "answered" /\ t.answer = code /\ t.list = s.list /\ t.handed = s.handed
      /\ t.options = s.options /\ t.keys = s.keys /\ t.tried = s.tried /\ t.at = s.at
  BY <1>3, <1>4 DEF Verifying, Record
<1>6. Granted(s) /\ Given(claims.status) /\ s.list \in published
  BY <1>4 DEF Verifying, Known
<1>7. Granted(t)
  BY <1>5, <1>6 DEF Granted, TrustedKey
<1>8. claims.status \in scenario.indices
  BY <1>4, <1>6 DEF Granted, ReceiptsSigned, Given
<1> DEFINE slot == Slot(s.list.claims.lst, claims.status)
<1>9. /\ code \in {"ok", "STATUS_REVOKED", "STATUS_SUSPENDED", "STATUS_LIST_UNREACHABLE",
                   "STATUS_LIST_ISSUER_MISMATCH", "STATUS_LIST_SIG_INVALID"}
      /\ code \in {"ok", "STATUS_REVOKED", "STATUS_SUSPENDED"} => Read(claims, s.list)
      /\ code = "ok" => slot \notin {1, 2, 3}
      /\ code = "STATUS_REVOKED" => slot \in {1, 3}
      /\ code = "STATUS_SUSPENDED" => slot = 2
  <2>1. \/ code = "ok" /\ Read(claims, s.list) /\ slot \notin {1, 2, 3}
        \/ code \in {"STATUS_LIST_UNREACHABLE", "STATUS_LIST_ISSUER_MISMATCH", "STATUS_LIST_SIG_INVALID"}
        \/ code = "STATUS_REVOKED" /\ Read(claims, s.list) /\ slot \in {1, 3}
        \/ code = "STATUS_SUSPENDED" /\ Read(claims, s.list) /\ slot = 2
    BY <1>2, ListJudged, SMTT(60)
  <2> HIDE DEF slot, claims
  <2> QED BY <2>1
<1>10. ASSUME code \in {"ok", "STATUS_REVOKED", "STATUS_SUSPENDED"} PROVE Listed(t)
  <2>1. /\ s.list.claims.iss = claims.iss /\ SignedBy(s.list, Lookup(claims.iss, s.list.header.kid))
        /\ ByteOf(claims.status) \in DOMAIN s.list.claims.lst
    BY <1>9, <1>10, SMTT(60) DEF Read, InRange
  <2>2. PICK idx, list : idx = claims.status /\ list = s.list
    OBVIOUS
  <2>3. ListsSay /\ idx \in scenario.indices /\ list \in published /\ ByteOf(idx) \in DOMAIN list.claims.lst
    BY <1>4, <1>6, <1>8, <2>1, <2>2
  <2>4. list.claims.lst[ByteOf(idx)] \in Nat /\ list.claims.slots[idx] = Slot(list.claims.lst, idx)
    BY <2>3, Zenon DEF ListsSay
  <2>5. slot = Slot(list.claims.lst, idx) /\ list.claims.slots[idx] = slot
    BY <2>2, <2>4
  <2>6. Slot(list.claims.lst, idx) \in 0 .. 3
    <3>1. idx \in Nat
      BY <2>3 DEF DInv, Kept, SlotsKept, ScenarioAssumption
    <3>2. Weight(idx) \in {1, 4, 16, 64}
      BY <3>1, WeightOfIndex
    <3> QED BY <2>4, <3>2, QuarterOfByte DEF Slot
  <2>7. /\ code = "ok" => slot = 0
        /\ code = "STATUS_REVOKED" => slot \in {1, 3}
        /\ code = "STATUS_SUSPENDED" => slot = 2
    <3> HIDE DEF slot
    <3> QED BY <1>9, <2>5, <2>6
  <2>8. /\ code = "ok" => list.claims.slots[idx] = 0
        /\ code = "STATUS_REVOKED" => list.claims.slots[idx] \in {1, 3}
        /\ code \notin {"ok", "STATUS_REVOKED"} => list.claims.slots[idx] = 2
    <3> HIDE DEF slot
    <3> QED BY <1>10, <2>5, <2>7
  <2>9. t.list = list /\ t.handed.jws.claims = claims /\ t.answer = code /\ idx = claims.status
    BY <1>5, <2>2
  <2>10. /\ list \in published /\ list.claims.iss = claims.iss
         /\ SignedBy(list, Lookup(claims.iss, list.header.kid))
    BY <1>6, <2>1, <2>2
  <2>11. /\ CASE code = "ok" -> list.claims.slots[idx] = 0
              [] code = "STATUS_REVOKED" -> list.claims.slots[idx] \in {1, 3}
              [] OTHER -> list.claims.slots[idx] = 2
    BY <2>8
  <2> HIDE DEF slot, claims
  <2> QED BY <2>9, <2>10, <2>11, SMTT(60) DEF Listed
<1>11. Caused(t)
  BY <1>5, <1>9 DEF Caused
<1>12. Verifying(t)
  BY <1>4, <1>5, <1>7, <1>10, <1>11 DEF Verifying, Known, Honoured
<1> QED BY <1>3, <1>12, GoesKeeps

-----------------------------------------------------------------------------
(* The steps of the parties.                                               *)

LEMMA OthersKeep ==
    ASSUME DInv, Grows, Kept', verifications' = verifications
    PROVE  DInv'
<1>1. ASSUME NEW s \in Held' PROVE Verifying(s)'
  <2>1. Verifying(s)
    BY <1>1 DEF DInv, Held
  <2> QED BY <2>1, VerifyingStable DEF DInv, Kept
<1> QED BY <1>1 DEF DInv

LEMMA PartiesKeep ==
    ASSUME ScenarioAssumption, DInv,
           \/ \E grant \in scenario.grants : Allow(grant)
           \/ \E grant \in scenario.grantsV01 : AllowV01(grant)
           \/ \E receipt \in receipts, holder \in scenario.holders, nonce \in scenario.nonces,
                 audience \in scenario.audiences : Present(receipt, holder, nonce, audience)
           \/ \E idx \in scenario.indices, status \in 0 .. 2 : SetStatusBit(idx, status)
           \/ \E list \in scenario.lists : PublishStatusList(list.iss, list.key, list.kid)
           \/ \E list \in published : Serve(list)
           \/ Tick
    PROVE  DInv'
<1> USE DEF Kept
<1>0. Kept /\ scenario \in Scenarios
  BY DEF DInv, SlotsKept
<1>1. CASE \/ \E grant \in scenario.grants : Allow(grant)
           \/ \E grant \in scenario.grantsV01 : AllowV01(grant)
  <2>1. ReceiptsSigned'
    BY <1>0, <1>1, IssueKeeps
  <2>2. /\ Grows /\ verifications' = verifications
        /\ UNCHANGED <<clock, scenario, presented, slots, bitstring, published, served>>
    <3>1. \E key, header, grant, holder, status : Issue(key, header, grant, holder, status)
      BY <1>1, Zenon DEF Allow, AllowV01
    <3>2. PICK key, header, grant, holder, status : Issue(key, header, grant, holder, status)
      BY <3>1
    <3> QED BY <1>0, <3>2 DEF Issue, Grows
  <2>3. Kept'
    BY <1>0, <2>1, <2>2 DEF SlotsKept, ProofsDated, ListsSay
  <2> QED BY <2>2, <2>3, OthersKeep
<1>2. ASSUME NEW receipt \in receipts, NEW holder, NEW nonce, NEW audience,
             Present(receipt, holder, nonce, audience)
      PROVE  DInv'
  <2>1. ProofsDated'
    BY <1>0, <1>2, PresentKeeps
  <2>2. /\ Grows /\ verifications' = verifications
        /\ UNCHANGED <<clock, scenario, receipts, slots, bitstring, published, served>>
    BY <1>0, <1>2 DEF Present, Grows
  <2>3. Kept'
    BY <1>0, <2>1, <2>2 DEF SlotsKept, ReceiptsSigned, ListsSay
  <2> QED BY <2>2, <2>3, OthersKeep
<1>3. ASSUME NEW idx \in scenario.indices, NEW status \in 0 .. 2, SetStatusBit(idx, status)
      PROVE  DInv'
  <2>1. SlotsKept'
    BY <1>0, <1>3, StatusSet
  <2>2. /\ Grows /\ verifications' = verifications /\ slots' \in [scenario.indices -> 0 .. 2]
        /\ UNCHANGED <<clock, scenario, receipts, presented, published, served>>
    BY <1>0, <1>3 DEF SetStatusBit, Grows
  <2>3. Kept'
    BY <1>0, <2>1, <2>2 DEF ReceiptsSigned, ProofsDated, ListsSay
  <2> QED BY <2>2, <2>3, OthersKeep
<1>4. ASSUME NEW iss, NEW key, NEW kid, PublishStatusList(iss, key, kid)
      PROVE  DInv'
  <2>1. PICK new : new = StatusList(iss, key, kid, LIST_TYP, bitstring, slots)
    OBVIOUS
  <2>2. new.claims.lst = bitstring /\ new.claims.slots = slots
    BY <2>1 DEF StatusList, Signed
  <2>3. /\ Grows /\ verifications' = verifications /\ published' = published \cup {new}
        /\ UNCHANGED <<clock, scenario, receipts, presented, slots, bitstring, served>>
    BY <1>0, <1>4, <2>1 DEF PublishStatusList, Grows
  <2>4. \A idx \in scenario.indices :
          ByteOf(idx) \in DOMAIN bitstring => bitstring[ByteOf(idx)] \in Nat /\ slots[idx] = Slot(bitstring, idx)
    <3>1. DOMAIN bitstring = 1 .. LIST_BYTES /\ \A byte \in 1 .. LIST_BYTES : bitstring[byte] \in Nat
      <4>1. bitstring \in [1 .. LIST_BYTES -> Bytes] /\ \A b \in Bytes : b \in Nat
        BY <1>0, SMTT(60) DEF SlotsKept, Bytes
      <4> QED BY ONLY <4>1
    <3> QED BY <1>0, <3>1 DEF SlotsKept
  <2>5. ListsSay'
    BY <1>0, <2>2, <2>3, <2>4 DEF ListsSay
  <2>6. Kept'
    BY <1>0, <2>3, <2>5 DEF SlotsKept, ReceiptsSigned, ProofsDated
  <2> QED BY <2>3, <2>6, OthersKeep
<1>5. ASSUME NEW list \in published, Serve(list)
      PROVE  DInv'
  <2>1. /\ Grows /\ verifications' = verifications /\ served' = list
        /\ UNCHANGED <<clock, scenario, receipts, presented, slots, bitstring, published>>
    BY <1>0, <1>5 DEF Serve, Grows
  <2>2. Kept'
    BY <1>0, <2>1 DEF SlotsKept, ReceiptsSigned, ProofsDated, ListsSay
  <2> QED BY <2>1, <2>2, OthersKeep
<1>6. CASE Tick
  <2>1. /\ Grows /\ clock' \in Int /\ verifications' = verifications
        /\ UNCHANGED <<scenario, receipts, presented, slots, bitstring, published, served>>
    BY <1>0, <1>6 DEF Tick, Grows
  <2>2. Kept'
    BY <1>0, <2>1 DEF SlotsKept, ReceiptsSigned, ProofsDated, ListsSay
  <2> QED BY <2>1, <2>2, OthersKeep
<1> QED BY <1>1, <1>2, <1>3, <1>4, <1>5, <1>6

-----------------------------------------------------------------------------
(* The theorem.                                                            *)

LEMMA InitIsKept ==
    ASSUME ScenarioAssumption, DInit
    PROVE  DInv
<1>1. clock \in Int /\ slots \in [scenario.indices -> 0 .. 2] /\ ReceiptsSigned /\ ProofsDated
  BY DEF DInit, ReceiptsSigned, ProofsDated
<1>2. ListsSay
  BY DEF DInit, ListsSay, ScenarioAssumption
<1>3. SlotsKept
  <2>1. scenario \in Scenarios /\ bitstring \in [1 .. LIST_BYTES -> Bytes]
    BY DEF DInit, Bytes
  <2>2. ASSUME NEW idx \in scenario.indices, ByteOf(idx) \in 1 .. LIST_BYTES
        PROVE  slots[idx] = Slot(bitstring, idx)
    <3>1. slots[idx] = 0 /\ bitstring[ByteOf(idx)] = 0
      BY <2>2 DEF DInit
    <3>2. Weight(idx) \in {1, 4, 16, 64}
      BY <2>1, WeightOfIndex DEF ScenarioAssumption
    <3> QED BY <3>1, <3>2 DEF Slot
  <2> QED BY <2>1, <2>2 DEF SlotsKept
<1>4. verifications = [v \in Verifications |-> verifications[v]] /\ \A s \in Held : s.phase = "idle"
  BY DEF DInit, Held
<1> QED BY <1>1, <1>2, <1>3, <1>4 DEF DInv, Kept, Verifying

LEMMA StepKeeps ==
    ASSUME ScenarioAssumption, DInv, [DNext]_dvars
    PROVE  DInv'
<1>1. CASE UNCHANGED dvars
  <2>1. /\ verifications' = verifications
        /\ UNCHANGED <<clock, scenario, receipts, presented, slots, bitstring, published, served>>
    BY <1>1 DEF dvars
  <2>2. Grows /\ Kept'
    BY <2>1 DEF Grows, DInv, Kept, SlotsKept, ReceiptsSigned, ProofsDated, ListsSay
  <2> QED BY <2>1, <2>2, OthersKeep
<1>2. ASSUME NEW v \in Verifications,
             \/ \E handed \in Handed, options \in scenario.requests : Begin(v, handed, options)
             \/ VerifyJws(v) \/ TryKey(v) \/ CheckClaims(v)
             \/ \E fails \in BOOLEAN : ResolveKey(v, fails) \/ FetchList(v, ~fails) \/ ReadList(v, fails)
      PROVE  DInv'
  <2>1. ASSUME NEW fails \in BOOLEAN, FetchList(v, ~fails)
        PROVE  DInv'
    <3>1. PICK reached \in BOOLEAN : reached = ~fails
      OBVIOUS
    <3> QED BY <2>1, <3>1, FetchListKeeps
  <2> QED BY <1>2, <2>1, BeginKeeps, ResolveKeeps, VerifyJwsKeeps, TryKeyKeeps, CheckClaimsKeeps, ReadListKeeps
<1>3. CASE \E v \in Verifications :
             \/ \E handed \in Handed, options \in scenario.requests : Begin(v, handed, options)
             \/ VerifyJws(v) \/ TryKey(v) \/ CheckClaims(v)
             \/ \E fails \in BOOLEAN : ResolveKey(v, fails) \/ FetchList(v, ~fails) \/ ReadList(v, fails)
  BY <1>2, <1>3
<1>4. CASE DNext
  BY <1>3, <1>4, PartiesKeep DEF DNext
<1> QED BY <1>1, <1>4

LEMMA InvHonours ==
    ASSUME DInv
    PROVE  ReceiptsHonoured
<1>1. ASSUME NEW v \in Verifications, Answer(v) # "none"
      PROVE  Honoured(verifications[v])
  <2>1. verifications[v].phase = "answered" /\ Verifying(verifications[v])
    BY <1>1 DEF Answer, Running, DInv, Held
  <2> QED BY <2>1 DEF Verifying, Known
<1>2. \A v \in Verifications : Answer(v) # "none" => Answer(v) = verifications[v].answer
  BY DEF Answer
<1>3. AcceptedAsGranted
  BY <1>1, <1>2 DEF AcceptedAsGranted, Honoured
<1>4. StatusObeyed
  BY <1>1, <1>2 DEF StatusObeyed, Honoured
<1>5. RefusedForCause
  BY <1>1, <1>2 DEF RefusedForCause, Honoured
<1> QED BY <1>3, <1>4, <1>5 DEF ReceiptsHonoured

\* However issuers sign and change their lists, holders present, bearers alter and
\* clocks run while resolvers and lists are awaited, verify accepts only what was
\* granted and is not revoked, and refuses what is in order only for a cause it
\* names (delegation/src verify, verify-kb, verify-v01, status-list).
THEOREM VerifyHonoursReceipts == DSpec => []ReceiptsHonoured
<1>1. ScenarioAssumption
  BY ScenarioAssumed
<1>2. DInit => DInv
  BY <1>1, InitIsKept
<1>3. DInv /\ [DNext]_dvars => DInv'
  BY <1>1, StepKeeps
<1>4. DInv => ReceiptsHonoured
  BY InvHonours
<1> QED BY <1>2, <1>3, <1>4, PTL DEF DSpec

-----------------------------------------------------------------------------
(* The Merkle tree of a batch, of any number of sessions.                  *)

\* A set that holds 0 and with every number the next holds every number.
LEMMA CountingUp ==
    ASSUME NEW S, 0 \in S, \A n \in Nat : n \in S => n + 1 \in S
    PROVE  Nat \subseteq S
<1>. DEFINE missing == Nat \ S
            R == OpToRel(<, Nat)
<1>1. SUFFICES ASSUME missing # {} PROVE FALSE
  OBVIOUS
<1>2. IsWellFoundedOn(R, Nat)
  BY NatLessThanWellFounded, Zenon
<1>. HIDE DEF R
<1>3. PICK x \in missing : \A y \in missing : ~ (<<y, x>> \in R)
  BY <1>1, <1>2, WFMin
<1>4. x - 1 \in missing /\ x \in Nat /\ x - 1 < x
  OBVIOUS
<1>5. <<x - 1, x>> \in R
  BY <1>4 DEF R, OpToRel
<1>. QED
  BY <1>3, <1>4, <1>5

\* A set of numbers with a member has a least one.
LEMMA LeastMember ==
    ASSUME NEW S \in SUBSET Nat, S # {}
    PROVE  \E x \in S : \A y \in S : x <= y
<1>. DEFINE R == OpToRel(<, Nat)
<1>1. IsWellFoundedOn(R, Nat)
  BY NatLessThanWellFounded, Zenon
<1>. HIDE DEF R
<1>2. PICK x \in S : \A y \in S : ~ (<<y, x>> \in R)
  BY <1>1, WFMin
<1>3. ASSUME NEW y \in S, y < x PROVE FALSE
  <2>1. <<y, x>> \in R
    BY <1>3 DEF R, OpToRel
  <2>. QED
    BY <1>2, <2>1
<1>. QED
  BY <1>2, <1>3

\* The sizes are what their recursion says: 1, 2, 4 and so on.
LEMMA SizesDouble ==
    ASSUME NEW n \in Nat
    PROVE  /\ Sizes(n)[0] = 1
           /\ \A h \in 1 .. n : Sizes(n)[h] = 2 * Sizes(n)[h - 1]
           /\ \A h \in 0 .. n : Sizes(n)[h] \in Nat /\ Sizes(n)[h] > h
<1>. DEFINE Is(f, m) == f = [h \in 0 .. m |-> IF h = 0 THEN 1 ELSE 2 * f[h - 1]]
            S == {m \in Nat : \E f : Is(f, m)}
<1>1. 0 \in S
  <2>1. Is([h \in 0 .. 0 |-> 1], 0)
    OBVIOUS
  <2>. QED
    BY <2>1, Zenon
<1>2. ASSUME NEW m \in Nat, m \in S PROVE m + 1 \in S
  <2>1. PICK f : Is(f, m)
    BY <1>2
  <2>2. PICK g : g = [h \in 0 .. m + 1 |-> IF h = 0 THEN 1 ELSE 2 * f[h - 1]]
    OBVIOUS
  <2>3. \A h \in 0 .. m : g[h] = f[h]
    BY <2>1, <2>2
  <2>4. \A h \in 0 .. m + 1 : g[h] = IF h = 0 THEN 1 ELSE 2 * g[h - 1]
    <3>. TAKE h \in 0 .. m + 1
    <3>1. g[h] = IF h = 0 THEN 1 ELSE 2 * f[h - 1]
      BY <2>2
    <3>2. h # 0 => h - 1 \in 0 .. m
      OBVIOUS
    <3>. QED
      BY <2>3, <3>1, <3>2
  <2>5. Is(g, m + 1)
    BY <2>2, <2>4
  <2>6. \E e : Is(e, m + 1)
    BY <2>5, Zenon
  <2>. HIDE DEF Is
  <2>. QED
    BY <2>6
<1>3. n \in S
  <2>. HIDE DEF S
  <2>. QED
    BY <1>1, <1>2, CountingUp
<1>4. Is(Sizes(n), n)
  BY <1>3 DEF Sizes
<1>5. PICK z : z = Sizes(n)
  OBVIOUS
<1>6. z[0] = 1 /\ \A h \in 1 .. n : z[h] = 2 * z[h - 1]
  BY <1>4, <1>5
<1>. DEFINE T == {h \in Nat : h \in 0 .. n => z[h] \in Nat /\ z[h] > h}
<1>7. 0 \in T /\ \A h \in Nat : h \in T => h + 1 \in T
  BY <1>6
<1>8. Nat \subseteq T
  <2>. HIDE DEF T
  <2>. QED
    BY <1>7, CountingUp
<1>. QED
  BY <1>5, <1>6, <1>8

\* The padding ends: the last size holds the leaves and every one before it does not.
LEMMA HeightMeans ==
    ASSUME NEW n \in Nat
    PROVE  Height(n) \in 0 .. n /\ Sizes(n)[Height(n)] >= n
<1>1. PICK z : z = Sizes(n)
  OBVIOUS
<1>2. \A h \in 0 .. n : z[h] \in Nat /\ z[h] > h
  BY <1>1, SizesDouble
<1>3. PICK h \in {k \in 0 .. n : z[k] >= n} : \A k \in {j \in 0 .. n : z[j] >= n} : h <= k
  <2>. DEFINE S == {k \in 0 .. n : z[k] >= n}
  <2>1. n \in S /\ S \in SUBSET Nat
    BY <1>2
  <2>. HIDE DEF S
  <2>2. \E h \in S : \A k \in S : h <= k
    BY <2>1, LeastMember
  <2>. QED
    BY <2>2 DEF S
<1>4. h \in 0 .. n /\ z[h] >= n /\ \A k \in 0 .. h - 1 : z[k] < n
  BY <1>2, <1>3
<1>. QED
  BY <1>1, <1>4, Zenon DEF Height


LEMMA WidthOfLayer ==
    ASSUME NEW w \in Nat, NEW f, f = [i \in 1 .. w |-> f[i]]
    PROVE  Len(f) = w /\ DOMAIN f = 1 .. w
<1>1. PICK S : S = {f[i] : i \in 1 .. w}
  OBVIOUS
<1>2. f \in [1 .. w -> S]
  BY <1>1
<1>3. f \in Seq(S)
  BY <1>2, SeqDef
<1>4. Len(f) \in Nat /\ DOMAIN f = 1 .. Len(f)
  BY <1>3, LenProperties
<1>. QED
  BY <1>2, <1>4

\* The layers are what their recursion says.
LEMMA LayersPair ==
    ASSUME NEW leaves, NEW H, H = Height(Len(leaves)), H \in Nat
    PROVE  /\ Layers(leaves)[0] = Padded(leaves)
           /\ \A h \in 1 .. H : Layers(leaves)[h] = NextLayer(Layers(leaves)[h - 1])
<1>. DEFINE Is(f, m) == f = [h \in 0 .. m |-> IF h = 0 THEN Padded(leaves) ELSE NextLayer(f[h - 1])]
            S == {m \in Nat : \E f : Is(f, m)}
<1>1. 0 \in S
  <2>1. Is([h \in 0 .. 0 |-> Padded(leaves)], 0)
    OBVIOUS
  <2>. QED
    BY <2>1, Zenon
<1>2. ASSUME NEW m \in Nat, m \in S PROVE m + 1 \in S
  <2>1. PICK f : Is(f, m)
    BY <1>2
  <2>2. PICK g : g = [h \in 0 .. m + 1 |-> IF h = 0 THEN Padded(leaves) ELSE NextLayer(f[h - 1])]
    OBVIOUS
  <2>3. \A h \in 0 .. m : g[h] = f[h]
    BY <2>1, <2>2
  <2>4. \A h \in 0 .. m + 1 : g[h] = IF h = 0 THEN Padded(leaves) ELSE NextLayer(g[h - 1])
    <3>. TAKE h \in 0 .. m + 1
    <3>1. g[h] = IF h = 0 THEN Padded(leaves) ELSE NextLayer(f[h - 1])
      BY <2>2
    <3>2. h # 0 => h - 1 \in 0 .. m
      OBVIOUS
    <3>. QED
      BY <2>3, <3>1, <3>2
  <2>5. Is(g, m + 1)
    BY <2>2, <2>4
  <2>6. \E e : Is(e, m + 1)
    BY <2>5, Zenon
  <2>. HIDE DEF Is
  <2>. QED
    BY <2>6
<1>3. H \in S
  <2>. HIDE DEF S
  <2>. QED
    BY <1>1, <1>2, CountingUp
<1>4. Is(Layers(leaves), H)
  BY <1>3 DEF Layers
<1>5. PICK z : z = Layers(leaves)
  OBVIOUS
<1>. QED
  BY <1>4, <1>5

\* Every layer is half as wide as the one below it, and the last is one node.
LEMMA LayersHalve ==
    ASSUME NEW leaves, NEW n \in Nat, n = Len(leaves), NEW H, H = Height(n),
           NEW z, z = Sizes(n), NEW L, L = Layers(leaves)
    PROVE  \A h \in 0 .. H :
              /\ z[H - h] \in Nat /\ DOMAIN L[h] = 1 .. z[H - h]
              /\ h > 0 => \A i \in 1 .. z[H - h] : L[h][i] = <<L[h - 1][2 * i - 1], L[h - 1][2 * i]>>
<1>1. H \in Nat /\ H <= n /\ z[H] >= n
  BY HeightMeans
<1>2. z[0] = 1 /\ \A h \in 1 .. n : z[h] = 2 * z[h - 1]
  BY SizesDouble
<1>3. \A h \in 0 .. H : z[H - h] \in Nat
  BY <1>1, SizesDouble
<1>4. L[0] = Padded(leaves) /\ \A h \in 1 .. H : L[h] = NextLayer(L[h - 1])
  BY <1>1, LayersPair
<1>. DEFINE Wide(h) == Len(L[h]) = z[H - h] /\ DOMAIN L[h] = 1 .. z[H - h]
            Pairs(h) == \A i \in 1 .. z[H - h] : L[h][i] = <<L[h - 1][2 * i - 1], L[h - 1][2 * i]>>
            S == {h \in Nat : h \in 0 .. H => Wide(h) /\ (h > 0 => Pairs(h))}
<1>5. 0 \in S
  <2>1. L[0] = [i \in 1 .. z[H] |-> L[0][i]]
    BY <1>4 DEF Padded
  <2>2. Len(L[0]) = z[H] /\ DOMAIN L[0] = 1 .. z[H]
    BY <1>1, <1>3, <2>1, WidthOfLayer
  <2>. QED
    BY <1>1, <2>2
<1>6. ASSUME NEW h \in Nat, h \in S PROVE h + 1 \in S
  <2>. SUFFICES ASSUME h + 1 \in 0 .. H PROVE Wide(h + 1) /\ Pairs(h + 1)
    BY SMTT(60)
  <2>1. PICK w, k : w = z[H - (h + 1)] /\ k = H - (h + 1)
    OBVIOUS
  <2>2. h \in 0 .. H /\ H - h \in 1 .. n /\ (H - h) - 1 = H - (h + 1) /\ h + 1 \in 1 .. H /\ (h + 1) - 1 = h
    BY <1>1
  <2>3. w \in Nat /\ z[H - h] = 2 * w
    BY <1>2, <1>3, <2>1, <2>2
  <2>4. Len(L[h]) = 2 * w
    BY <1>6, <2>2, <2>3
  <2>5. (2 * w) \div 2 = w
    BY <2>3
  <2>6. L[h + 1] = [i \in 1 .. w |-> <<L[h][2 * i - 1], L[h][2 * i]>>]
    <3>1. L[h + 1] = NextLayer(L[h])
      BY <1>4, <2>2
    <3>2. Len(L[h]) \div 2 = w
      BY <2>4, <2>5
    <3>. QED
      BY <3>1, <3>2, Zenon DEF NextLayer
  <2>7. L[h + 1] = [i \in 1 .. w |-> L[h + 1][i]]
    BY <2>6
  <2>8. Len(L[h + 1]) = w /\ DOMAIN L[h + 1] = 1 .. w
    BY <2>3, <2>7, WidthOfLayer
  <2>9. \A i \in 1 .. w : L[h + 1][i] = <<L[h][2 * i - 1], L[h][2 * i]>>
    BY <2>6
  <2>. QED
    BY <2>1, <2>2, <2>8, <2>9
<1>7. Nat \subseteq S
  <2>. HIDE DEF S
  <2>. QED
    BY <1>5, <1>6, CountingUp
<1>8. ASSUME NEW h \in 0 .. H PROVE Wide(h) /\ (h > 0 => Pairs(h))
  BY <1>1, <1>7
<1>. QED
  BY <1>3, <1>8


\* The path of an index is what its recursion says.
LEMMA PathHalves ==
    ASSUME NEW index, NEW H \in Nat
    PROVE  /\ Path(index, H)[0] = index
           /\ \A h \in 1 .. H : Path(index, H)[h] = Path(index, H)[h - 1] \div 2
<1>. DEFINE Is(f, m) == f = [h \in 0 .. m |-> IF h = 0 THEN index ELSE f[h - 1] \div 2]
            S == {m \in Nat : \E f : Is(f, m)}
<1>1. 0 \in S
  <2>1. Is([h \in 0 .. 0 |-> index], 0)
    OBVIOUS
  <2>. QED
    BY <2>1, Zenon
<1>2. ASSUME NEW m \in Nat, m \in S PROVE m + 1 \in S
  <2>1. PICK f : Is(f, m)
    BY <1>2
  <2>2. PICK g : g = [h \in 0 .. m + 1 |-> IF h = 0 THEN index ELSE f[h - 1] \div 2]
    OBVIOUS
  <2>3. \A h \in 0 .. m : g[h] = f[h]
    BY <2>1, <2>2
  <2>4. \A h \in 0 .. m + 1 : g[h] = IF h = 0 THEN index ELSE g[h - 1] \div 2
    <3>. TAKE h \in 0 .. m + 1
    <3>1. g[h] = IF h = 0 THEN index ELSE f[h - 1] \div 2
      BY <2>2
    <3>2. h # 0 => h - 1 \in 0 .. m
      OBVIOUS
    <3>. QED
      BY <2>3, <3>1, <3>2
  <2>5. Is(g, m + 1)
    BY <2>2, <2>4
  <2>6. \E e : Is(e, m + 1)
    BY <2>5, Zenon
  <2>. HIDE DEF Is
  <2>. QED
    BY <2>6
<1>3. H \in S
  <2>. HIDE DEF S
  <2>. QED
    BY <1>1, <1>2, CountingUp
<1>4. Is(Path(index, H), H)
  BY <1>3 DEF Path
<1>5. PICK z : z = Path(index, H)
  OBVIOUS
<1>. QED
  BY <1>4, <1>5

\* Hashing up a proof is what its recursion says.
LEMMA HashedSteps ==
    ASSUME NEW leaf, NEW proof, NEW H, H = Len(proof), H \in Nat
    PROVE  /\ Hashed(leaf, proof)[0] = leaf
           /\ \A h \in 1 .. H : Hashed(leaf, proof)[h] =
                 IF proof[h].side = 0 THEN <<Hashed(leaf, proof)[h - 1], proof[h].sibling>>
                 ELSE <<proof[h].sibling, Hashed(leaf, proof)[h - 1]>>
<1>. DEFINE Step(node, h) == IF proof[h].side = 0 THEN <<node, proof[h].sibling>>
                             ELSE <<proof[h].sibling, node>>
            Is(f, m) == f = [h \in 0 .. m |-> IF h = 0 THEN leaf ELSE Step(f[h - 1], h)]
            S == {m \in Nat : \E f : Is(f, m)}
<1>1. 0 \in S
  <2>1. Is([h \in 0 .. 0 |-> leaf], 0)
    OBVIOUS
  <2>. QED
    BY <2>1, Zenon
<1>2. ASSUME NEW m \in Nat, m \in S PROVE m + 1 \in S
  <2>1. PICK f : Is(f, m)
    BY <1>2
  <2>. HIDE DEF Step
  <2>2. PICK g : g = [h \in 0 .. m + 1 |-> IF h = 0 THEN leaf ELSE Step(f[h - 1], h)]
    OBVIOUS
  <2>3. \A h \in 0 .. m : g[h] = f[h]
    BY <2>1, <2>2
  <2>4. \A h \in 0 .. m + 1 : g[h] = IF h = 0 THEN leaf ELSE Step(g[h - 1], h)
    <3>. TAKE h \in 0 .. m + 1
    <3>1. g[h] = IF h = 0 THEN leaf ELSE Step(f[h - 1], h)
      BY <2>2
    <3>2. h # 0 => h - 1 \in 0 .. m
      OBVIOUS
    <3>. QED
      BY <2>3, <3>1, <3>2
  <2>5. Is(g, m + 1)
    BY <2>2, <2>4, SMTT(60)
  <2>6. \E e : Is(e, m + 1)
    BY <2>5, Zenon
  <2>. HIDE DEF Is
  <2>. QED
    BY <2>6
<1>3. H \in S
  <2>. HIDE DEF S
  <2>. QED
    BY <1>1, <1>2, CountingUp, SMTT(60)
<1>4. Is(Hashed(leaf, proof), H)
  BY <1>3 DEF Hashed
<1>5. PICK z : z = Hashed(leaf, proof)
  OBVIOUS
<1>6. z[0] = leaf /\ \A h \in 1 .. H : z[h] = Step(z[h - 1], h)
  <2>. HIDE DEF Step
  <2>. QED
    BY <1>4, <1>5
<1>. QED
  BY <1>5, <1>6

\* An index and its half: which pair of a layer a node belongs to, and on which side.
LEMMA HalfOfIndex ==
    ASSUME NEW w \in Nat, NEW k \in 0 .. 2 * w - 1
    PROVE  /\ k \div 2 \in 0 .. w - 1 /\ (k \div 2) + 1 \in 1 .. w
           /\ \/ k % 2 = 0 /\ k = 2 * (k \div 2)
              \/ k % 2 = 1 /\ k = 2 * (k \div 2) + 1
<1>1. k \in Int /\ 0 <= k /\ k < 2 * w
  OBVIOUS
<1>2. PICK q \in Int : q = k \div 2
  BY <1>1
<1>3. \/ k % 2 = 0 /\ k = 2 * q
      \/ k % 2 = 1 /\ k = 2 * q + 1
  BY <1>1, <1>2
<1>4. 0 <= q /\ q < w
  BY <1>1, <1>3
<1>. QED
  BY <1>2, <1>3, <1>4

\* A proof takes a leaf to the root of the layers its siblings are of, and takes
\* no other leaf there.
LEMMA ProofIncludes ==
    ASSUME NEW leaves, NEW n \in Nat, n = Len(leaves), DOMAIN leaves = 1 .. n, NEW index \in 0 .. n - 1, NEW leaf
    PROVE  Includes(leaf, MerkleProof(leaves, index), MerkleRoot(leaves)) <=> leaf = leaves[index + 1]
<1>1. PICK H, z, L, at, proof, root, cur :
         /\ H = Height(n) /\ z = Sizes(n) /\ L = Layers(leaves) /\ at = Path(index, H)
         /\ proof = MerkleProof(leaves, index) /\ root = MerkleRoot(leaves)
         /\ cur = Hashed(leaf, proof)
  OBVIOUS
<1>2. H \in Nat /\ H <= n /\ z[H] >= n
  <2>1. Height(n) \in 0 .. n /\ Sizes(n)[Height(n)] >= n
    BY HeightMeans
  <2>. QED
    BY <1>1, <2>1
<1>3. z[0] = 1 /\ (\A h \in 1 .. n : z[h] = 2 * z[h - 1]) /\ (\A h \in 0 .. n : z[h] \in Nat)
  BY <1>1, SizesDouble
<1>4. \A h \in 0 .. H :
         /\ z[H - h] \in Nat /\ DOMAIN L[h] = 1 .. z[H - h]
         /\ h > 0 => \A i \in 1 .. z[H - h] : L[h][i] = <<L[h - 1][2 * i - 1], L[h - 1][2 * i]>>
  BY <1>1, LayersHalve, SMTT(60)
<1>5. at[0] = index /\ \A h \in 1 .. H : at[h] = at[h - 1] \div 2
  BY <1>1, <1>2, PathHalves
<1>6. proof = [h \in 1 .. H |-> [sibling |-> L[h - 1][Sibling(at[h - 1]) + 1], side |-> PathIndex(at[h - 1])]]
  BY <1>1, Zenon DEF MerkleProof
<1>7. Len(proof) = H
  <2>1. proof = [h \in 1 .. H |-> proof[h]]
    BY <1>6
  <2>. QED
    BY <1>2, <2>1, WidthOfLayer
<1>8. /\ cur[0] = leaf
      /\ \A h \in 1 .. H : cur[h] = IF proof[h].side = 0 THEN <<cur[h - 1], proof[h].sibling>>
                                    ELSE <<proof[h].sibling, cur[h - 1]>>
  BY <1>1, <1>2, <1>7, HashedSteps
<1>9. L[0][index + 1] = leaves[index + 1]
  <2>1. L[0] = Padded(leaves)
    BY <1>1, <1>2, LayersPair
  <2>2. H \in 0 .. n
    BY <1>2
  <2>3. z[H] \in Nat
    BY <1>3, <2>2
  <2>4. index + 1 \in 1 .. z[H] /\ index + 1 <= n
    BY <1>2, <2>3
  <2>. QED
    BY <1>1, <2>1, <2>4 DEF Padded
<1>. DEFINE node(h) == L[h][at[h] + 1]
            Inside(h) == at[h] \in 0 .. z[H - h] - 1
            Meets(h) == cur[h] = node(h) <=> leaf = leaves[index + 1]
            S == {h \in Nat : h \in 0 .. H => Inside(h) /\ Meets(h)}
<1>10. 0 \in S
  <2>1. Inside(0)
    BY <1>2, <1>4, <1>5
  <2>2. Meets(0)
    BY <1>5, <1>8, <1>9
  <2>. QED
    BY <2>1, <2>2
<1>11. ASSUME NEW h \in Nat, h \in S PROVE h + 1 \in S
  <2>. SUFFICES ASSUME h + 1 \in 0 .. H PROVE Inside(h + 1) /\ Meets(h + 1)
    OBVIOUS
  <2>1. h \in 0 .. H /\ H - h \in 1 .. n /\ (H - h) - 1 = H - (h + 1) /\ h + 1 \in 1 .. H /\ (h + 1) - 1 = h
    BY <1>2
  <2>2. PICK w, k, i : w = z[H - (h + 1)] /\ k = at[h] /\ i = at[h + 1]
    OBVIOUS
  <2>3. w \in Nat /\ z[H - h] = 2 * w
    BY <1>3, <1>4, <2>1, <2>2
  <2>4. k \in 0 .. 2 * w - 1 /\ Meets(h)
    BY <1>11, <2>1, <2>2, <2>3
  <2>5. /\ i \in 0 .. w - 1 /\ i + 1 \in 1 .. w
        /\ \/ k % 2 = 0 /\ k = 2 * i
           \/ k % 2 = 1 /\ k = 2 * i + 1
    <3>1. k \in 0 .. 2 * w - 1
      BY <2>4
    <3>2. i = k \div 2
      BY <1>5, <2>1, <2>2
    <3>. HIDE DEF node, Meets, Inside
    <3>. QED
      BY <2>3, <3>1, <3>2, HalfOfIndex
  <2>6. node(h + 1) = <<L[h][2 * i + 1], L[h][2 * i + 2]>>
    <3>1. L[h + 1][i + 1] = <<L[h][2 * (i + 1) - 1], L[h][2 * (i + 1)]>>
      <4>1. h + 1 \in 0 .. H /\ h + 1 > 0 /\ (h + 1) - 1 = h /\ i + 1 \in 1 .. z[H - (h + 1)]
        BY <2>1, <2>2, <2>5
      <4>. QED
        BY <1>4, <4>1
    <3>2. 2 * (i + 1) - 1 = 2 * i + 1 /\ 2 * (i + 1) = 2 * i + 2
      BY <2>5
    <3>. QED
      BY <2>2, <3>1, <3>2
  <2>7. proof[h + 1] = [sibling |-> L[h][Sibling(k) + 1], side |-> PathIndex(k)]
    BY <1>6, <2>1, <2>2
  <2>8. cur[h + 1] = IF PathIndex(k) = 0 THEN <<cur[h], L[h][Sibling(k) + 1]>>
                     ELSE <<L[h][Sibling(k) + 1], cur[h]>>
    BY <1>8, <2>1, <2>7
  <2>9. CASE k % 2 = 0 /\ k = 2 * i
    <3>1. PathIndex(k) = 0 /\ Sibling(k) + 1 = 2 * i + 2
      BY <2>5, <2>9 DEF PathIndex, Sibling
    <3>2. cur[h + 1] = <<cur[h], L[h][2 * i + 2]>> /\ node(h) = L[h][2 * i + 1]
      BY <2>2, <2>8, <2>9, <3>1
    <3>3. Meets(h + 1)
      BY <2>4, <2>6, <3>2
    <3>. QED
      BY <2>2, <2>5, <3>3
  <2>10. CASE k % 2 = 1 /\ k = 2 * i + 1
    <3>1. PathIndex(k) = 1 /\ Sibling(k) + 1 = 2 * i + 1 /\ k + 1 = 2 * i + 2
      BY <2>5, <2>10 DEF PathIndex, Sibling
    <3>2. cur[h + 1] = <<L[h][2 * i + 1], cur[h]>> /\ node(h) = L[h][2 * i + 2]
      BY <2>2, <2>8, <3>1
    <3>3. Meets(h + 1)
      BY <2>4, <2>6, <3>2
    <3>. QED
      BY <2>2, <2>5, <3>3
  <2>. QED
    BY <2>5, <2>9, <2>10
<1>12. Nat \subseteq S
  <2>. HIDE DEF S
  <2>. QED
    BY <1>10, <1>11, CountingUp
<1>13. Inside(H) /\ Meets(H)
  BY <1>2, <1>12
<1>14. at[H] = 0 /\ root = L[H][1]
  <2>1. H - H = 0
    BY <1>2
  <2>2. at[H] = 0
    BY <1>3, <1>13, <2>1
  <2>. QED
    BY <1>1, <2>2 DEF MerkleRoot
<1>15. cur[H] = root <=> leaf = leaves[index + 1]
  BY <1>13, <1>14
<1>. QED
  BY <1>1, <1>7, <1>15 DEF Includes

-----------------------------------------------------------------------------
(* The roots of a batch.                                                   *)

IsASequence(s) == s \in Seq({s[i] : i \in DOMAIN s})
IsRootCall(r) == r.op \in {"root", "post"}
IsBatchCall(r) ==
    r = [op |-> r.op, phase |-> r.phase, began |-> r.began, leaves |-> r.leaves, ended |-> r.ended,
         batchIndex |-> r.batchIndex, root |-> r.root, count |-> r.count]

\* A call that computes a root read the first sessions, as many as there were.
ReadSome(r, sessions) ==
    IsRootCall(r) /\ (r.phase = "hashing" \/ r.ended # None) =>
        /\ Len(r.leaves) \in 1 .. Len(sessions) /\ r.leaves = SubSeq(sessions, 1, Len(r.leaves))
        /\ r.began = Len(r.leaves)

\* The root of the first n was cached when there were more.
Overtaken(n, C) ==
    \E d \in DOMAIN C : /\ IsRootCall(C[d]) /\ C[d].ended # None
                        /\ Len(C[d].leaves) = n /\ C[d].ended > n

\* A root is of the first n sessions, and misses one of those there were before
\* it was asked for only if it was overtaken.
Covers(root, n, began, sessions, C) ==
    /\ n \in 0 .. Len(sessions) /\ root = IF n = 0 THEN Zero ELSE MerkleRoot(SubSeq(sessions, 1, n))
    /\ n >= began \/ Overtaken(n, C)

\* What a call was answered, or posts with a count, is of sessions it accounts for.
Accounts(r, sessions, C) ==
    /\ r.began \in 0 .. Len(sessions)
    /\ r.phase \in {"idle", "hashing"} => r.ended = None /\ r.root = None
    /\ r.phase \in {"idle", "hashing", "rooted"} => r.count = None
    /\ r.phase = "mining" => r.op = "post"
    /\ r.root # None => IsRootCall(r) /\
          \E n \in 0 .. Len(sessions) :
              /\ Covers(r.root, n, r.began, sessions, C)
              /\ r.op = "post" => n # 0
              /\ r.count # None => r.op = "post" /\ r.count \in Nat /\ n <= r.count

Cached(root, sessions, C) ==
    root # None => \E n \in 1 .. Len(sessions) : Covers(root, n, Len(sessions), sessions, C)

CallsOK(C, sessions) ==
    /\ C = [c \in Calls |-> C[c]]
    /\ \A c \in Calls : IsBatchCall(C[c]) /\ ReadSome(C[c], sessions) /\ Accounts(C[c], sessions, C)

BatchInv ==
    /\ IsASequence(commitments)
    /\ CallsOK(calls, commitments)
    /\ Cached(cachedRoot, commitments, calls)

Extended(s, t) ==
    /\ Len(s) \in Nat /\ Len(t) \in Nat /\ Len(s) <= Len(t)
    /\ \A n \in 0 .. Len(s) : SubSeq(t, 1, n) = SubSeq(s, 1, n)

\* A session that is pushed comes after all there are.
LEMMA PushGrows ==
    ASSUME NEW s, IsASequence(s), NEW e, NEW t, t = Append(s, e)
    PROVE  Extended(s, t) /\ Len(t) = Len(s) + 1 /\ IsASequence(t)
<1>1. PICK U : U = {s[i] : i \in DOMAIN s} \cup {e}
  OBVIOUS
<1>2. Len(s) \in Nat /\ DOMAIN s = 1 .. Len(s)
  BY LenProperties DEF IsASequence
<1>3. s \in Seq(U) /\ e \in U
  BY <1>1, <1>2, LenProperties DEF IsASequence
<1>4. t \in Seq(U) /\ Len(t) = Len(s) + 1 /\ \A i \in 1 .. Len(s) : t[i] = s[i]
  BY <1>3, AppendProperties
<1>5. DOMAIN t = 1 .. Len(s) + 1
  BY <1>4, LenProperties
<1>6. IsASequence(t)
  BY <1>4, <1>5 DEF IsASequence
<1>7. ASSUME NEW n \in 0 .. Len(s) PROVE SubSeq(t, 1, n) = SubSeq(s, 1, n)
  <2>1. CASE n = 0
    <3>1. SubSeq(t, 1, 0) = <<>> /\ SubSeq(s, 1, 0) = <<>>
      BY SubSeqEmpty
    <3>. QED
      BY <2>1, <3>1
  <2>2. CASE n # 0
    <3>0. <<e>> \in Seq(U)
      BY <1>3
    <3>1. PICK last : last = <<e>> /\ last \in Seq(U)
      BY <3>0
    <3>2. t = s \o last
      BY <1>3, <3>1, AppendIsConcat
    <3>3. 1 \in 1 .. Len(s) /\ n \in 1 .. Len(s)
      BY <1>2, <2>2
    <3>4. SubSeq(s \o last, 1, n) = SubSeq(s, 1, n)
      BY <1>3, <3>1, <3>3, SubSeqOfConcat1
    <3>. QED
      BY <3>2, <3>4
  <2>. QED
    BY <2>1, <2>2
<1>. QED
  BY <1>2, <1>4, <1>6, <1>7 DEF Extended

\* A call that once cached a root stays what it was.
Settled(r, u) ==
    IsRootCall(r) /\ r.ended # None => u.op = r.op /\ u.ended = r.ended /\ u.leaves = r.leaves

LEMMA OvertakenStays ==
    ASSUME NEW C, C = [c \in Calls |-> C[c]], NEW c \in Calls, NEW u, Settled(C[c], u),
           NEW D, D = [C EXCEPT ![c] = u], NEW n, Overtaken(n, C)
    PROVE  Overtaken(n, D)
<1>1. DOMAIN C = Calls /\ DOMAIN D = Calls /\ D[c] = u /\ \A d \in Calls : d # c => D[d] = C[d]
  OBVIOUS
<1>2. PICK d \in Calls : IsRootCall(C[d]) /\ C[d].ended # None /\ Len(C[d].leaves) = n /\ C[d].ended > n
  BY <1>1 DEF Overtaken
<1>3. IsRootCall(D[d]) /\ D[d].ended # None /\ Len(D[d].leaves) = n /\ D[d].ended > n
  BY <1>1, <1>2 DEF Settled, IsRootCall
<1>. QED
  BY <1>1, <1>3 DEF Overtaken

LEMMA CoversStays ==
    ASSUME NEW s, NEW t, Extended(s, t), NEW C, NEW D, \A k : Overtaken(k, C) => Overtaken(k, D),
           NEW root, NEW n, NEW began, Covers(root, n, began, s, C)
    PROVE  Covers(root, n, began, t, D) /\ n \in 0 .. Len(t)
<1>1. n \in 0 .. Len(t) /\ SubSeq(t, 1, n) = SubSeq(s, 1, n)
  BY DEF Extended, Covers
<1>. QED
  BY <1>1 DEF Covers

LEMMA CallStays ==
    ASSUME NEW s, NEW t, Extended(s, t), NEW C, NEW D, \A k : Overtaken(k, C) => Overtaken(k, D),
           NEW r, ReadSome(r, s), Accounts(r, s, C)
    PROVE  ReadSome(r, t) /\ Accounts(r, t, D)
<1>1. ReadSome(r, t)
  <2>. SUFFICES ASSUME IsRootCall(r), r.phase = "hashing" \/ r.ended # None
                PROVE  /\ Len(r.leaves) \in 1 .. Len(t) /\ r.leaves = SubSeq(t, 1, Len(r.leaves))
                       /\ r.began = Len(r.leaves)
    BY DEF ReadSome
  <2>1. /\ Len(r.leaves) \in 1 .. Len(s) /\ r.leaves = SubSeq(s, 1, Len(r.leaves))
        /\ r.began = Len(r.leaves)
    BY DEF ReadSome
  <2>2. PICK n : n = Len(r.leaves)
    OBVIOUS
  <2>3. n \in 1 .. Len(t) /\ SubSeq(t, 1, n) = SubSeq(s, 1, n)
    BY <2>1, <2>2 DEF Extended
  <2>. QED
    BY <2>1, <2>2, <2>3
<1>2. r.began \in 0 .. Len(t)
  BY DEF Extended, Accounts
<1>3. ASSUME r.root # None
      PROVE  \E n \in 0 .. Len(t) :
                /\ Covers(r.root, n, r.began, t, D)
                /\ r.op = "post" => n # 0
                /\ r.count # None => r.op = "post" /\ r.count \in Nat /\ n <= r.count
  <2>1. PICK n \in 0 .. Len(s) :
                /\ Covers(r.root, n, r.began, s, C)
                /\ r.op = "post" => n # 0
                /\ r.count # None => r.op = "post" /\ r.count \in Nat /\ n <= r.count
    BY <1>3 DEF Accounts
  <2>2. Covers(r.root, n, r.began, t, D) /\ n \in 0 .. Len(t)
    BY <2>1, CoversStays
  <2>. QED
    BY <2>1, <2>2
<1>. QED
  BY <1>1, <1>2, <1>3 DEF Accounts

\* One call moves on, over sessions that are the same or one more.
LEMMA CallMoves ==
    ASSUME CallsOK(calls, commitments), NEW c \in Calls, NEW u, Settled(calls[c], u),
           calls' = [calls EXCEPT ![c] = u], Extended(commitments, commitments'),
           IsBatchCall(u), ReadSome(u, commitments'), Accounts(u, commitments', calls')
    PROVE  CallsOK(calls', commitments')
<1>1. calls = [d \in Calls |-> calls[d]]
  BY DEF CallsOK
<1>2. /\ calls' = [d \in Calls |-> calls'[d]] /\ calls'[c] = u
      /\ \A d \in Calls : d # c => calls'[d] = calls[d]
  BY <1>1
<1>3. PICK C, D, s, t : C = calls /\ D = calls' /\ s = commitments /\ t = commitments'
  OBVIOUS
<1>4. \A k : Overtaken(k, C) => Overtaken(k, D)
  BY <1>1, <1>3, OvertakenStays
<1>5. ASSUME NEW d \in Calls, d # c
      PROVE  IsBatchCall(calls'[d]) /\ ReadSome(calls'[d], commitments') /\ Accounts(calls'[d], commitments', calls')
  <2>1. PICK r : r = calls[d]
    OBVIOUS
  <2>2. IsBatchCall(r) /\ ReadSome(r, s) /\ Accounts(r, s, C)
    BY <1>3, <2>1 DEF CallsOK
  <2>3. ReadSome(r, t) /\ Accounts(r, t, D)
    BY <1>3, <1>4, <2>2, CallStays
  <2>. QED
    BY <1>2, <1>3, <1>5, <2>1, <2>2, <2>3
<1>6. ASSUME NEW d \in Calls
      PROVE  IsBatchCall(calls'[d]) /\ ReadSome(calls'[d], commitments') /\ Accounts(calls'[d], commitments', calls')
  <2>1. CASE d = c
    BY <1>2, <2>1
  <2>2. CASE d # c
    BY <1>5, <2>2
  <2>. QED
    BY <2>1, <2>2
<1>. QED
  BY <1>2, <1>6 DEF CallsOK

\* The same when nothing is pushed and the cache is left alone.
LEMMA CallMovesAlone ==
    ASSUME BatchInv, NEW c \in Calls, NEW u, Settled(calls[c], u),
           calls' = [calls EXCEPT ![c] = u], UNCHANGED <<commitments, cachedRoot>>,
           IsBatchCall(u), ReadSome(u, commitments), Accounts(u, commitments, calls)
    PROVE  BatchInv'
<1>1. commitments' = commitments /\ cachedRoot' = cachedRoot /\ Len(commitments) \in Nat
  BY LenProperties DEF BatchInv, IsASequence
<1>2. Extended(commitments, commitments)
  BY <1>1 DEF Extended
<1>3. PICK C, D : C = calls /\ D = calls'
  OBVIOUS
<1>4. \A k : Overtaken(k, C) => Overtaken(k, D)
  BY <1>3, OvertakenStays DEF BatchInv, CallsOK
<1>5. Accounts(u, commitments, D)
  BY <1>2, <1>3, <1>4, CallStays
<1>6. CallsOK(calls', commitments')
  BY <1>1, <1>2, <1>3, <1>5, CallMoves DEF BatchInv
<1>7. Cached(cachedRoot, commitments, D)
  <2>. SUFFICES ASSUME cachedRoot # None
                PROVE  \E n \in 1 .. Len(commitments) : Covers(cachedRoot, n, Len(commitments), commitments, D)
    BY DEF Cached
  <2>1. PICK n \in 1 .. Len(commitments) : Covers(cachedRoot, n, Len(commitments), commitments, C)
    BY <1>3 DEF BatchInv, Cached
  <2>2. Covers(cachedRoot, n, Len(commitments), commitments, D)
    BY <1>2, <1>4, <2>1, CoversStays
  <2>. QED
    BY <2>2
<1>. QED
  BY <1>1, <1>3, <1>6, <1>7 DEF BatchInv

LEMMA BatchSteps ==
    ASSUME BatchInv, NEW c \in Calls, NEW r, r = calls[c]
    PROVE  /\ IsBatchCall(r) /\ ReadSome(r, commitments) /\ Accounts(r, commitments, calls)
           /\ Len(commitments) \in Nat /\ DOMAIN calls = Calls
  BY LenProperties, SMTT(60) DEF BatchInv, IsASequence, CallsOK

LEMMA AddKeeps ==
    ASSUME BatchInv, NEW c \in Calls, NEW verified \in BOOLEAN, Add(c, verified)
    PROVE  BatchInv'
<1>1. PICK r, u : /\ r = calls[c]
                  /\ u = IF verified THEN [r EXCEPT !.op = "add", !.phase = "hashing",
                                                    !.began = Len(commitments), !.batchIndex = Len(commitments)]
                         ELSE [r EXCEPT !.op = "add", !.phase = "thrown"]
  OBVIOUS
<1>2. /\ IsBatchCall(r) /\ ReadSome(r, commitments) /\ Accounts(r, commitments, calls)
      /\ Len(commitments) \in Nat /\ DOMAIN calls = Calls
  BY <1>1, BatchSteps
<1>3. r.phase = "idle" /\ calls' = [calls EXCEPT ![c] = u] /\ UNCHANGED <<commitments, cachedRoot>>
  BY <1>1, <1>2 DEF Add, Made
<1>4. r.ended = None /\ r.root = None /\ r.count = None
  BY <1>2, <1>3 DEF Accounts
<1>5. /\ IsBatchCall(u) /\ u.op = "add" /\ u.phase \in {"hashing", "thrown"} /\ u.began \in {r.began, Len(commitments)}
      /\ u.ended = None /\ u.root = None /\ u.count = None
  BY <1>1, <1>2, <1>4 DEF IsBatchCall
<1>6. ReadSome(u, commitments) /\ Accounts(u, commitments, calls) /\ Settled(r, u)
  BY <1>2, <1>4, <1>5 DEF ReadSome, Accounts, Settled, IsRootCall
<1>. QED
  BY <1>1, <1>3, <1>5, <1>6, CallMovesAlone

LEMMA AskKeeps ==
    ASSUME BatchInv, NEW c \in Calls, NEW op \in {"root", "post"}, AskRoot(c, op)
    PROVE  BatchInv'
<1>1. PICK r, asked : r = calls[c] /\ asked = [r EXCEPT !.op = op, !.began = Len(commitments)]
  OBVIOUS
<1>2. PICK u : u = IF commitments = <<>>
                   THEN IF op = "post" THEN [asked EXCEPT !.phase = "thrown"]
                        ELSE [asked EXCEPT !.phase = "rooted", !.root = Zero]
                   ELSE IF cachedRoot # None THEN [asked EXCEPT !.phase = "rooted", !.root = cachedRoot]
                   ELSE [asked EXCEPT !.phase = "hashing", !.leaves = commitments]
  OBVIOUS
<1>3. /\ IsBatchCall(r) /\ ReadSome(r, commitments) /\ Accounts(r, commitments, calls)
      /\ Len(commitments) \in Nat /\ DOMAIN calls = Calls
  BY <1>1, BatchSteps
<1>4. r.phase = "idle" /\ calls' = [calls EXCEPT ![c] = u] /\ UNCHANGED <<commitments, cachedRoot>>
  BY <1>1, <1>2, <1>3 DEF AskRoot, Made
<1>5. r.ended = None /\ r.root = None /\ r.count = None
  BY <1>3, <1>4 DEF Accounts
<1>6. /\ IsBatchCall(asked) /\ asked.op = op /\ asked.began = Len(commitments)
      /\ asked.ended = None /\ asked.root = None /\ asked.count = None
  BY <1>1, <1>3, <1>5 DEF IsBatchCall
<1>7. Settled(r, u)
  BY <1>5 DEF Settled
<1>8. CASE commitments = <<>> /\ op = "post"
  <2>1. /\ IsBatchCall(u) /\ u.op = op /\ u.phase = "thrown" /\ u.began = Len(commitments)
        /\ u.ended = None /\ u.root = None /\ u.count = None
    BY <1>2, <1>6, <1>8 DEF IsBatchCall
  <2>2. ReadSome(u, commitments) /\ Accounts(u, commitments, calls)
    BY <1>3, <2>1 DEF ReadSome, Accounts
  <2>. QED
    BY <1>1, <1>4, <1>7, <2>1, <2>2, CallMovesAlone
<1>9. CASE commitments = <<>> /\ op = "root"
  <2>1. /\ IsBatchCall(u) /\ u.op = "root" /\ u.phase = "rooted" /\ u.began = 0
        /\ u.ended = None /\ u.root = Zero /\ u.count = None
    BY <1>2, <1>6, <1>9 DEF IsBatchCall
  <2>2. Covers(Zero, 0, 0, commitments, calls)
    BY <1>3 DEF Covers
  <2>3. ReadSome(u, commitments) /\ Accounts(u, commitments, calls)
    BY <1>3, <2>1, <2>2 DEF ReadSome, Accounts, IsRootCall
  <2>. QED
    BY <1>1, <1>4, <1>7, <2>1, <2>3, CallMovesAlone
<1>10. CASE commitments # <<>> /\ cachedRoot # None
  <2>1. /\ IsBatchCall(u) /\ u.op = op /\ u.phase = "rooted" /\ u.began = Len(commitments)
        /\ u.ended = None /\ u.root = cachedRoot /\ u.count = None
    BY <1>2, <1>6, <1>10 DEF IsBatchCall
  <2>2. PICK n \in 1 .. Len(commitments) : Covers(cachedRoot, n, Len(commitments), commitments, calls)
    BY <1>10 DEF BatchInv, Cached
  <2>3. n \in 0 .. Len(commitments) /\ n # 0
    BY <1>3, <2>2
  <2>4. ReadSome(u, commitments) /\ Accounts(u, commitments, calls)
    BY <1>3, <2>1, <2>2, <2>3 DEF ReadSome, Accounts, IsRootCall
  <2>. QED
    BY <1>1, <1>4, <1>7, <2>1, <2>4, CallMovesAlone
<1>11. CASE commitments # <<>> /\ cachedRoot = None
  <2>1. /\ IsBatchCall(u) /\ u.op = op /\ u.phase = "hashing" /\ u.began = Len(commitments)
        /\ u.leaves = commitments /\ u.ended = None /\ u.root = None /\ u.count = None
    BY <1>2, <1>6, <1>11 DEF IsBatchCall
  <2>2. SubSeq(commitments, 1, Len(commitments)) = commitments
    BY SubSeqFull DEF BatchInv, IsASequence
  <2>3. Len(commitments) # 0
    BY <1>11, EmptySeq DEF BatchInv, IsASequence
  <2>4. ReadSome(u, commitments) /\ Accounts(u, commitments, calls)
    BY <1>3, <2>1, <2>2, <2>3 DEF ReadSome, Accounts
  <2>. QED
    BY <1>1, <1>4, <1>7, <2>1, <2>4, CallMovesAlone
<1>. QED
  BY <1>8, <1>9, <1>10, <1>11

LEMMA SendKeeps ==
    ASSUME BatchInv, NEW c \in Calls, Send(c) \/ Confirm(c)
    PROVE  BatchInv'
<1>1. PICK r : r = calls[c]
  OBVIOUS
<1>2. /\ IsBatchCall(r) /\ ReadSome(r, commitments) /\ Accounts(r, commitments, calls)
      /\ Len(commitments) \in Nat /\ DOMAIN calls = Calls
  BY <1>1, BatchSteps
<1>3. r.phase \in {"rooted", "mining"} /\ r.op = "post"
  BY <1>1, <1>2 DEF Send, Confirm, Accounts
<1>4. PICK u \in {[r EXCEPT !.phase = "mining", !.count = Len(commitments)],
                  [r EXCEPT !.phase = "done", !.count = Len(commitments)], [r EXCEPT !.phase = "thrown"]} :
          calls' = [calls EXCEPT ![c] = u] /\ UNCHANGED <<commitments, cachedRoot>>
  BY <1>1, <1>2 DEF Send, Confirm
<1>5. /\ IsBatchCall(u) /\ u.op = "post" /\ u.phase \in {"mining", "done", "thrown"} /\ u.count \in {r.count, Len(commitments)}
      /\ u.began = r.began /\ u.leaves = r.leaves /\ u.ended = r.ended /\ u.root = r.root
  BY <1>2, <1>3, <1>4, ZenonT(60) DEF IsBatchCall
<1>6. ReadSome(u, commitments) /\ Settled(r, u)
  BY <1>2, <1>3, <1>5 DEF ReadSome, Settled, IsRootCall
<1>7. Accounts(u, commitments, calls)
  <2>1. ASSUME u.root # None
        PROVE  \E n \in 0 .. Len(commitments) :
                  /\ Covers(u.root, n, u.began, commitments, calls)
                  /\ u.op = "post" => n # 0
                  /\ u.count # None => u.op = "post" /\ u.count \in Nat /\ n <= u.count
    <3>1. PICK n \in 0 .. Len(commitments) :
                  /\ Covers(r.root, n, r.began, commitments, calls)
                  /\ r.op = "post" => n # 0
                  /\ r.count # None => r.op = "post" /\ r.count \in Nat /\ n <= r.count
      BY <1>2, <1>5, <2>1 DEF Accounts
    <3>. QED
      BY <1>2, <1>3, <1>5, <3>1
  <2>. QED
    BY <1>2, <1>5, <2>1 DEF Accounts, IsRootCall
<1>. QED
  BY <1>1, <1>4, <1>5, <1>6, <1>7, CallMovesAlone

LEMMA PushKeeps ==
    ASSUME BatchInv, NEW c \in Calls, Push(c)
    PROVE  BatchInv'
<1>1. PICK r, u : r = calls[c] /\ u = [r EXCEPT !.phase = "done", !.ended = Len(commitments) + 1]
  OBVIOUS
<1>2. /\ IsBatchCall(r) /\ ReadSome(r, commitments) /\ Accounts(r, commitments, calls)
      /\ Len(commitments) \in Nat /\ DOMAIN calls = Calls
  BY <1>1, BatchSteps
<1>3. /\ r.op = "add" /\ r.phase = "hashing" /\ calls' = [calls EXCEPT ![c] = u] /\ cachedRoot' = None
      /\ commitments' = Append(commitments, Sessions[c])
  BY <1>1, <1>2 DEF Push, CacheAfterPush
<1>4. PICK t : t = commitments'
  OBVIOUS
<1>5. Extended(commitments, t) /\ IsASequence(t)
  BY <1>3, <1>4, PushGrows DEF BatchInv
<1>6. IsBatchCall(u) /\ u.op = "add" /\ u.phase = "done" /\ u.began = r.began /\ u.root = r.root
  BY <1>1, <1>2, <1>3 DEF IsBatchCall
<1>7. r.root = None /\ r.began \in 0 .. Len(commitments)
  BY <1>2, <1>3 DEF Accounts
<1>8. u.began \in 0 .. Len(t)
  BY <1>5, <1>6, <1>7 DEF Extended
<1>9. ReadSome(u, t) /\ Accounts(u, t, calls') /\ Settled(r, u)
  BY <1>3, <1>6, <1>7, <1>8 DEF ReadSome, Accounts, Settled, IsRootCall
<1>10. CallsOK(calls', commitments')
  BY <1>1, <1>3, <1>4, <1>5, <1>6, <1>9, CallMoves DEF BatchInv
<1>11. Cached(cachedRoot', commitments', calls')
  BY <1>3 DEF Cached
<1>. QED
  BY <1>4, <1>5, <1>10, <1>11 DEF BatchInv

LEMMA CacheKeeps ==
    ASSUME BatchInv, NEW c \in Calls, CacheRoot(c)
    PROVE  BatchInv'
<1>1. PICK r, root, u : /\ r = calls[c] /\ root = MerkleRoot(r.leaves)
                        /\ u = [r EXCEPT !.phase = "rooted", !.root = root, !.ended = Len(commitments)]
  OBVIOUS
<1>2. /\ IsBatchCall(r) /\ ReadSome(r, commitments) /\ Accounts(r, commitments, calls)
      /\ Len(commitments) \in Nat /\ DOMAIN calls = Calls
  BY <1>1, BatchSteps
<1>3. /\ IsRootCall(r) /\ r.phase = "hashing" /\ calls' = [calls EXCEPT ![c] = u] /\ cachedRoot' = root
      /\ commitments' = commitments
  BY <1>1, <1>2 DEF CacheRoot, IsRootCall
<1>4. PICK n : n = Len(r.leaves)
  OBVIOUS
<1>5. n \in 1 .. Len(commitments) /\ r.leaves = SubSeq(commitments, 1, n) /\ r.began = n
  BY <1>2, <1>3, <1>4 DEF ReadSome
<1>6. /\ IsBatchCall(u) /\ u.op = r.op /\ u.phase = "rooted" /\ u.began = n /\ u.root = root
      /\ u.leaves = r.leaves /\ u.ended = Len(commitments) /\ u.count = None /\ r.ended = None
  BY <1>1, <1>2, <1>3, <1>5 DEF IsBatchCall, Accounts
<1>7. PICK D : D = calls'
  OBVIOUS
<1>8. D[c] = u /\ c \in DOMAIN D
  BY <1>2, <1>3, <1>7
<1>9. Covers(root, n, n, commitments, D)
  BY <1>1, <1>5 DEF Covers
<1>10. Covers(root, n, Len(commitments), commitments, D)
  <2>1. CASE n = Len(commitments)
    BY <1>9, <2>1
  <2>2. CASE n < Len(commitments)
    <3>1. u.ended # None
      BY <1>2, <1>6, BatchAssumption
    <3>2. Overtaken(n, D)
      BY <1>3, <1>4, <1>6, <1>8, <2>2, <3>1 DEF Overtaken, IsRootCall
    <3>. QED
      BY <1>9, <3>2 DEF Covers
  <2>. QED
    BY <1>2, <1>5, <2>1, <2>2
<1>11. Extended(commitments, commitments)
  BY <1>2 DEF Extended
<1>12. ReadSome(u, commitments) /\ Settled(r, u)
  BY <1>4, <1>5, <1>6 DEF ReadSome, Settled
<1>13. Accounts(u, commitments, D)
  <2>1. n \in 0 .. Len(commitments) /\ n # 0
    BY <1>2, <1>5
  <2>. QED
    BY <1>3, <1>6, <1>9, <2>1 DEF Accounts, IsRootCall
<1>14. CallsOK(calls', commitments')
  BY <1>1, <1>3, <1>6, <1>7, <1>11, <1>12, <1>13, CallMoves DEF BatchInv
<1>15. Cached(root, commitments, D)
  BY <1>5, <1>10 DEF Cached
<1>. QED
  BY <1>3, <1>7, <1>14, <1>15 DEF BatchInv

LEMMA BatchInvHolds == Spec => []BatchInv
<1>1. Init => BatchInv
  <2>. SUFFICES ASSUME Init PROVE BatchInv
    OBVIOUS
  <2>1. \A c \in Calls : calls[c] = Idle
    BY DEF Init
  <2>2. IsBatchCall(Idle) /\ ReadSome(Idle, <<>>) /\ Accounts(Idle, <<>>, calls)
    <3>1. PICK r : r = Idle
      OBVIOUS
    <3>2. /\ IsBatchCall(r) /\ r.phase = "idle" /\ r.began = 0 /\ r.ended = None /\ r.root = None /\ r.count = None
      BY <3>1 DEF Idle, IsBatchCall
    <3>. QED
      BY <3>1, <3>2 DEF ReadSome, Accounts
  <2>. QED
    BY <2>1, <2>2 DEF Init, BatchInv, IsASequence, CallsOK, Cached
<1>2. BatchInv /\ [Next]_vars => BatchInv'
  <2>. SUFFICES ASSUME BatchInv, [Next]_vars PROVE BatchInv'
    OBVIOUS
  <2>1. CASE UNCHANGED vars
    BY <2>1 DEF vars, BatchInv
  <2>2. ASSUME NEW c \in Calls,
               \/ \E verified \in BOOLEAN : Add(c, verified)
               \/ Push(c)
               \/ \E op \in {"root", "post"} : AskRoot(c, op)
               \/ CacheRoot(c) \/ Send(c) \/ Confirm(c)
        PROVE  BatchInv'
    BY <2>2, AddKeeps, PushKeeps, AskKeeps, CacheKeeps, SendKeeps
  <2>. QED
    BY <2>1, <2>2 DEF Next
<1>. QED
  BY <1>1, <1>2, PTL DEF Spec

\* However adds and computations of the root overlap: a root that is answered or
\* posted is of an initial part of the sessions, none beyond the count posted with
\* it, and lacks one that was there when it was asked for only if an add overtook
\* the computation that cached it (offchain.ts).
THEOREM RootsAreOfTheBatch == Spec => []RootStaleOnlyIfOvertaken
<1>1. BatchInv => RootStaleOnlyIfOvertaken
  <2>. SUFFICES ASSUME BatchInv, NEW c \in Calls, calls[c].root # None
                PROVE  \E n \in 0 .. Len(commitments) :
                          /\ calls[c].root = RootOf(n)
                          /\ calls[c].count # None => n \in 1 .. calls[c].count
                          /\ n >= calls[c].began \/ CachedOvertaken(n)
    BY DEF RootStaleOnlyIfOvertaken
  <2>1. PICK r : r = calls[c]
    OBVIOUS
  <2>2. Accounts(r, commitments, calls) /\ DOMAIN calls = Calls
    BY <2>1, BatchSteps
  <2>3. PICK n \in 0 .. Len(commitments) :
              /\ Covers(r.root, n, r.began, commitments, calls)
              /\ r.op = "post" => n # 0
              /\ r.count # None => r.op = "post" /\ r.count \in Nat /\ n <= r.count
    BY <2>1, <2>2 DEF Accounts
  <2>4. r.root = RootOf(n) /\ (n >= r.began \/ Overtaken(n, calls))
    BY <2>3 DEF Covers, RootOf
  <2>5. Overtaken(n, calls) => CachedOvertaken(n)
    BY <2>2 DEF Overtaken, CachedOvertaken, IsRootCall
  <2>. QED
    BY <2>1, <2>3, <2>4, <2>5
<1>. QED
  BY <1>1, BatchInvHolds, PTL

\* An add took as its index the number of sessions there were, and when it is done
\* it has pushed its own after them.
IndexOK(r, sessions) ==
    r.op = "add" =>
        /\ r.phase \in {"hashing", "done"} => r.batchIndex = r.began
        /\ r.phase = "done" => r.ended \in Nat /\ r.began < r.ended /\ r.ended <= Len(sessions)

\* The p-th session was pushed by an add that was made before it.
PushedBy(d, p, sessions, C) ==
    /\ C[d].op = "add" /\ C[d].phase = "done" /\ C[d].ended = p /\ C[d].began < p
    /\ sessions[p] = Sessions[d]

IndexInv ==
    /\ \A c \in Calls : IndexOK(calls[c], commitments)
    /\ \A p \in 1 .. Len(commitments) : \E d \in Calls : PushedBy(d, p, commitments, calls)

\* A call that has pushed nothing moves on, and pushes nothing.
Unpushed(r, u) ==
    /\ r.op = "add" => r.phase # "done"
    /\ u.op = "add" => u.phase # "done" /\ (u.phase = "hashing" => u.batchIndex = u.began)

LEMMA IndicesStay ==
    ASSUME BatchInv, IndexInv, NEW c \in Calls, NEW u, Unpushed(calls[c], u),
           calls' = [calls EXCEPT ![c] = u], commitments' = commitments
    PROVE  IndexInv'
<1>1. DOMAIN calls = Calls
  BY DEF BatchInv, CallsOK
<1>2. calls'[c] = u /\ \A d \in Calls \ {c} : calls'[d] = calls[d]
  BY <1>1
<1>3. ASSUME NEW d \in Calls PROVE IndexOK(calls'[d], commitments')
  BY <1>2 DEF IndexInv, IndexOK, Unpushed
<1>4. ASSUME NEW p \in 1 .. Len(commitments')
      PROVE  \E d \in Calls : PushedBy(d, p, commitments', calls')
  <2>1. PICK d \in Calls : PushedBy(d, p, commitments, calls)
    BY DEF IndexInv
  <2>2. d # c
    BY <2>1 DEF PushedBy, Unpushed
  <2>3. PushedBy(d, p, commitments', calls')
    BY <1>2, <2>1, <2>2 DEF PushedBy
  <2>. QED
    BY <2>3
<1>. QED
  BY <1>3, <1>4 DEF IndexInv

LEMMA IndexSteps ==
    ASSUME BatchInv, IndexInv, NEW c \in Calls,
           \/ \E verified \in BOOLEAN : Add(c, verified)
           \/ \E op \in {"root", "post"} : AskRoot(c, op)
           \/ CacheRoot(c) \/ Send(c) \/ Confirm(c)
    PROVE  IndexInv'
<1>1. PICK r : r = calls[c]
  OBVIOUS
<1>2. IsBatchCall(r) /\ Accounts(r, commitments, calls) /\ DOMAIN calls = Calls
  BY <1>1, BatchSteps
<1>3. ASSUME NEW verified \in BOOLEAN, Add(c, verified)
      PROVE  IndexInv'
  <2>1. PICK u : u = IF verified THEN [r EXCEPT !.op = "add", !.phase = "hashing",
                            !.began = Len(commitments), !.batchIndex = Len(commitments)]
                     ELSE [r EXCEPT !.op = "add", !.phase = "thrown"]
    OBVIOUS
  <2>2. r.phase = "idle" /\ calls' = [calls EXCEPT ![c] = u] /\ commitments' = commitments
    BY <1>1, <1>2, <1>3, <2>1 DEF Add, Made
  <2>3. Unpushed(r, u)
    BY <1>2, <2>1, <2>2 DEF IsBatchCall, Unpushed
  <2>. QED
    BY <1>1, <2>2, <2>3, IndicesStay
<1>4. ASSUME NEW op \in {"root", "post"}, AskRoot(c, op)
      PROVE  IndexInv'
  <2>1. PICK asked : asked = [r EXCEPT !.op = op, !.began = Len(commitments)]
    OBVIOUS
  <2>2. PICK u \in {[asked EXCEPT !.phase = "thrown"], [asked EXCEPT !.phase = "rooted", !.root = Zero],
                  [asked EXCEPT !.phase = "rooted", !.root = cachedRoot],
                  [asked EXCEPT !.phase = "hashing", !.leaves = commitments]} :
           calls' = [calls EXCEPT ![c] = u]
    BY <1>1, <1>4, <2>1 DEF AskRoot
  <2>3. r.phase = "idle" /\ commitments' = commitments
    BY <1>1, <1>4 DEF AskRoot, Made
  <2>4. asked.op = op /\ IsBatchCall(asked)
    BY <1>2, <2>1 DEF IsBatchCall
  <2>5. u.op = op
    BY <2>2, <2>4 DEF IsBatchCall
  <2>. QED
    BY <1>1, <2>2, <2>3, <2>5, IndicesStay DEF Unpushed
<1>5. ASSUME CacheRoot(c) \/ Send(c) \/ Confirm(c)
      PROVE  IndexInv'
  <2>1. r.op \in {"root", "post"}
    BY <1>1, <1>2, <1>5 DEF CacheRoot, Send, Confirm, Accounts
  <2>2. commitments' = commitments
    BY <1>5 DEF CacheRoot, Send, Confirm
  <2>3. PICK u \in {[r EXCEPT !.phase = "rooted", !.root = MerkleRoot(r.leaves), !.ended = Len(commitments)],
                    [r EXCEPT !.phase = "mining", !.count = Len(commitments)],
                    [r EXCEPT !.phase = "done", !.count = Len(commitments)], [r EXCEPT !.phase = "thrown"]} :
          calls' = [calls EXCEPT ![c] = u]
    BY <1>1, <1>2, <1>5 DEF CacheRoot, Send, Confirm
  <2>4. u.op = r.op
    BY <1>2, <2>3 DEF IsBatchCall
  <2>. QED
    BY <1>1, <2>1, <2>2, <2>3, <2>4, IndicesStay DEF Unpushed
<1>. QED
  BY <1>3, <1>4, <1>5

LEMMA IndexPush ==
    ASSUME BatchInv, IndexInv, NEW c \in Calls, Push(c)
    PROVE  IndexInv'
<1>1. PICK r, u, n : r = calls[c] /\ u = [r EXCEPT !.phase = "done", !.ended = Len(commitments) + 1] /\ n = Len(commitments)
  OBVIOUS
<1>2. IsBatchCall(r) /\ Accounts(r, commitments, calls) /\ DOMAIN calls = Calls /\ n \in Nat
  BY <1>1, BatchSteps
<1>3. /\ r.op = "add" /\ r.phase = "hashing" /\ calls' = [calls EXCEPT ![c] = u]
      /\ commitments' = Append(commitments, Sessions[c])
  BY <1>1, <1>2 DEF Push
<1>4. calls'[c] = u /\ \A d \in Calls \ {c} : calls'[d] = calls[d]
  BY <1>2, <1>3
<1>5. u.op = "add" /\ u.phase = "done" /\ u.ended = n + 1 /\ u.began = r.began /\ u.batchIndex = r.batchIndex
  BY <1>1, <1>2, <1>3 DEF IsBatchCall
<1>6. PICK s : s = commitments'
  OBVIOUS
<1>7. Len(s) = n + 1 /\ s[n + 1] = Sessions[c] /\ \A i \in 1 .. n : s[i] = commitments[i]
  <2>1. PICK S : S = {commitments[i] : i \in DOMAIN commitments} \cup {Sessions[c]}
    OBVIOUS
  <2>2. commitments \in Seq({commitments[i] : i \in DOMAIN commitments})
    BY DEF BatchInv, IsASequence
  <2>3. commitments \in Seq(S) /\ Sessions[c] \in S
    BY <2>1, <2>2
  <2>. QED
    BY <1>1, <1>3, <1>6, <2>3, AppendProperties
<1>8. r.batchIndex = r.began /\ r.began \in 0 .. n
  BY <1>1, <1>2, <1>3 DEF IndexInv, IndexOK, Accounts
<1>9. ASSUME NEW d \in Calls PROVE IndexOK(calls'[d], s)
  <2>1. CASE d = c
    BY <1>2, <1>4, <1>5, <1>7, <1>8, <2>1 DEF IndexOK
  <2>2. CASE d # c
    BY <1>1, <1>2, <1>4, <1>7, <2>2 DEF IndexInv, IndexOK
  <2>. QED
    BY <2>1, <2>2
<1>10. ASSUME NEW p \in 1 .. Len(s) PROVE \E d \in Calls : PushedBy(d, p, s, calls')
  <2>1. CASE p = n + 1
    <3>1. PushedBy(c, p, s, calls')
      BY <1>2, <1>4, <1>5, <1>7, <1>8, <2>1 DEF PushedBy
    <3>. QED
      BY <3>1
  <2>2. CASE p \in 1 .. n
    <3>1. PICK d \in Calls : PushedBy(d, p, commitments, calls)
      BY <1>1, <2>2 DEF IndexInv
    <3>2. d # c
      BY <1>1, <1>3, <3>1 DEF PushedBy
    <3>3. PushedBy(d, p, s, calls')
      BY <1>4, <1>7, <2>2, <3>1, <3>2 DEF PushedBy
    <3>. QED
      BY <3>3
  <2>. QED
    BY <1>2, <1>7, <2>1, <2>2
<1>. QED
  BY <1>6, <1>9, <1>10 DEF IndexInv

LEMMA IndexInvHolds == Spec => [](BatchInv /\ IndexInv)
<1>1. Init => IndexInv
  <2>. SUFFICES ASSUME Init PROVE IndexInv
    OBVIOUS
  <2>1. \A c \in Calls : calls[c].op = None /\ calls[c].phase = "idle"
    BY DEF Init, Idle
  <2>2. Len(commitments) = 0
    BY DEF Init
  <2>. QED
    BY <2>1, <2>2 DEF IndexInv, IndexOK
<1>2. BatchInv /\ IndexInv /\ [Next]_vars => IndexInv'
  <2>. SUFFICES ASSUME BatchInv, IndexInv, [Next]_vars PROVE IndexInv'
    OBVIOUS
  <2>1. CASE UNCHANGED vars
    BY <2>1 DEF vars, IndexInv, IndexOK, PushedBy
  <2>2. ASSUME NEW c \in Calls,
               \/ \E verified \in BOOLEAN : Add(c, verified)
               \/ Push(c)
               \/ \E op \in {"root", "post"} : AskRoot(c, op)
               \/ CacheRoot(c) \/ Send(c) \/ Confirm(c)
        PROVE  IndexInv'
    BY <2>2, IndexSteps, IndexPush
  <2>. QED
    BY <2>1, <2>2 DEF Next
<1>. QED
  BY <1>1, <1>2, BatchInvHolds, PTL DEF Spec

\* The batchIndex an add returned proves one session of the batch and no other, and
\* it is the session of the add itself or of one that overlapped it.
LEMMA IndexProves == BatchInv /\ IndexInv => IndexProvesSession
<1>. SUFFICES ASSUME BatchInv, IndexInv, NEW c \in Calls, calls[c].op = "add", calls[c].phase = "done",
                     NEW index, index = calls[c].batchIndex
              PROVE  \E d \in Calls :
                        /\ Sessions[d] \in ToSet(commitments)
                        /\ \A other \in ToSet(commitments) :
                              Includes(other, MerkleProof(commitments, index), MerkleRoot(commitments))
                                 <=> other = Sessions[d]
                        /\ d = c \/ Overlap(c, d)
  BY Zenon DEF IndexProvesSession
<1>1. PICK n : n = Len(commitments)
  OBVIOUS
<1>2. n \in Nat /\ DOMAIN commitments = 1 .. n /\ Accounts(calls[c], commitments, calls)
  <2>1. commitments \in Seq({commitments[i] : i \in DOMAIN commitments})
    BY DEF BatchInv, IsASequence
  <2>2. Accounts(calls[c], commitments, calls)
    BY BatchSteps
  <2>. QED
    BY <1>1, <2>1, <2>2, LenProperties
<1>3. /\ index = calls[c].began /\ index \in Nat /\ index + 1 \in 1 .. n /\ index \in 0 .. n - 1
      /\ calls[c].ended \in Nat /\ index < calls[c].ended
  BY <1>1, <1>2 DEF IndexInv, IndexOK, Accounts
<1>4. PICK d \in Calls : PushedBy(d, index + 1, commitments, calls)
  BY <1>1, <1>3 DEF IndexInv
<1>5. commitments[index + 1] = Sessions[d] /\ Sessions[d] \in ToSet(commitments)
  BY <1>2, <1>3, <1>4 DEF PushedBy, ToSet
<1>6. \A other : Includes(other, MerkleProof(commitments, index), MerkleRoot(commitments))
                    <=> other = Sessions[d]
  BY <1>1, <1>2, <1>3, <1>5, ProofIncludes
<1>7. Overlap(c, d)
  <2>1. Accounts(calls[d], commitments, calls)
    BY BatchSteps
  <2>. QED
    BY <1>2, <1>3, <1>4, <2>1 DEF PushedBy, Overlap, Accounts
<1>. QED
  BY <1>5, <1>6, <1>7

\* What callers are told of the batch stays true of its sessions, however adds and
\* computations of the root overlap and however many sessions there are: the index
\* of an add proves its own session, or that of an add it overlapped, and no other;
\* a root covers every session there was when it was asked for, unless an add
\* overtook the computation that cached it (offchain.ts).
THEOREM AnswersStayTrue == Spec => []AnswersAccounted
BY IndexInvHolds, IndexProves, RootsAreOfTheBatch, PTL DEF AnswersAccounted

-----------------------------------------------------------------------------
(* The health probe.                                                       *)

Results == {"running", "ok", "unavailable", "timeout"}
IsProbe(p) == p = [at |-> p.at, result |-> p.result, failures |-> p.failures]
IsCaller(c) == c = [asked |-> c.asked, probe |-> c.probe, joined |-> c.joined, told |-> c.told]

\* Probes are launched one after another, and what one remembers of the earlier
\* ones stays so, for a probe that failed has settled.
ProbesOK ==
    /\ probes \in Seq({probes[p] : p \in DOMAIN probes})
    /\ \A p \in DOMAIN probes :
          /\ IsProbe(probes[p]) /\ probes[p].result \in Results
          /\ probes[p].at \in Nat /\ probes[p].at <= instant
          /\ \A f \in probes[p].failures : f \in DOMAIN probes /\ Failed(probes[f].result)
    /\ \A p, q \in DOMAIN probes : p < q => probes[p].at <= probes[q].at

\* What is cached is the newest probe, unless it has failed.
CacheOK ==
    /\ cached \in {0, Len(probes)}
    /\ IF cached = 0 THEN Len(probes) = 0 \/ Failed(probes[Len(probes)].result)
       ELSE ~Failed(probes[cached].result)

\* What a caller awaits or was told is what its probe came to.
CallerOK(c, P) ==
    /\ IsCaller(c) /\ c.probe \in DOMAIN P
    /\ c.told = IF P[c.probe].result = "running" THEN "none" ELSE P[c.probe].result
    /\ c.joined = "running" \/ (c.told # "none" /\ ~Failed(c.told))
    /\ c.asked - P[c.probe].at < HEALTH_PROBE_TTL

HealthInv ==
    /\ instant \in Nat /\ ProbesOK /\ CacheOK /\ SingleFlight
    /\ callers \in Seq({callers[c] : c \in DOMAIN callers}) /\ \A c \in DOMAIN callers : CallerOK(callers[c], probes)

\* A probe that is launched finds every earlier one failed or a TTL old: what is
\* not cached any more has failed, and what was cached was not reusable.
LEMMA LaunchedAlone ==
    ASSUME HealthInv, ~Reusable, NEW p \in DOMAIN probes, instant - probes[p].at < HEALTH_PROBE_TTL
    PROVE  Failed(probes[p].result)
<1>1. PICK n : n = Len(probes)
  OBVIOUS
<1>2. n \in Nat /\ DOMAIN probes = 1 .. n /\ p \in 1 .. n
  BY <1>1, LenProperties DEF HealthInv, ProbesOK
<1>3. /\ probes[p].at \in Nat /\ probes[n].at \in Nat /\ probes[p].at <= instant /\ probes[n].at <= instant
      /\ p < n => probes[p].at <= probes[n].at
      /\ instant \in Nat
  BY <1>2, SMTT(60) DEF HealthInv, ProbesOK
<1>4. CASE cached = 0
  <2>1. Failed(probes[n].result)
    BY <1>1, <1>2, <1>4 DEF HealthInv, CacheOK
  <2>2. CASE p = n
    BY <2>1, <2>2
  <2>3. CASE p < n
    <3>1. probes[n].at - probes[p].at < HEALTH_PROBE_TTL
      BY <1>3, <2>3, ProbeAssumption
    <3>2. p \in probes[n].failures
      BY <1>2, <2>3, <3>1 DEF HealthInv, SingleFlight
    <3>. QED
      BY <1>2, <3>2 DEF HealthInv, ProbesOK
  <2>. QED
    BY <1>2, <2>2, <2>3
<1>5. CASE cached # 0
  <2>1. cached = n /\ ~(instant - probes[n].at < HEALTH_PROBE_TTL)
    BY <1>1, <1>5 DEF HealthInv, CacheOK, Reusable
  <2>. QED
    BY <1>2, <1>3, <2>1, ProbeAssumption
<1>. QED
  BY <1>4, <1>5

\* A caller's answer does not change when a probe is added.
LEMMA AskedKeeps ==
    ASSUME HealthInv, CachedProbeRegistry
    PROVE  HealthInv'
<1>1. PICK n, m : n = Len(probes) /\ m = Len(callers)
  OBVIOUS
<1>2. /\ n \in Nat /\ DOMAIN probes = 1 .. n /\ m \in Nat /\ DOMAIN callers = 1 .. m
      /\ instant \in Nat /\ instant' = instant
  BY <1>1, LenProperties DEF HealthInv, ProbesOK, CachedProbeRegistry
<1>3. CASE Reusable
  <2>1. PICK c : /\ c = [asked |-> instant, probe |-> cached, joined |-> probes[cached].result,
                         told |-> IF probes[cached].result = "running" THEN "none" ELSE probes[cached].result]
                 /\ callers' = Append(callers, c)
    BY <1>3 DEF CachedProbeRegistry
  <2>2. UNCHANGED <<probes, cached, instant>>
    BY <1>3 DEF CachedProbeRegistry
  <2>3. cached \in DOMAIN probes /\ ~Failed(probes[cached].result) /\ instant - probes[cached].at < HEALTH_PROBE_TTL
    BY <1>1, <1>2, <1>3 DEF HealthInv, CacheOK, Reusable
  <2>4. probes[cached].result \in Results
    BY <2>3 DEF HealthInv, ProbesOK
  <2>5. CallerOK(c, probes)
    BY <2>1, <2>3, <2>4 DEF CallerOK, IsCaller, Results
  <2>6. PICK U : U = {callers[i] : i \in DOMAIN callers} \cup {c}
    OBVIOUS
  <2>7. callers \in Seq(U) /\ c \in U
    BY <1>2, <2>6, LenProperties DEF HealthInv
  <2>8. /\ callers' \in Seq(U) /\ Len(callers') = m + 1 /\ callers'[m + 1] = c
        /\ \A i \in 1 .. m : callers'[i] = callers[i]
    BY <1>1, <2>1, <2>7, AppendProperties
  <2>9. DOMAIN callers' = 1 .. m + 1
    BY <2>8, LenProperties
  <2>10. callers' \in Seq({callers'[i] : i \in DOMAIN callers'})
    BY <2>8, <2>9
  <2>11. \A i \in DOMAIN callers' : CallerOK(callers'[i], probes)
    BY <1>2, <2>5, <2>8, <2>9 DEF HealthInv
  <2>12. \A i \in DOMAIN callers' : CallerOK(callers'[i], probes')
    BY <2>2, <2>11 DEF CallerOK
  <2>. QED
    BY <2>2, <2>10, <2>12 DEF HealthInv, ProbesOK, CacheOK, SingleFlight
<1>4. CASE ~Reusable
  <2>1. PICK c, q : /\ q = Launched
                    /\ c = [asked |-> instant, probe |-> n + 1, joined |-> "running", told |-> "none"]
    OBVIOUS
  <2>2. callers' = Append(callers, c) /\ probes' = Append(probes, q) /\ cached' = n + 1
    BY <1>1, <1>4, <2>1 DEF CachedProbeRegistry
  <2>3. PICK U, V : U = {callers[i] : i \in DOMAIN callers} \cup {c} /\ V = {probes[i] : i \in DOMAIN probes} \cup {q}
    OBVIOUS
  <2>4. callers \in Seq(U) /\ c \in U /\ probes \in Seq(V) /\ q \in V
    BY <1>2, <2>3, LenProperties DEF HealthInv, ProbesOK
  <2>5. /\ callers' \in Seq(U) /\ Len(callers') = m + 1 /\ callers'[m + 1] = c
        /\ \A i \in 1 .. m : callers'[i] = callers[i]
    BY <1>1, <2>2, <2>4, AppendProperties
  <2>6. /\ probes' \in Seq(V) /\ Len(probes') = n + 1 /\ probes'[n + 1] = q
        /\ \A i \in 1 .. n : probes'[i] = probes[i]
    BY <1>1, <2>2, <2>4, AppendProperties
  <2>7. DOMAIN callers' = 1 .. m + 1 /\ DOMAIN probes' = 1 .. n + 1
    BY <2>5, <2>6, LenProperties
  <2>8. callers' \in Seq({callers'[i] : i \in DOMAIN callers'}) /\ probes' \in Seq({probes'[i] : i \in DOMAIN probes'})
    BY <2>5, <2>6, <2>7
  <2>9. q = [at |-> instant, result |-> "running", failures |-> {p \in 1 .. n : Failed(probes[p].result)}]
    BY <1>2, <2>1 DEF Launched
  <2>10. /\ IsProbe(q) /\ q.at = instant /\ q.result = "running"
         /\ q.failures = {p \in 1 .. n : Failed(probes[p].result)}
    BY <2>9 DEF IsProbe
  <2>11. ProbesOK'
    <3>1. ASSUME NEW p \in 1 .. n + 1
          PROVE  /\ IsProbe(probes'[p]) /\ probes'[p].result \in Results
                 /\ probes'[p].at \in Nat /\ probes'[p].at <= instant
                 /\ \A f \in probes'[p].failures : f \in 1 .. n + 1 /\ Failed(probes'[f].result)
      <4>1. CASE p = n + 1
        BY <1>2, <2>6, <2>10, <4>1 DEF Results
      <4>2. CASE p \in 1 .. n
        BY <1>2, <2>6, <4>2 DEF HealthInv, ProbesOK
      <4>. QED
        BY <1>2, <4>1, <4>2
    <3>2. ASSUME NEW p \in 1 .. n + 1, NEW r \in 1 .. n + 1, p < r PROVE probes'[p].at <= probes'[r].at
      <4>1. CASE r = n + 1
        BY <1>2, <2>6, <2>10, <3>1, <3>2, <4>1
      <4>2. CASE r \in 1 .. n
        <5>1. p \in 1 .. n /\ probes'[p] = probes[p] /\ probes'[r] = probes[r]
          BY <1>2, <2>6, <3>2, <4>2
        <5>2. probes[p].at <= probes[r].at
          BY <1>2, <3>2, <4>2, <5>1 DEF HealthInv, ProbesOK
        <5>. QED
          BY <5>1, <5>2
      <4>. QED
        BY <1>2, <4>1, <4>2
    <3>. QED
      BY <1>2, <2>7, <2>8, <3>1, <3>2 DEF ProbesOK, IsProbe
  <2>12. SingleFlight'
    <3>. SUFFICES ASSUME NEW p \in 1 .. n + 1, NEW r \in 1 .. n + 1, p < r,
                         probes'[r].at - probes'[p].at < HEALTH_PROBE_TTL
                  PROVE  p \in probes'[r].failures
      BY <2>7 DEF SingleFlight
    <3>1. CASE r = n + 1
      <4>1. p \in 1 .. n /\ probes'[p] = probes[p]
        BY <1>2, <2>6, <3>1
      <4>2. instant - probes[p].at < HEALTH_PROBE_TTL
        BY <2>6, <2>10, <3>1, <4>1
      <4>3. Failed(probes[p].result)
        BY <1>2, <1>4, <4>1, <4>2, LaunchedAlone
      <4>. QED
        BY <2>6, <2>10, <3>1, <4>1, <4>3
    <3>2. CASE r \in 1 .. n
      <4>1. p \in 1 .. n /\ probes'[p] = probes[p] /\ probes'[r] = probes[r]
        BY <1>2, <2>6, <3>2
      <4>2. probes[r].at - probes[p].at < HEALTH_PROBE_TTL
        BY <4>1
      <4>. QED
        BY <1>2, <3>2, <4>1, <4>2 DEF HealthInv, SingleFlight
    <3>. QED
      BY <1>2, <3>1, <3>2
  <2>13. CacheOK'
    BY <1>2, <2>2, <2>6, <2>10 DEF CacheOK, Failed
  <2>14. ASSUME NEW i \in DOMAIN callers' PROVE CallerOK(callers'[i], probes')
    <3>1. CASE i = m + 1
      <4>1. callers'[i] = c /\ n + 1 \in DOMAIN probes' /\ probes'[n + 1].result = "running" /\ probes'[n + 1].at = instant
        BY <1>2, <2>5, <2>6, <2>7, <2>10, <3>1
      <4>2. instant - instant < HEALTH_PROBE_TTL
        BY <1>2, ProbeAssumption
      <4>. QED
        BY <2>1, <4>1, <4>2 DEF CallerOK, IsCaller
    <3>2. CASE i \in 1 .. m
      <4>1. callers'[i] = callers[i] /\ CallerOK(callers[i], probes)
        BY <1>2, <2>5, <3>2 DEF HealthInv
      <4>2. PICK x : x = callers[i]
        OBVIOUS
      <4>3. x.probe \in 1 .. n /\ x.probe \in DOMAIN probes' /\ probes'[x.probe] = probes[x.probe]
        BY <1>2, <2>6, <2>7, <4>1, <4>2 DEF CallerOK
      <4>4. CallerOK(x, probes)
        BY <4>1, <4>2
      <4>. QED
        BY <4>1, <4>2, <4>3, <4>4 DEF CallerOK, IsCaller
    <3>. QED
      BY <1>2, <2>7, <2>14, <3>1, <3>2
  <2>. QED
    BY <1>2, <2>8, <2>11, <2>12, <2>13, <2>14 DEF HealthInv
<1>. QED
  BY <1>3, <1>4

\* A settlement tells everyone who awaits the probe and evicts it alone.
LEMMA SettleKeeps ==
    ASSUME HealthInv, NEW p \in DOMAIN probes, NEW result \in {"ok", "unavailable", "timeout"}, Settle(p, result)
    PROVE  HealthInv'
<1>1. PICK n, m : n = Len(probes) /\ m = Len(callers)
  OBVIOUS
<1>2. /\ n \in Nat /\ DOMAIN probes = 1 .. n /\ m \in Nat /\ DOMAIN callers = 1 .. m
      /\ instant \in Nat /\ instant' = instant
  BY <1>1, LenProperties DEF HealthInv, ProbesOK, Settle
<1>3. PICK q : q = [probes[p] EXCEPT !.result = result]
  OBVIOUS
<1>4. /\ probes' = [probes EXCEPT ![p] = q] /\ IsProbe(probes[p]) /\ probes[p].result = "running"
      /\ cached' = AfterSettling(p, result)
      /\ callers' = [c \in DOMAIN callers |-> IF callers[c].probe = p /\ callers[c].told = "none"
                                     THEN [callers[c] EXCEPT !.told = result] ELSE callers[c]]
  BY <1>3 DEF Settle, HealthInv, ProbesOK
<1>5. IsProbe(q) /\ q.at = probes[p].at /\ q.result = result /\ q.failures = probes[p].failures
  BY <1>3, <1>4 DEF IsProbe
<1>6. PICK V : V = {probes[i] : i \in DOMAIN probes} \cup {q}
  OBVIOUS
<1>7. probes \in Seq(V) /\ q \in V /\ p \in 1 .. Len(probes)
  BY <1>1, <1>2, <1>6, LenProperties DEF HealthInv, ProbesOK
<1>8. /\ probes' \in Seq(V) /\ Len(probes') = n
      /\ \A i \in 1 .. n : probes'[i] = IF i = p THEN q ELSE probes[i]
  BY <1>1, <1>4, <1>7, ExceptSeq
<1>9. DOMAIN probes' = 1 .. n /\ DOMAIN callers' = 1 .. m
  BY <1>2, <1>4, <1>8, LenProperties
<1>10. \A i \in 1 .. n : /\ probes'[i].at = probes[i].at /\ probes'[i].failures = probes[i].failures
                         /\ i # p => probes'[i] = probes[i]
                         /\ Failed(probes[i].result) => Failed(probes'[i].result)
  BY <1>4, <1>5, <1>8 DEF Failed
<1>11. ProbesOK'
  <2>1. probes' \in Seq({probes'[i] : i \in DOMAIN probes'})
    BY <1>8, <1>9
  <2>2. ASSUME NEW i \in 1 .. n
        PROVE  /\ IsProbe(probes'[i]) /\ probes'[i].result \in Results
               /\ probes'[i].at \in Nat /\ probes'[i].at <= instant
               /\ \A f \in probes'[i].failures : f \in 1 .. n /\ Failed(probes'[f].result)
    <3>1. IsProbe(probes'[i]) /\ probes'[i].result \in Results
      BY <1>2, <1>5, <1>8 DEF HealthInv, ProbesOK, Results
    <3>2. /\ probes[i].at \in Nat /\ probes[i].at <= instant
          /\ \A f \in probes[i].failures : f \in 1 .. n /\ Failed(probes[f].result)
      BY <1>2 DEF HealthInv, ProbesOK
    <3>. QED
      BY <1>10, <3>1, <3>2
  <2>3. \A i, j \in 1 .. n : i < j => probes'[i].at <= probes'[j].at
    BY <1>2, <1>10 DEF HealthInv, ProbesOK
  <2>. QED
    BY <1>2, <1>9, <2>1, <2>2, <2>3 DEF ProbesOK, IsProbe
<1>12. SingleFlight'
  BY <1>2, <1>9, <1>10 DEF HealthInv, SingleFlight
<1>13. CacheOK'
  <2>1. cached' = IF Failed(result) /\ cached = p THEN 0 ELSE cached
    BY <1>4 DEF AfterSettling
  <2>2. cached \in {0, n} /\ (IF cached = 0 THEN n = 0 \/ Failed(probes[n].result) ELSE ~Failed(probes[cached].result))
    BY <1>1 DEF HealthInv, CacheOK
  <2>3. CASE cached = 0
    <3>1. Failed(probes'[n].result)
      BY <1>2, <1>10, <2>2, <2>3
    <3>. QED
      BY <1>8, <2>1, <2>3, <3>1 DEF CacheOK
  <2>4. CASE cached = n /\ n # 0 /\ p # n
    <3>1. probes'[n] = probes[n] /\ cached' = n
      BY <1>2, <1>10, <2>1, <2>4
    <3>. QED
      BY <1>8, <2>2, <2>4, <3>1 DEF CacheOK
  <2>5. CASE cached = n /\ n # 0 /\ p = n
    <3>1. probes'[n].result = result
      BY <1>2, <1>5, <1>8, <2>5
    <3>. QED
      BY <1>8, <2>1, <2>5, <3>1 DEF CacheOK
  <2>. QED
    BY <2>2, <2>3, <2>4, <2>5
<1>14. ASSUME NEW i \in DOMAIN callers' PROVE CallerOK(callers'[i], probes')
  <2>1. PICK x, y : x = callers[i] /\ y = callers'[i]
    OBVIOUS
  <2>2. CallerOK(x, probes) /\ x.probe \in 1 .. n
    BY <1>2, <1>9, <2>1 DEF HealthInv, CallerOK
  <2>3. y = IF x.probe = p /\ x.told = "none" THEN [x EXCEPT !.told = result] ELSE x
    BY <1>2, <1>4, <1>9, <2>1
  <2>4. CASE x.probe = p
    <3>1. x.told = "none" /\ x.joined = "running" /\ x.asked - probes[p].at < HEALTH_PROBE_TTL /\ IsCaller(x)
      BY <1>4, <2>2, <2>4 DEF CallerOK
    <3>2. IsCaller(y) /\ y.told = result /\ y.joined = "running" /\ y.asked = x.asked /\ y.probe = p
      BY <2>3, <2>4, <3>1 DEF IsCaller
    <3>3. probes'[p].result = result /\ probes'[p].at = probes[p].at /\ p \in DOMAIN probes'
      BY <1>2, <1>5, <1>8, <1>9
    <3>. QED
      BY <2>1, <3>1, <3>2, <3>3 DEF CallerOK, IsCaller
  <2>5. CASE x.probe # p
    <3>1. y = x /\ probes'[x.probe] = probes[x.probe] /\ x.probe \in DOMAIN probes'
      BY <1>9, <1>10, <2>2, <2>3, <2>5
    <3>. QED
      BY <2>1, <2>2, <3>1 DEF CallerOK, IsCaller
  <2>. QED
    BY <2>4, <2>5
<1>15. callers' \in Seq({callers'[i] : i \in DOMAIN callers'})
  BY <1>2, <1>4, <1>9
<1>. QED
  BY <1>2, <1>11, <1>12, <1>13, <1>14, <1>15 DEF HealthInv

LEMMA HealthInvHolds == HSpec => []HealthInv
<1>1. HInit => HealthInv
  BY DEF HInit, HealthInv, ProbesOK, CacheOK, SingleFlight
<1>2. HealthInv /\ [HNext]_hvars => HealthInv'
  <2>. SUFFICES ASSUME HealthInv, [HNext]_hvars PROVE HealthInv'
    OBVIOUS
  <2>1. CASE CachedProbeRegistry
    BY <2>1, AskedKeeps
  <2>2. CASE \E p \in DOMAIN probes, result \in {"ok", "unavailable", "timeout"} : Settle(p, result)
    BY <2>2, SettleKeeps
  <2>3. CASE Pass
    <3>1. instant \in Nat /\ instant' = instant + 1 /\ UNCHANGED <<probes, cached, callers>>
      BY <2>3 DEF Pass, HealthInv
    <3>2. ProbesOK'
      BY <3>1 DEF HealthInv, ProbesOK, IsProbe
    <3>3. CacheOK' /\ SingleFlight' /\ \A c \in DOMAIN callers : CallerOK(callers[c], probes')
      BY <3>1 DEF HealthInv, CacheOK, SingleFlight, CallerOK
    <3>. QED
      BY <3>1, <3>2, <3>3 DEF HealthInv
  <2>4. CASE UNCHANGED hvars
    BY <2>4 DEF hvars, HealthInv, ProbesOK, CacheOK, SingleFlight, CallerOK
  <2>. QED
    BY <2>1, <2>2, <2>3, <2>4 DEF HNext
<1>. QED
  BY <1>1, <1>2, PTL DEF HSpec

\* However many callers ask while probes settle late or in another order: no two
\* probes fly together but for one that had failed, and what a caller is told is
\* what its probe came to, a failure only to those who awaited it (health-probe.ts).
THEOREM HealthToldTruly == HSpec => []HealthAccounted
<1>1. HealthInv => ToldWhatHolds
  BY DEF HealthInv, ToldWhatHolds, CallerOK
<1>. QED
  BY <1>1, HealthInvHolds, PTL DEF HealthInv, HealthAccounted
=============================================================================
