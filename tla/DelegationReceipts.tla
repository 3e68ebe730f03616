------------------------ MODULE DelegationReceipts -------------------------
(***************************************************************************)
(* delegation/src: the receipts an issuer signs for an agent, the          *)
(* presentations with which the agent shows that it holds one, the         *)
(* issuer's status list, and verify with its v0.1 path.  Signatures and    *)
(* hashes are ideal: a signature is its key and the document it is over, a *)
(* hash the document, the thumbprint of a key the key.                     *)
(***************************************************************************)
EXTENDS Integers, FiniteSets, Sequences, Verdicts

CONSTANTS
    Verifications,
    Scenarios,      \* what the parties of a behaviour ask for: records, see MCLibraries
    Table,          \* staticIssuerResolver's table: <<iss, kid>> -> key
    SKEW,           \* clockSkewSeconds
    KB_MAX_AGE,     \* kbMaxAgeSeconds
    LIST_BYTES,     \* length of a new status list
    MaxPresented, MaxLists,
    Undefined

VARIABLES
    clock,          \* seconds, as every party reads them
    scenario,
    receipts,       \* signed by allow, of either version
    presented,      \* KB-JWTs signed by present
    slots,          \* what setStatusBit was last asked for, per index
    bitstring,      \* the issuer's list, as bytes
    published,      \* signed status lists
    served,         \* the one the list's URI answers with
    verifications

dvars == <<clock, scenario, receipts, presented, slots, bitstring, published, served, verifications>>

-----------------------------------------------------------------------------
(* Permissions: a label, or the bits of a number by name.                  *)

PERM == {"READ_DATA", "WRITE_DATA", "FINANCIAL_SMALL", "FINANCIAL_MEDIUM", "FINANCIAL_UNLIMITED",
         "SIGN_ON_BEHALF", "SUB_DELEGATE", "ACCESS_PII"}
IsLabel(perm) == "label" \in DOMAIN perm
Numeric(perm) == IF IsLabel(perm) THEN {} ELSE perm.bits

ValidCumulative(bits) ==
    /\ "FINANCIAL_MEDIUM" \in bits => "FINANCIAL_SMALL" \in bits
    /\ "FINANCIAL_UNLIMITED" \in bits => {"FINANCIAL_SMALL", "FINANCIAL_MEDIUM"} \subseteq bits

Implied(bits) ==
    bits \cup (IF "FINANCIAL_UNLIMITED" \in bits THEN {"FINANCIAL_MEDIUM"} ELSE {})
         \cup (IF bits \cap {"FINANCIAL_UNLIMITED", "FINANCIAL_MEDIUM"} # {} THEN {"FINANCIAL_SMALL"} ELSE {})

\* resolvePermission, and whether the input resolves at all.
Resolves(perm) == IsLabel(perm) => perm.label \in PERM
ResolvedPermission(perm) == Implied(IF IsLabel(perm) THEN {perm.label} ELSE perm.bits)
PermImplies(granted, required) ==
    /\ Resolves(granted) /\ Resolves(required)
    /\ ResolvedPermission(required) \subseteq ResolvedPermission(granted)

-----------------------------------------------------------------------------
(* Documents.                                                              *)

Given(x) == x # Undefined

Header(typ, kid) == [typ |-> typ, alg |-> "EdDSA", kid |-> kid]
Signed(key, header, claims) == [header |-> header, claims |-> claims, signature |-> <<key, header, claims>>]
SignedBy(document, key) == document.signature = <<key, document.header, document.claims>>

ISS_TYP == "bolyra-delegation+sd-jwt"
V01_TYP == "bolyra-delegation+jwt"
LIST_TYP == "statuslist+jwt"
KB_TYP == "kb+jwt"

Proof(receipt, holder, nonce, audience, iat) ==
    Signed(holder, Header(KB_TYP, Undefined),
           [aud |-> audience, nonce |-> nonce, sd_hash |-> receipt, iat |-> iat])

Lookup(iss, kid) == IF <<iss, kid>> \in DOMAIN Table THEN Table[<<iss, kid>>] ELSE Undefined

\* Two bits a slot, four slots a byte.
ByteOf(idx) == idx \div 4 + 1
Weight(idx) == <<1, 4, 16, 64>>[(idx % 4) + 1]
Slot(raw, idx) == (raw[ByteOf(idx)] \div Weight(idx)) % 4
Masked(raw, idx) == raw[ByteOf(idx)] - Slot(raw, idx) * Weight(idx)
WithStatusOverwritten(raw, idx, status) == [raw EXCEPT ![ByteOf(idx)] = status * Weight(idx)]
WithStatus(raw, idx, status) == [raw EXCEPT ![ByteOf(idx)] = Masked(raw, idx) + status * Weight(idx)]

\* Grants of this version carry a label and are signed with a named key, and the
\* lists that other parties made say in bits what they are known to say.
ScenarioAssumption ==
    /\ {SKEW, KB_MAX_AGE, LIST_BYTES} \subseteq Nat
    /\ \A s \in Scenarios :
        /\ s.indices \subseteq Nat
        /\ \A grant \in s.grants \cup s.grantsV01 : {grant.ahead, grant.ttl} \subseteq Int
        /\ \A grant \in s.grants :
            IsLabel(grant.perm) /\ Given(grant.kid) /\ Given(grant.key) /\ grant.status \in s.indices \cup {Undefined}
        /\ \A list \in s.foreignLists, idx \in s.indices :
            ByteOf(idx) \in DOMAIN list.claims.lst =>
                /\ list.claims.lst[ByteOf(idx)] \in Nat
                /\ list.claims.slots[idx] = Slot(list.claims.lst, idx)
ASSUME ScenarioAssumed == ScenarioAssumption

DInit ==
    /\ clock = 0
    /\ scenario \in Scenarios
    /\ receipts = {} /\ presented = {} /\ published = scenario.foreignLists
    /\ slots = [idx \in scenario.indices |-> 0]
    /\ bitstring = [byte \in 1 .. LIST_BYTES |-> 0]
    /\ served = Undefined
    /\ verifications = [v \in Verifications |-> [phase |-> "idle"]]

-----------------------------------------------------------------------------
(* Issuers and holders.                                                    *)

\* ahead is how far the issuer's clock is before the others'.
Issue(key, header, grant, holder, status) ==
    /\ Cardinality(receipts) < scenario.issued
    /\ receipts' = receipts \cup {Signed(key, header,
           [iss |-> grant.iss, sub |-> grant.sub, aud |-> grant.aud, act |-> grant.act,
            perm |-> grant.perm, max |-> grant.max, cnf |-> holder, status |-> status,
            iat |-> clock + grant.ahead, exp |-> clock + grant.ahead + grant.ttl])}
    /\ UNCHANGED <<clock, scenario, presented, slots, bitstring, published, served, verifications>>

\* An unusable key, an empty kid and a list that is not on https are refused.
Allow(grant) ==
    /\ grant.usable
    /\ Issue(grant.key, Header(ISS_TYP, grant.kid), grant, grant.holder, grant.status)

AllowV01(grant) ==
    /\ ValidCumulative(grant.perm.bits)
    /\ Issue(grant.key, Header(V01_TYP, Undefined), grant, Undefined, Undefined)

\* Only the issuer's form of a receipt, by the key the receipt confirms.
Present(receipt, holder, nonce, audience) ==
    /\ receipt.header.typ = ISS_TYP
    /\ receipt.claims.cnf = holder
    /\ Cardinality(presented) < MaxPresented
    /\ presented' = presented \cup {Proof(receipt, holder, nonce, audience, clock)}
    /\ UNCHANGED <<clock, scenario, receipts, slots, bitstring, published, served, verifications>>

SetStatusBit(idx, status) ==
    /\ ByteOf(idx) \in DOMAIN bitstring
    /\ bitstring' = WithStatus(bitstring, idx, status)
    /\ slots' = [slots EXCEPT ![idx] = status]
    /\ UNCHANGED <<clock, scenario, receipts, presented, published, served, verifications>>

StatusList(iss, key, kid, typ, raw, meant) ==
    Signed(key, Header(typ, kid), [iss |-> iss, lst |-> raw, slots |-> meant])
PublishStatusList(iss, key, kid) ==
    /\ Cardinality(published) < Cardinality(scenario.foreignLists) + MaxLists
    /\ published' = published \cup {StatusList(iss, key, kid, LIST_TYP, bitstring, slots)}
    /\ UNCHANGED <<clock, scenario, receipts, presented, slots, bitstring, served, verifications>>

\* The URI answers with any list that was put there, an older one included.
Serve(list) ==
    /\ served' = list /\ served # list
    /\ UNCHANGED <<clock, scenario, receipts, presented, slots, bitstring, published, verifications>>

Tick ==
    /\ clock < scenario.until /\ clock' = clock + 1
    /\ UNCHANGED <<scenario, receipts, presented, slots, bitstring, published, served, verifications>>

-----------------------------------------------------------------------------
(* What is handed to verify: a document in one of the shapes the tildes    *)
(* make, "compact", "issuer", "presented" or "other", a part of which may  *)
(* not decode, and the options of the call.                                *)

Expired(claims, now) == claims.exp + SKEW <= now

\* The checks before the first await. Two of them are the v0.1 path's.
StructureChecks(handed, options, now) ==
    IF handed.shape = "compact"
    THEN <<<<options.acceptLegacyV01, "LEGACY_V01_REJECTED">>,
           <<Given(options.audience), "BAD_FORMAT">>,
           <<options.trust # "none", "BAD_FORMAT">>,
           <<handed.torn # "header", "BAD_FORMAT">>,
           <<handed.torn # "payload", "INVALID_SIGNATURE">>,
           <<options.trust = "keys" => options.keys # <<>>, "BAD_FORMAT">>>>
    ELSE <<<<handed.shape # "issuer", "KB_MISSING">>,
           <<handed.shape = "presented", "SD_JWT_MALFORMED">>,
           <<handed.torn # "header", "SD_JWT_MALFORMED">>,
           <<handed.jws.header.alg = "EdDSA", "UNSUPPORTED_ALG">>,
           <<handed.jws.header.typ = ISS_TYP, "TYP_MISMATCH">>,
           <<Given(handed.jws.header.kid), "KID_MISSING">>,
           <<handed.torn # "payload", "SD_JWT_MALFORMED">>,
           <<~Expired(handed.jws.claims, now), "EXPIRED">>,
           <<options.trust = "resolver", "KID_RESOLVER_ERROR">>>>

\* checkIssuerClaims.
ClaimChecks(claims, options, now) ==
    <<<<~Expired(claims, now), "EXPIRED">>,
      <<claims.iat - SKEW <= now, "FUTURE_NBF">>,
      <<claims.aud = options.audience, "WRONG_AUDIENCE">>,
      <<options.subject \in {Undefined, claims.sub}, "WRONG_SUBJECT">>,
      <<options.action \in {Undefined, claims.act}, "WRONG_ACTION">>,
      <<Given(options.perm) => PermImplies(claims.perm, options.perm), "PERMISSION_VIOLATION">>,
      <<Given(options.amount) => Given(claims.max) /\ options.amount <= claims.max.amount, "AMOUNT_EXCEEDS_CAP">>,
      <<Given(options.amount) /\ Given(options.currency) /\ Given(claims.max)
            => claims.max.currency = options.currency, "CURRENCY_MISMATCH">>>>

\* verifyKbJwt. A key identifier in its header is optional.
PresentsOfIssuer(kb, receipt) == kb.claims.sd_hash.claims.iss = receipt.claims.iss
Presents(kb, receipt) == kb.claims.sd_hash = receipt
HolderChecks(handed, options) ==
    <<<<Given(handed.jws.claims.cnf), "CNF_MISSING">>,
      <<Given(options.kbNonce), "KB_NONCE_REQUIRED">>,
      <<handed.torn # "kb", "KB_BAD_FORMAT">>>>
KbChecks(kb, receipt, options, now) ==
    <<<<kb.header.typ = KB_TYP, "KB_TYP_INVALID">>,
      <<kb.header.alg = "EdDSA", "KB_ALG_UNSUPPORTED">>,
      <<kb.header.kid \in {Undefined, receipt.claims.cnf}, "KB_BINDING_MISMATCH">>,
      <<SignedBy(kb, receipt.claims.cnf), "KB_INVALID_SIGNATURE">>,
      <<kb.claims.aud = options.audience, "KB_WRONG_AUDIENCE">>,
      <<kb.claims.nonce = options.kbNonce, "KB_WRONG_NONCE">>,
      <<Presents(kb, receipt), "KB_WRONG_SD_HASH">>,
      <<kb.claims.iat - SKEW <= now, "KB_IAT_FUTURE">>,
      <<now - kb.claims.iat <= KB_MAX_AGE + SKEW, "KB_IAT_TOO_OLD">>>>

\* checkSemantics of the v0.1 path: a required label was dropped on the way, and
\* an amount without a currency, or against a receipt without a cap, is not checked.
Financial(act) == act \in {"purchase", "pay"}
V01PermissionOrLabel(perm) == Resolves(perm)
V01Permission(perm) == ~IsLabel(perm)
SemanticChecks(claims, options) ==
    LET required == IF Given(options.perm) THEN Numeric(options.perm) ELSE {}
        capped == Given(options.amount) /\ Given(options.currency) /\ Given(claims.max)
    IN  <<<<options.subject \in {Undefined, claims.sub}, "WRONG_SUBJECT">>,
          <<options.action \in {Undefined, claims.act}, "WRONG_ACTION">>,
          <<V01Permission(claims.perm), "BAD_FORMAT">>,
          <<ValidCumulative(Numeric(claims.perm)), "PERMISSION_VIOLATION">>,
          <<required \subseteq Numeric(claims.perm), "PERMISSION_VIOLATION">>,
          <<capped => claims.max.currency = options.currency, "CURRENCY_MISMATCH">>,
          <<capped => options.amount <= claims.max.amount, "AMOUNT_EXCEEDS_CAP">>,
          <<Financial(claims.act) => "FINANCIAL_SMALL" \in Numeric(claims.perm), "PERMISSION_VIOLATION">>>>

-----------------------------------------------------------------------------
(* verify: the code between two awaits is a step.                          *)

Running(v, phase) == verifications[v].phase = phase
Goes(v, state) ==
    /\ verifications' = [verifications EXCEPT ![v] = state]
    /\ UNCHANGED <<clock, scenario, receipts, presented, slots, bitstring, published, served>>
Answered(state, answer) == [state EXCEPT !.phase = "answered", !.answer = answer, !.at = clock]
\* On to the next phase, or the refusal.
Past(state, outcome, phase) ==
    IF outcome = "ok" THEN [state EXCEPT !.phase = phase] ELSE Answered(state, outcome)

Begin(v, handed, options) ==
    /\ Running(v, "idle")
    /\ LET state == [phase |-> "begun", handed |-> handed, options |-> options, keys |-> options.keys,
                     tried |-> 0, list |-> Undefined, at |-> clock, answer |-> "none"]
       IN  Goes(v, Past(state, FirstRefusal(StructureChecks(handed, options, clock), "ok"),
                        IF options.trust = "resolver" THEN "resolving" ELSE "verifying"))

\* The resolver is asked for the issuer and the key the document names.
ResolveKey(v, throws) ==
    /\ Running(v, "resolving")
    /\ LET state == verifications[v]
           jws == state.handed.jws
           key == Lookup(jws.claims.iss, jws.header.kid)
           outcome == IF throws THEN "KID_RESOLVER_ERROR" ELSE IF Given(key) THEN "ok" ELSE "UNKNOWN_ISSUER_KID"
       IN  Goes(v, Past([state EXCEPT !.keys = <<key>>], outcome, "verifying"))

\* jose's jwtVerify: the signature, then the audience if asked for, then expiry.
JwtVerify(jws, key, audience) ==
    FirstRefusal(<<<<SignedBy(jws, key), "INVALID_SIGNATURE">>,
                   <<Given(audience) => jws.claims.aud = audience, "WRONG_AUDIENCE">>,
                   <<~Expired(jws.claims, clock), "EXPIRED">>>>, "ok")

ReasonOpaque(outcome) == IF outcome = "EXPIRED" THEN "INVALID_SIGNATURE" ELSE outcome
Reason(outcome) == outcome
VerifyJws(v) ==
    LET state == verifications[v]
        outcome == JwtVerify(state.handed.jws, state.keys[1], Undefined)
    IN  /\ Running(v, "verifying") /\ state.handed.shape = "presented"
        /\ Goes(v, IF outcome = "ok" THEN [state EXCEPT !.phase = "verified"]
                   ELSE Answered(state, Reason(outcome)))

\* v0.1 tries one key after another; of failures only the last is told.
TryKey(v) ==
    LET state == verifications[v]
        jws == state.handed.jws
        outcome == JwtVerify(jws, state.keys[state.tried + 1], state.options.audience)
        next == [state EXCEPT !.tried = @ + 1]
    IN  /\ Running(v, "verifying") /\ state.handed.shape = "compact"
        /\ Goes(v,
             IF state.tried = 0 /\ jws.claims.iat - SKEW > clock THEN Answered(next, "FUTURE_NBF")
             ELSE IF outcome = "ok"
                  THEN Answered(next, FirstRefusal(SemanticChecks(jws.claims, state.options), "ok"))
             ELSE IF next.tried = Len(state.keys) THEN Answered(next, outcome)
             ELSE next)

\* The claims, then the holder's proof, both at one reading of the clock.
CheckClaims(v) ==
    LET state == verifications[v]
        receipt == state.handed.jws
        status == receipt.claims.status
        options == state.options
        outcome == FirstRefusal(ClaimChecks(receipt.claims, options, clock),
                   FirstRefusal(HolderChecks(state.handed, options),
                   FirstRefusal(KbChecks(state.handed.kb, receipt, options, clock),
                   IF Given(status) => options.checkStatus THEN "ok" ELSE "STATUS_CHECK_UNCONFIGURED")))
    IN  /\ Running(v, "verified")
        /\ Goes(v, IF outcome = "ok" /\ Given(status) THEN [state EXCEPT !.phase = "fetching", !.at = clock]
                   ELSE Answered(state, outcome))

\* fetchStatusList, as the checker: the list the URI answers with, ...
FetchList(v, reached) ==
    /\ Running(v, "fetching")
    /\ Goes(v, Past([verifications[v] EXCEPT !.list = served],
                    IF reached /\ Given(served) THEN "ok" ELSE "STATUS_LIST_UNREACHABLE", "reading"))

\* ... and, when its key was resolved, the slot in it. The instant of the
\* verification stays that of its claims: nothing here reads the clock.
InRange(list, idx) == ByteOf(idx) \in DOMAIN list.claims.lst
ListChecks(claims, list, throws) ==
    LET key == Lookup(list.claims.iss, list.header.kid)
        slot == IF InRange(list, claims.status) THEN Slot(list.claims.lst, claims.status) ELSE 3
    IN  <<<<list.claims.iss = claims.iss, "STATUS_LIST_ISSUER_MISMATCH">>,
          <<~throws /\ Given(key), "STATUS_LIST_UNREACHABLE">>,
          <<list.header.typ = LIST_TYP /\ SignedBy(list, key), "STATUS_LIST_SIG_INVALID">>,
          <<InRange(list, claims.status), "STATUS_LIST_UNREACHABLE">>,
          <<slot \notin {1, 3}, "STATUS_REVOKED">>,
          <<slot # 2, "STATUS_SUSPENDED">>>>
ReadList(v, throws) ==
    LET state == verifications[v]
        outcome == FirstRefusal(ListChecks(state.handed.jws.claims, state.list, throws), "ok")
    IN  /\ Running(v, "reading")
        /\ Goes(v, [state EXCEPT !.phase = "answered", !.answer = outcome])

-----------------------------------------------------------------------------
(* Who does what.                                                          *)

\* What a bearer may make of a receipt, and a wallet of its own of a proof.
Altered(receipt) ==
    {[receipt EXCEPT !.header.alg = "none"], [receipt EXCEPT !.header.typ = V01_TYP],
     [receipt EXCEPT !.header.kid = Undefined], [receipt EXCEPT !.claims.exp = @ + SKEW],
     [receipt EXCEPT !.claims.perm = [bits |-> PERM]]}
OtherProofs(kb, holder) ==
    {Signed(holder, [kb.header EXCEPT !.typ = "JWT"], kb.claims), [kb EXCEPT !.header.alg = "none"],
     Signed(holder, [kb.header EXCEPT !.kid = "another"], kb.claims),
     Signed(holder, kb.header, [kb.claims EXCEPT !.iat = @ + SKEW + 1])}

Documents == receipts \cup (IF scenario.alters THEN UNION {Altered(r) : r \in receipts} ELSE {})
Proofs ==
    presented \cup (IF scenario.alters
                    THEN UNION {OtherProofs(kb, holder) : kb \in presented, holder \in scenario.holders} ELSE {})
Shaped(shape, jws, kb, torn) == [shape |-> shape, jws |-> jws, kb |-> kb, torn |-> torn]
Handed ==
    LET Torn == IF scenario.alters THEN {"none", "header", "payload", "kb"} ELSE {"none"}
        Bare == IF scenario.alters THEN {"compact", "issuer", "other"} ELSE {"compact"}
    IN  {Shaped(shape, jws, Undefined, torn) : shape \in Bare, jws \in Documents, torn \in Torn \ {"kb"}}
        \cup {Shaped("presented", jws, kb, torn) : jws \in Documents, kb \in Proofs, torn \in Torn}

DNext ==
    \/ \E grant \in scenario.grants : Allow(grant)
    \/ \E grant \in scenario.grantsV01 : AllowV01(grant)
    \/ \E receipt \in receipts, holder \in scenario.holders, nonce \in scenario.nonces,
          audience \in scenario.audiences : Present(receipt, holder, nonce, audience)
    \/ \E idx \in scenario.indices, status \in 0 .. 2 : SetStatusBit(idx, status)
    \/ \E list \in scenario.lists : PublishStatusList(list.iss, list.key, list.kid)
    \/ \E list \in published : Serve(list)
    \/ Tick
    \/ \E v \in Verifications :
          \/ \E handed \in Handed, options \in scenario.requests : Begin(v, handed, options)
          \/ VerifyJws(v) \/ TryKey(v) \/ CheckClaims(v)
          \/ \E fails \in BOOLEAN : ResolveKey(v, fails) \/ FetchList(v, ~fails) \/ ReadList(v, fails)

DSpec == DInit /\ [][DNext]_dvars

-----------------------------------------------------------------------------
(* Correctness.                                                            *)

Answer(v) == IF Running(v, "answered") THEN verifications[v].answer ELSE "none"
TrustedKey(state) ==
    IF state.options.trust = "resolver" THEN Lookup(state.handed.jws.claims.iss, state.handed.jws.header.kid)
    ELSE state.keys[state.tried]

\* What the caller is about to let happen is within what was granted. On the v0.1
\* path a required label is dropped, and an amount without a currency or against
\* a receipt without a cap goes unchecked.
Within(claims, options, legacy) ==
    /\ claims.aud = options.audience
    /\ options.subject \in {Undefined, claims.sub} /\ options.action \in {Undefined, claims.act}
    /\ Given(options.perm) /\ ~(legacy /\ IsLabel(options.perm)) => PermImplies(claims.perm, options.perm)
    /\ IF Given(claims.max)
       THEN Given(options.amount) /\ (legacy => Given(options.currency))
            => /\ options.amount <= claims.max.amount
               /\ options.currency \in {Undefined, claims.max.currency}
       ELSE Given(options.amount) => legacy

\* An accepted receipt is one a trusted issuer signed as it stands, within whose
\* terms the call is, and it had not been expired for SKEW when it was judged.
\* One that was bound to a holder is accepted for no other: in whichever shape it
\* is handed over, its holder presented this very receipt, for this audience and
\* challenge, and not long ago (verify, verifyV01).
Granted(state) ==
    LET receipt == state.handed.jws
        options == state.options
    IN  /\ receipt \in receipts /\ SignedBy(receipt, TrustedKey(state))
        /\ Within(receipt.claims, options, state.handed.shape = "compact")
        /\ ~Expired(receipt.claims, state.at)
        /\ Given(receipt.claims.cnf) =>
              \E kb \in Proofs :
                  /\ SignedBy(kb, receipt.claims.cnf)
                  /\ kb.claims.sd_hash = receipt /\ kb.claims.nonce = options.kbNonce
                  /\ kb.claims.aud = options.audience
                  /\ state.at - kb.claims.iat \in -SKEW .. KB_MAX_AGE + SKEW
AcceptedAsGranted == \A v \in Verifications : Answer(v) = "ok" => Granted(verifications[v])

\* A receipt with a slot in a status list is accepted only on a list that its own
\* issuer signed and its URI answered with during the call, and on which the issuer
\* had that slot, among its neighbours in the same byte, valid; it is refused as
\* revoked or suspended only when the list says that. A list's own expiry is not
\* asked for (fetchStatusList).
Listed(state) ==
    LET claims == state.handed.jws.claims
        list == state.list
    IN  /\ list \in published /\ list.claims.iss = claims.iss
        /\ SignedBy(list, Lookup(claims.iss, list.header.kid))
        /\ CASE state.answer = "ok" -> list.claims.slots[claims.status] = 0
             [] state.answer = "STATUS_REVOKED" -> list.claims.slots[claims.status] \in {1, 3}
             [] OTHER -> list.claims.slots[claims.status] = 2
StatusObeyed ==
    \A v \in Verifications :
        /\ Answer(v) \in {"ok", "STATUS_REVOKED", "STATUS_SUSPENDED"}
        /\ Given(verifications[v].handed.jws.claims.status)
        => Listed(verifications[v])

\* A receipt that its holder presented as asked for, to a caller that trusts the
\* issuer and stays within the grant, is refused only because time has passed, and
\* then says so, because a list says so, or because a resolver or the list could
\* not be reached: never as a bad signature, also when it expires while the
\* resolver is awaited.
InOrder(state) ==
    LET receipt == state.handed.jws
        kb == state.handed.kb
        options == state.options
    IN  /\ state.handed.shape = "presented" /\ state.handed.torn = "none"
        /\ receipt \in receipts /\ Given(receipt.claims.cnf) /\ Given(options.kbNonce)
        /\ kb = Proof(receipt, receipt.claims.cnf, options.kbNonce, options.audience, kb.claims.iat)
        /\ kb.claims.iat <= state.at
        /\ SignedBy(receipt, Lookup(receipt.claims.iss, receipt.header.kid))
        /\ options.trust = "resolver" /\ options.checkStatus /\ Within(receipt.claims, options, FALSE)
Caused(state) ==
    LET claims == state.handed.jws.claims
    IN  CASE state.answer = "EXPIRED" -> Expired(claims, state.at)
          [] state.answer = "FUTURE_NBF" -> claims.iat > state.at + SKEW
          [] state.answer = "KB_IAT_TOO_OLD" -> state.at - state.handed.kb.claims.iat > KB_MAX_AGE + SKEW
          [] OTHER -> state.answer \in {"ok", "KID_RESOLVER_ERROR", "STATUS_REVOKED", "STATUS_SUSPENDED",
                                        "STATUS_LIST_UNREACHABLE", "STATUS_LIST_ISSUER_MISMATCH",
                                        "STATUS_LIST_SIG_INVALID"}
RefusedForCause ==
    \A v \in Verifications : Answer(v) # "none" /\ InOrder(verifications[v]) => Caused(verifications[v])

\* What verify promises the three parties (delegation/README.md): the issuer, the
\* holder and the one who relies on its answer.
ReceiptsHonoured == AcceptedAsGranted /\ StatusObeyed /\ RefusedForCause
=============================================================================
