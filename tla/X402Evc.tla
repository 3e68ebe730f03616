------------------------------- MODULE X402Evc ------------------------------
(***************************************************************************)
(* verifyX402EvcAuthorization                                              *)
(* (integrations/payment-protocols/src/x402-evc.ts) beside the MPP gate of *)
(* the same host and over the same nonce store, as one mandate travels     *)
(* across MPP and x402.  An attempt awaits the payee resolver, the         *)
(* verifier and the store, and reads the clock afresh after each.          *)
(***************************************************************************)
EXTENDS PaymentGate, X402Quotes

CONSTANTS
    Attempts,        \* calls of verifyX402EvcAuthorization
    Headers,         \* PAYMENT-REQUIRED headers: records of `bytes`, `resource`, `leg`
    Contexts,        \* challenge contexts that a resource server issued
    Mandates,        \* presentations: records of `key` and `expires`
    AUDIENCE,        \* the payee identity the host serves
    MAX_SECONDS,     \* maxSeconds of the host's local challenges
    MAX_ACCEPTANCE   \* maxAcceptanceSeconds

Legs == {h.leg : h \in Headers} \cup {c.requirements : c \in Contexts}
Quotes == UNION {leg.token : leg \in Legs}

\* Legs, headers and contexts are as their parsers leave them.  A server gives each
\* challenge a nonce of its own, a header stands for its bytes, and an issuer gives
\* each quote it signs a jti of its own.
ASSUME EvcAssumption ==
    /\ Invocations \cap Attempts = {}
    /\ MAX_SECONDS \in Nat \ {0} /\ MAX_ACCEPTANCE \in Nat
    /\ \A m \in Mandates : m.expires \in Nat
    /\ \A leg \in Legs :
          /\ DOMAIN leg = {"scheme", "network", "asset", "amount", "payTo", "assetDecimals",
                           "maxTimeoutSeconds", "token", "extra"}
          /\ leg.maxTimeoutSeconds \in Int
          /\ \A t, u \in leg.token : t = u
    /\ \A t \in Quotes : t.iat \in Nat /\ t.exp \in Nat
    /\ \A c \in Contexts : c.expiresAt \in Int
    /\ \A c, d \in Contexts : c.nonce = d.nonce => c = d
    /\ \A h, g \in Headers : h.bytes = g.bytes => h = g
    /\ \A audience \in DOMAIN Issuers : \A t, u \in {q \in Quotes : Signed(q, Issuers[audience])} :
          t.iss = u.iss /\ t.jti = u.jti => t = u
    /\ None \notin Mandates
    /\ None \notin {"missing_authorization", "request_mismatch", "expired", "quote_fault", "internal_error"}
    /\ \A t \in Quotes, issuer \in DOMAIN Issuers :
          None # [issuer |-> AUDIENCE, jti |-> t.jti, exp |-> t.exp, acceptUntil |-> t.exp + SKEW,
                  verifiedExtraPaths |-> Issuers[issuer].settlementFields]

VARIABLES attempts

xvars == <<gvars, attempts>>

\* A call is given a challenge context or a local challenge, and either a payee
\* resolver, which a local challenge needs, or a policy for the payee.
Modes ==
    {[local |-> FALSE, resolver |-> FALSE, matches |-> m] : m \in {"default", "true", "other"}}
        \cup {[local |-> l, resolver |-> TRUE, matches |-> "default"] : l \in BOOLEAN}

NewAttempt ==
    [phase |-> "new", mode |-> None, local |-> None, context |-> None, mandate |-> None, entered |-> 0,
     requestNow |-> 0, expiresAt |-> 0, resolution |-> None, resolvedAt |-> 0, outcome |-> None,
     entries |-> <<>>, spent |-> FALSE, at |-> 0, settledAt |-> 0, checkedLeg |-> None]

XStart(invocations, started) ==
    /\ GStart(invocations)
    /\ attempts = [a \in Attempts |-> [NewAttempt EXCEPT !.phase = IF a \in started THEN "new" ELSE "idle"]]

XInit == XStart(Invocations, Attempts)

-----------------------------------------------------------------------------
Becoming(a, update) == attempts' = [attempts EXCEPT ![a] = update]
Denied(a, update, code) == Becoming(a, [update EXCEPT !.phase = "done", !.outcome = code])

\* x402LocalChallenge: the agent-side host has received a 402.
Receive(a, header, maxSeconds) ==
    /\ attempts[a].phase = "new"
    /\ Becoming(a, [NewAttempt EXCEPT !.phase = "received",
                        !.local = LocalChallenge(header.bytes, header.leg, header.resource, clock, maxSeconds)])

\* buildX402EvcRequest: the payee is the quote's issuer, or the host says that
\* its audience covers it; then the amount and the bundle have to be usable.
BuildDenial(update, matches, converter, parses) ==
    LET leg == update.context.requirements
    IN  IF update.resolution = None /\ matches # "true" /\ ~(matches = "default" /\ AUDIENCE = leg.payTo)
        THEN "request_mismatch"
        ELSE IF ~UsableAmount(leg, converter) THEN "internal_error"
        ELSE IF ~parses THEN "invalid_bundle"
        ELSE None

Build(a, update, matches) ==
    \E code \in {BuildDenial(update, matches, converter, parses) :
                    converter \in {"none", "usable", "unusable"}, parses \in BOOLEAN} :
        IF code # None THEN Denied(a, update, code)
        ELSE Becoming(a, [update EXCEPT !.phase = "dispatching"])

\* A call that is misconfigured, or cannot read its clock.
Misconfigure(a) ==
    /\ attempts[a].phase \in {"new", "received"}
    /\ Denied(a, NewAttempt, "internal_error")

EntryDenial(mode, local, context, mandate) ==
    IF mode.local /\ ~ValidLocalChallenge(local) THEN "internal_error"
    ELSE IF mandate = None THEN "missing_authorization"
    ELSE IF context.expiresAt <= clock THEN "expired"
    ELSE None

\* Everything up to the first await.
Enter(a, mode, local, given, mandate) ==
    LET context == IF mode.local THEN local.context ELSE given
        update == [NewAttempt EXCEPT !.phase = "resolving", !.mode = mode, !.context = context,
                       !.local = IF mode.local THEN local ELSE None, !.mandate = mandate, !.entered = clock,
                       !.requestNow = clock, !.expiresAt = context.expiresAt]
        code == EntryDenial(mode, local, context, mandate)
    IN  /\ attempts[a].phase = IF mode.local THEN "received" ELSE "new"
        /\ IF code # None THEN Denied(a, NewAttempt, code)
           ELSE IF mode.resolver THEN Becoming(a, update)
           ELSE Build(a, update, mode.matches)

\* The payee resolver answers about the instant the call was entered at; the
\* mandate is verified at the instant after it answered.  A resolution that the
\* host refuses is an internal_error like others, told apart here as quote_fault.
ResolutionDenial(x, ticks) ==
    IF ~Bound(AUDIENCE, x.context, x.entered) THEN "request_mismatch"
    ELSE IF ~ValidResolution(Resolution(AUDIENCE, x.context), AUDIENCE, x.entered, MAX_ACCEPTANCE) THEN "quote_fault"
    ELSE IF ~ticks THEN "internal_error"
    ELSE IF x.expiresAt <= clock \/ Resolution(AUDIENCE, x.context).acceptUntil <= clock THEN "expired"
    ELSE None

ResolvedAtEntry(x, now) ==
    LET resolution == Resolution(AUDIENCE, x.context)
    IN  [x EXCEPT !.resolution = resolution, !.resolvedAt = now,
                  !.expiresAt = IF @ <= resolution.acceptUntil THEN @ ELSE resolution.acceptUntil]

Resolved(x, now) ==
    LET resolution == Resolution(AUDIENCE, x.context)
    IN  [x EXCEPT !.resolution = resolution, !.resolvedAt = now, !.requestNow = now,
                  !.expiresAt = IF @ <= resolution.acceptUntil THEN @ ELSE resolution.acceptUntil]

Resolve(a, ticks) ==
    LET code == ResolutionDenial(attempts[a], ticks)
    IN  /\ attempts[a].phase = "resolving"
        /\ IF code # None THEN Denied(a, attempts[a], code)
           ELSE Build(a, Resolved(attempts[a], clock), "default")

\* A resolver or a verifier that fails, and a verifier that denies.
Fail(a) ==
    /\ attempts[a].phase \in {"resolving", "dispatching"}
    /\ Denied(a, attempts[a], "internal_error")

VerifierDenies(a) ==
    /\ attempts[a].phase = "dispatching"
    /\ Denied(a, attempts[a], "denied")

(***************************************************************************)
(* The verdict allows and names the nonces to reserve: the mandate's own,  *)
(* until it expires, or none, as a classical verifier does.  Together with *)
(* the challenge nonce and the quote's identity they are deduplicated,     *)
(* keeping the longest retention, and reserved at the current instant.     *)
(***************************************************************************)
Entry(key, until) == [key |-> key, until |-> until]

Named(x) ==
    LET whole == Entry(x.mandate.key, x.mandate.expires)
    IN  {<<>>, <<whole>>, <<whole, Entry(x.mandate.key, x.requestNow)>>}

ToReserveWithoutQuote(x, named) == <<Entry(x.context.nonce, x.expiresAt)>> \o named

ToReserve(x, named) ==
    <<Entry(x.context.nonce, x.expiresAt)>>
        \o (IF x.resolution = None THEN <<>> ELSE <<Entry(x.resolution.jti, x.resolution.acceptUntil)>>)
        \o named

Deduplicated(raw) ==
    LET firsts == Without(raw, {i \in DOMAIN raw : \E j \in 1 .. i - 1 : raw[j].key = raw[i].key})
        Untils(key) == {raw[i].until : i \in {n \in DOMAIN raw : raw[n].key = key}}
        Longest(key) == CHOOSE until \in Untils(key) : \A other \in Untils(key) : other <= until
    IN  [n \in DOMAIN firsts |-> Entry(firsts[n].key, Longest(firsts[n].key))]

\* `sound` says that the clock can be read and every entry is well formed.
Dispatched(a, named, sound) ==
    LET x == attempts[a]
        asked == [x EXCEPT !.entries = ToReserve(x, named), !.at = clock]
    IN  /\ x.phase = "dispatching"
        /\ x.mandate.expires > x.requestNow
        /\ IF ~sound THEN Denied(a, x, "internal_error") /\ UNCHANGED nvars
           ELSE IF x.expiresAt <= clock THEN Denied(a, x, "expired") /\ UNCHANGED nvars
           ELSE /\ Reserve(Deduplicated(asked.entries), clock)
                /\ CASE call'.answer = "true" -> Becoming(a, [asked EXCEPT !.phase = "reserved", !.spent = TRUE])
                     [] call'.answer = "false" -> Denied(a, asked, "nonce_replayed")
                     [] OTHER -> Denied(a, asked, "internal_error")
                /\ UNCHANGED clock

\* The deadline once more after the store has answered; then the allow, and in
\* local mode the leg to settle.
Complete(a, ticks) ==
    LET x == attempts[a]
        leg == IF x.local = None THEN None
               ELSE CheckedLeg(x.local.selectedLeg, x.resolution.verifiedExtraPaths)
    IN  /\ x.phase = "reserved"
        /\ IF ~ticks THEN Denied(a, x, "internal_error")
           ELSE IF x.expiresAt <= clock THEN Denied(a, x, "expired")
           ELSE Becoming(a, [x EXCEPT !.phase = "done", !.outcome = "allow", !.settledAt = clock,
                                      !.checkedLeg = leg])

-----------------------------------------------------------------------------
\* What a caller may hand over as the local challenge it was given: itself, with
\* a later deadline, or with another amount in the leg to settle.
HandedOver(local) ==
    {local, [local EXCEPT !.context.expiresAt = @ + MAX_LOCAL_SECONDS], [local EXCEPT !.selectedLeg.amount = @ + 1]}

GateSteps == GNext /\ UNCHANGED attempts

AttemptSteps ==
    \E a \in Attempts :
        \/ \E header \in Headers : Receive(a, header, MAX_SECONDS) /\ UNCHANGED gvars
        \/ Misconfigure(a) /\ UNCHANGED gvars
        \/ \E mode \in Modes, mandate \in Mandates \cup {None} :
              /\ IF mode.local THEN attempts[a].phase = "received" /\ \E local \in HandedOver(attempts[a].local) : Enter(a, mode, local, None, mandate)
                 ELSE \E given \in Contexts : Enter(a, mode, None, given, mandate)
              /\ UNCHANGED gvars
        \/ \E ticks \in BOOLEAN : (Resolve(a, ticks) \/ Complete(a, ticks)) /\ UNCHANGED gvars
        \/ (Fail(a) \/ VerifierDenies(a)) /\ UNCHANGED gvars
        \/ /\ attempts[a].phase = "dispatching"
           /\ \E named \in Named(attempts[a]), sound \in BOOLEAN : Dispatched(a, named, sound)
           /\ UNCHANGED <<calls, chain, stash, payments>>

XNext == GateSteps \/ AttemptSteps
XSpec == XInit /\ [][XNext]_xvars

-----------------------------------------------------------------------------
(* Properties *)

Parties == Invocations \cup Attempts
Party(p) == IF p \in Invocations THEN calls[p] ELSE attempts[p]
Stated(p) == {Party(p).entries[i] : i \in DOMAIN Party(p).entries}
AskedAt(p) == IF p \in Invocations THEN calls[p].now ELSE attempts[p].at
Allowed(a) == attempts[a].outcome = "allow"

\* However MPP and x402 requests overlap, wait for their verifiers and fill the
\* store, no nonce serves two of them while the time stated for it has not
\* passed (gate.ts, x402-evc.ts).
NonceSpentOnce ==
    \A p, r \in Parties :
        p # r /\ Party(p).spent /\ Party(r).spent =>
            \A e \in Stated(p), f \in Stated(r) :
                e.key = f.key => e.until < Party(r).at \/ f.until < Party(p).at

\* A denial tells its caller the truth.  It says nonce_replayed only when another
\* request did spend the nonce and its time had not passed: never for a lapsed
\* entry that the sweep has not reached, and never for a full store.  One that
\* tells something about the presentation has left its nonces unspent, but for an
\* x402 deadline that passed while the store was asked.  And under the
\* default bound a quote that the resolver accepted is no fault of the host.
DenialsTruthful ==
    \A p \in Parties :
        /\ Party(p).outcome = "nonce_replayed" =>
              \E r \in Parties \ {p} : Party(r).spent /\ \E e \in Stated(p), f \in Stated(r) :
                    e.key = f.key /\ f.until >= AskedAt(p)
        /\ Party(p).phase = "done" /\ Party(p).spent =>
              \/ Party(p).outcome \in {"allow", "internal_error"}
              \/ p \in Attempts /\ Party(p).outcome = "expired"
        /\ Party(p).outcome # "quote_fault"

\* "the quote's single-use (iss, jti) is the replay protection that does not
\* renew" (x402-evc-profile-v0.md, line 173): a quote serves one attempt, ever,
\* although the same header may be received again, or carry it in other bytes,
\* after the first challenge has lapsed; and so does a challenge, under one
\* configuration.
QuoteSpentOnce ==
    \A a, b \in Attempts :
        a # b /\ attempts[a].spent /\ attempts[b].spent =>
            /\ attempts[a].resolution # None /\ attempts[b].resolution # None =>
                  attempts[a].resolution.jti # attempts[b].resolution.jti
            /\ attempts[a].mode = attempts[b].mode =>
                  attempts[a].context.nonce # attempts[b].context.nonce

\* What is allowed was bound by evidence that held together: the challenge and the
\* quote are still live when the answer is given, however long the resolver, the
\* verifier and the store took; the mandate was live when the quote had been
\* resolved; and the leg handed to settlement is what the issuer signed, with
\* nothing beside it (x402-evc.ts, lines 642 and 736).
Binding(x) ==
    /\ x.settledAt < x.context.expiresAt
    /\ x.resolution # None => x.settledAt < x.resolution.acceptUntil /\ x.mandate.expires > x.resolvedAt
    /\ x.checkedLeg # None =>
          \E token \in x.checkedLeg.token :
              /\ Signed(token, Issuers[AUDIENCE]) /\ token.iss = AUDIENCE
              /\ x.checkedLeg.amount = token.amount /\ x.checkedLeg.asset = token.currency
              /\ Agree(x.checkedLeg.extra, token.claims, DOMAIN x.checkedLeg.extra)

AllowedAsBound == \A a \in Attempts : Allowed(a) => Binding(attempts[a])
=============================================================================
