----------------------------- MODULE X402Quotes -----------------------------
(***************************************************************************)
(* What an agent-side host reads of an x402 challenge                      *)
(* (integrations/payment-protocols/src): the challenge it builds from a    *)
(* PAYMENT-REQUIRED header (x402-local-challenge.ts), the issuer-signed    *)
(* quote that binds a placeholder payee (x402-issuer-quote), and the leg   *)
(* that goes to settlement.  A signature is the key that made it; a token  *)
(* that is no strict compact JWS has the signer "none".                    *)
(***************************************************************************)
EXTENDS Integers

CONSTANTS
    Issuers,                \* issuers: [audience -> its configuration]
    SKEW,                   \* clockSkewSeconds
    MAX_ACCEPTANCE_WINDOW,  \* 900, which is also DEFAULT_MAX_ACCEPTANCE_SECONDS
    MAX_LOCAL_SECONDS,      \* MAX_LOCAL_CHALLENGE_SECONDS, MAX_LOCAL_DEADLINE_SECONDS
    Currencies,             \* the iso4217: assets
    MAX_USD

Least(m, n) == IF m <= n THEN m ELSE n

-----------------------------------------------------------------------------
(* Configuration: createIssuerQuotePayeeResolver rejects anything else.    *)

Compiled(issuer, skew, window) ==
    /\ issuer.maxLifetimeSeconds \in 1 .. window
    /\ issuer.maxLifetimeSeconds + 2 * skew <= window
    /\ issuer.settlementFields # {}

ASSUME QuoteAssumption ==
    /\ SKEW \in Nat /\ MAX_ACCEPTANCE_WINDOW \in Nat /\ MAX_LOCAL_SECONDS \in Nat
    /\ \A audience \in DOMAIN Issuers : Compiled(Issuers[audience], SKEW, MAX_ACCEPTANCE_WINDOW)

-----------------------------------------------------------------------------
(* The quote.  A leg's `token` is the set of the quotes it carries, at most *)
(* one; its `extra` is everything else under `extra`, by path.              *)

OnTheRail(leg, resource, issuer) ==
    /\ leg.payTo = issuer.payTo /\ leg.scheme = issuer.scheme /\ leg.network = issuer.network
    /\ resource \in DOMAIN issuer.products
    /\ leg.asset \in Currencies

Signed(token, issuer) == token.kid \in DOMAIN issuer.keys /\ issuer.keys[token.kid] = token.signer

\* A token without `nbf` is one whose nbf is 0.
Timely(token, issuer, now) ==
    /\ now <= token.exp + SKEW
    /\ token.nbf <= now + SKEW
    /\ token.iat <= now + SKEW
    /\ token.iat < token.exp /\ token.exp - token.iat <= issuer.maxLifetimeSeconds

Agree(f, g, names) == \A n \in names : n \in DOMAIN f /\ n \in DOMAIN g /\ f[n] = g[n]

PricedInAnything(token, leg) == token.amount = leg.amount
Priced(token, leg) == token.amount = leg.amount /\ token.currency = leg.asset

Claimed(token, leg, resource, issuer) ==
    /\ token.payTo = issuer.payToRole
    /\ Priced(token, leg)
    /\ Agree(token.claims, issuer.products[resource], DOMAIN issuer.products[resource])
    /\ Agree(leg.extra, token.claims, issuer.settlementFields)
    /\ DOMAIN leg.extra \subseteq issuer.settlementFields \cup issuer.unboundExtraFields

\* The resolver: anything it cannot bind it denies, as request_mismatch.
Bound(audience, context, now) ==
    /\ audience \in DOMAIN Issuers
    /\ LET issuer == Issuers[audience]
           leg == context.requirements
       IN  /\ OnTheRail(leg, context.resource, issuer)
           /\ \E token \in leg.token :
                 /\ Signed(token, issuer)
                 /\ token.iss = audience /\ token.aud = issuer.audience
                 /\ Timely(token, issuer, now)
                 /\ Claimed(token, leg, context.resource, issuer)

Resolution(audience, context) ==
    LET token == CHOOSE t \in context.requirements.token : TRUE
    IN  [issuer |-> audience, jti |-> token.jti, exp |-> token.exp, acceptUntil |-> token.exp + SKEW,
         verifiedExtraPaths |-> Issuers[audience].settlementFields]

\* validateResolution, of whatever resolver the host configured.
ValidResolution(resolution, audience, now, maxAcceptance) ==
    /\ resolution.issuer = audience
    /\ resolution.acceptUntil >= resolution.exp
    /\ resolution.acceptUntil - now <= maxAcceptance

\* "maxLifetime + 2*skew must fit, or a valid quote at the edge of tolerance would
\* be rejected downstream as internal_error" (x402-issuer-quote/index.ts, line 267):
\* no quote that the resolver accepts is refused by the default acceptance bound.
QuoteUsable(audience, context, now) ==
    Bound(audience, context, now) =>
        ValidResolution(Resolution(audience, context), audience, now, MAX_ACCEPTANCE_WINDOW)

-----------------------------------------------------------------------------
(* The local challenge.  A header stands for its bytes: its hash is itself. *)

LocalChallenge(header, leg, resource, now, maxSeconds) ==
    [receivedAt |-> now, headerSha256 |-> header, selectedLeg |-> leg,
     context |-> [resource |-> resource, requirements |-> leg, nonce |-> header,
                  expiresAt |-> now + Least(leg.maxTimeoutSeconds, maxSeconds)]]

ValidLocalDeadline(local) ==
    /\ local.context.nonce = local.headerSha256
    /\ local.context.expiresAt <= local.receivedAt + MAX_LOCAL_SECONDS

\* validateLocalChallenge, of what the caller hands over as the local challenge:
\* the leg to settle is the leg to verify, but for its timeout.
ValidLocalChallenge(local) ==
    /\ local.context.nonce = local.headerSha256
    /\ local.context.expiresAt <= local.receivedAt + MAX_LOCAL_SECONDS
    /\ [local.selectedLeg EXCEPT !.maxTimeoutSeconds = 1] = [local.context.requirements EXCEPT !.maxTimeoutSeconds = 1]
    /\ local.selectedLeg.maxTimeoutSeconds > 0

\* buildCheckedLeg: the snapshot, its `extra` trimmed to the verified paths.
CheckedLeg(leg, paths) ==
    [leg EXCEPT !.extra = [path \in DOMAIN leg.extra \cap paths |-> leg.extra[path]]]

-----------------------------------------------------------------------------
(* resolveUsdAmount: `iso4217:USD` is decimal USD, another currency needs a *)
(* converter, a token the host's assertion of its decimals.                 *)
UsableAmount(leg, converter) ==
    \/ converter = "usable"
    \/ /\ converter = "none"
       /\ leg.amount \in 1 .. MAX_USD
       /\ leg.asset = "USD" \/ (leg.asset \notin Currencies /\ leg.assetDecimals)
=============================================================================
