----------------------------- MODULE MCX402Evc ------------------------------
EXTENDS X402Evc, TLC

CONSTANTS k1, k2

MCKeys == {k1, k2}
MCEntryLists == {<<k1>>, <<k2, k1>>}
MCMandates == {[key |-> k1, expires |-> 2], [key |-> k2, expires |-> 1]}

-----------------------------------------------------------------------------
(* One issuer, its quotes, and the legs that carry them.                   *)

MCIssuers ==
    [merchant |->
        [payTo |-> "see-quote", scheme |-> "agent-pay", network |-> "rail", audience |-> "marketplace",
         payToRole |-> "seller", keys |-> [kid |-> "issuer"], products |-> [search |-> [plan |-> "basic"]],
         settlementFields |-> {"sku"}, unboundExtraFields |-> {"tier"}, maxLifetimeSeconds |-> 1]]

Quote(n, iat) ==
    [kid |-> "kid", signer |-> "issuer", iss |-> "merchant", aud |-> "marketplace", iat |-> iat, exp |-> iat + 1,
     nbf |-> 0, jti |-> <<"quote", n>>, payTo |-> "seller", amount |-> 2, currency |-> "USD",
     claims |-> [plan |-> "basic", sku |-> "s"]]
Leg(token) ==
    [scheme |-> "agent-pay", network |-> "rail", asset |-> "USD", amount |-> 2, payTo |-> "see-quote",
     assetDecimals |-> FALSE, maxTimeoutSeconds |-> 2, token |-> {token}, extra |-> [sku |-> "s"]]

EditedLegs ==
    LET q == Quote(1, 0)
        leg == Leg(q)
    IN  {[leg EXCEPT !.payTo = "merchant"], [leg EXCEPT !.network = "base"], [leg EXCEPT !.asset = "EUR"],
         [leg EXCEPT !.amount = 1], [leg EXCEPT !.token = {}], [leg EXCEPT !.extra = [sku |-> "t"]],
         [leg EXCEPT !.extra = [sku |-> "s", note |-> "n"]]}
        \cup {[leg EXCEPT !.token = {token}] :
                token \in {[q EXCEPT !.signer = "none"], [q EXCEPT !.kid = "other"], [q EXCEPT !.iss = "other"],
                           [Quote(3, 0) EXCEPT !.aud = "other"], [Quote(4, 0) EXCEPT !.exp = 2],
                           [Quote(5, 0) EXCEPT !.iat = 1], [Quote(6, 0) EXCEPT !.nbf = 5],
                           [Quote(7, 0) EXCEPT !.payTo = "buyer"],
                           [Quote(8, 0) EXCEPT !.claims = [plan |-> "other", sku |-> "s"]]}}

\* Two headers carry the same quote in other bytes, one of them with a leaf that
\* is declared and signed by nobody; a quote of the next second; and headers with
\* one thing wrong.
MCHeaders ==
    {[bytes |-> <<"header", 1>>, resource |-> "search", leg |-> Leg(Quote(1, 0))],
     [bytes |-> <<"header", 2>>, resource |-> "search",
      leg |-> [Leg(Quote(1, 0)) EXCEPT !.extra = [sku |-> "s", tier |-> "t"]]],
     [bytes |-> <<"header", 3>>, resource |-> "search", leg |-> Leg(Quote(2, 2))]}
    \cup {[bytes |-> <<"edited", leg>>, resource |-> "search", leg |-> leg] : leg \in EditedLegs}

MCContexts ==
    LET plain == [Leg(Quote(1, 0)) EXCEPT !.payTo = "merchant", !.token = {}]
        Of(n, leg, expiresAt) == [resource |-> "search", requirements |-> leg, nonce |-> <<"challenge", n>>,
                                  expiresAt |-> expiresAt]
    IN  {Of(1, plain, 2), Of(2, [plain EXCEPT !.asset = "usdc"], 2), Of(3, Leg(Quote(1, 0)), 3)}

-----------------------------------------------------------------------------
\* A behaviour starts three gate invocations, two attempts, or one of each; the
\* other processes are idle.
Workloads == {w \in SUBSET (Invocations \cup Attempts) :
                <<Cardinality(w \cap Invocations), Cardinality(w \cap Attempts)>> \in {<<3, 0>>, <<0, 2>>, <<1, 1>>}}

MCInit == \E w \in Workloads : XStart(w \cap Invocations, w \cap Attempts)
MCSpec == MCInit /\ [][XNext]_xvars

\* What the view leaves out no later step reads and no property tells apart: the
\* last call of the store, the order of the receipts, and of a process that has
\* ended what it presented, unless it was a replay or spent its nonces; of an
\* attempt the instants it has passed, and which quote it is that cannot be bound.
Seen(r) ==
    IF r.phase # "done" THEN r
    ELSE IF r.spent THEN [r EXCEPT !.captured = None, !.now = 0]
    ELSE IF r.outcome = "nonce_replayed" THEN [r EXCEPT !.captured = None]
    ELSE [NewCall EXCEPT !.phase = "done", !.outcome = r.outcome]

Unbindable(context) == \A now \in Times : ~Bound(AUDIENCE, context, now)

SeenAttempt(x) ==
    CASE x.phase = "received" /\ Unbindable(x.local.context) -> "received"
      [] x.phase = "resolving" /\ Unbindable(x.context) -> "resolving"
      [] x.phase \in {"dispatching", "reserved"} ->
            [x EXCEPT !.entered = 0, !.local = IF @ = None THEN None ELSE @.selectedLeg,
                      !.entries = Deduplicated(@)]
      [] x.phase = "done" ->
            <<x.outcome, Deduplicated(x.entries), x.spent, x.at, x.outcome = "allow" => Binding(x),
              IF x.spent THEN <<x.mode, x.context.nonce, x.resolution>> ELSE <<>> >>
      [] OTHER -> x

View == <<reserved, sweepIter, lastFullSweepAt, clock, [q \in Invocations |-> Seen(calls[q])],
          {chain[i] : i \in DOMAIN chain}, stash, payments, [a \in Attempts |-> SeenAttempt(attempts[a])]>>
Symmetry == Permutations(Invocations) \cup Permutations(Attempts)
=============================================================================
