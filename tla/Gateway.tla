------------------------------ MODULE Gateway -------------------------------
(***************************************************************************)
(* The MCP gateway (integrations/gateway/src: proxy.ts, middleware.ts,     *)
(* credential-binding.ts, receipt-signer.ts, receipts.ts) over verifyBundle*)
(* and a nonce store. Requests overlap at the awaits of the verification;  *)
(* what follows its answer (binding, tool policy, the receipt and the call *)
(* of the upstream server) is one step. Receipts are handed to a writer    *)
(* that may lose them, and a gateway process may be restarted at any time. *)
(***************************************************************************)
EXTENDS McpVerify, ReceiptChain, SequencesExt

CONSTANTS
    Instances,     \* gateway processes
    Requests,
    Nonces,        \* session nonces as they are written
    Credentials,   \* the static map: [commitment -> [commitment, mask, expiry]]
    Configs,       \* deployments: [devMode, binding, minScore, store], and what is
                   \* explored in each: callers (requests), calls [method, tool, bundle]
    Implies,       \* cumulative encoding: permissions that imply others
    MaxTime,       \* bound: seconds explored
    MaxRuns        \* bound: starts of a process

Shared == "redis"

Presented == (UNION {{p.bundle : p \in c.calls} : c \in Configs}) \ {None}

ASSUME GatewayConstants ==
    /\ Instances # {} /\ Shared \notin Instances
    /\ MaxProofAge \in Nat \ {0} /\ MaxRuns \in Nat \ {0}
    /\ None # "forwarded" /\ None \notin DOMAIN Policies
    /\ \A b \in Presented :
          b.nonce \in Nonces /\ b.stamp \in Nat /\ b.hops \in Seq(ToSet(b.hops))
    \* The session is the number that the nonce, a string, reads as (toBigInt takes
    \* leading zeros); the stamp is the upper half of that number.
    /\ \A b, c \in Presented : /\ b.nonce = c.nonce => b.session = c.session
                              /\ b.session = c.session => b.stamp = c.stamp
    \* What the Delegation circuit makes a genuine hop prove.
    /\ \A b \in Presented : \A i \in DOMAIN b.hops : b.hops[i].genuine =>
          b.hops[i].scope \subseteq (IF i = 1 THEN b.proves.mask ELSE b.hops[i - 1].scope)
    \* createGatewayMiddleware: static credentials bind in either mode.
    /\ \A c \in Configs : c.devMode \/ c.binding
    /\ \A c \in Configs :
          c.callers \subseteq Requests /\ IsFiniteSet(c.callers) /\ c.minScore \in Nat

VARIABLES
    config,      \* the deployment, fixed at start
    now,         \* unix seconds
    nonces,      \* per store and nonce: when the mark is forgotten
    gateways,    \* per process: the run it is in, its chain, receipts not yet written
    requests,
    signed,      \* per process and run: what its chain signed, in order
    delivered    \* what reached the place where receipts are collected

vars == <<config, now, nonces, gateways, requests, signed, delivered>>

Runs == 1 .. MaxRuns
NewProcess(run) == [run |-> run, chain |-> Genesis, pending |-> {}]
NewRequest == [phase |-> "new", at |-> None, run |-> 0, method |-> None, tool |-> None,
               bundle |-> None, credential |-> None, marked |-> None, context |-> Failed,
               outcome |-> None]

Init ==
    /\ config \in Configs
    /\ now = 0
    /\ nonces = [s \in Instances \cup {Shared} |-> [n \in Nonces |-> 0]]
    /\ gateways = [g \in Instances |-> NewProcess(1)]
    /\ requests = [q \in Requests |-> NewRequest]
    /\ signed = [g \in Instances |-> [run \in Runs |-> <<>>]]
    /\ delivered = {}

-----------------------------------------------------------------------------
(* Decisions and their receipts.                                           *)

\* What the receipt says: the verdict the caller gets, not that of the
\* verification alone.
RecordedIfVerified(context, outcome) == context.verified
Recorded(context, outcome) == outcome = "forwarded"

\* Sign and hand to the writer; when signing fails, an unsigned record is.
WriteReceipt(q, g, body) ==
    \/ /\ gateways' = [gateways EXCEPT
              ![g].chain = Advanced(@, body, "gateway"),
              ![g].pending = @ \cup {Link(gateways[g].chain, body, "gateway")}]
       /\ signed' = [signed EXCEPT
              ![g][gateways[g].run] = Append(@, Link(gateways[g].chain, body, "gateway"))]
    \/ /\ gateways' = [gateways EXCEPT ![g].pending = @ \cup {[unsigned |-> body]}]
       /\ UNCHANGED signed

\* Every decision about a tool call is recorded, in the tick that takes it.
Decide(q, r, outcome) ==
    /\ requests' = [requests EXCEPT ![q] = [r EXCEPT !.phase = "done", !.outcome = outcome]]
    /\ IF r.method = "call"
       THEN WriteReceipt(q, r.at, [by |-> q, allowed |-> Recorded(r.context, outcome)])
       ELSE UNCHANGED <<gateways, signed>>
    /\ UNCHANGED <<config, now, delivered>>

\* The credential of a bundle, from the static map: looked up by the development
\* binding, and resolved, unless it has no expiry or is past it, by the
\* production verifier.
Registered(b) == b.commitment \in DOMAIN Credentials
Resolved(b) ==
    IF Registered(b) /\ Credentials[b.commitment].expiry # None /\ Credentials[b.commitment].expiry > now
    THEN Credentials[b.commitment] ELSE None

Cumulative(mask) == \A p \in mask \cap DOMAIN Implies : Implies[p] \subseteq mask
NotAfter(expiry, limit) == limit = None \/ expiry <= limit

LeafInGrant(b, grant) ==
    \A i \in DOMAIN b.hops : b.hops[i].decimal /\ b.hops[i].expiry > now
\* checkCredentialBinding, hop by hop.
HopsBound(b, grant) ==
    \A i \in DOMAIN b.hops :
        LET hop == b.hops[i]
            scope == IF i = 1 THEN grant.mask ELSE b.hops[i - 1].scope
            limit == IF i = 1 THEN grant.expiry ELSE b.hops[i - 1].expiry
        IN  /\ hop.decimal /\ Cumulative(hop.scope)
            /\ hop.expiry > now /\ NotAfter(hop.expiry, limit)
            /\ hop.scope \subseteq scope

CredentialBound(b, context) ==
    /\ Registered(b)
    /\ LET grant == Credentials[b.commitment]
       IN  /\ grant.expiry # None => grant.expiry > now
           /\ b.claimed = grant.mask
           /\ HopsBound(b, grant)
           /\ context.permissions \subseteq grant.mask

\* A tools/call whose name is missing has no policy to meet.
Outcome(method, tool, b, context) ==
    IF ~context.verified THEN "unauthorized"
    ELSE IF config.devMode /\ config.binding /\ ~CredentialBound(b, context) THEN "unauthorized"
    ELSE IF method = "call" /\ tool # None /\ ~PolicyAllows(tool, context) THEN "forbidden"
    ELSE "forwarded"

-----------------------------------------------------------------------------
(* A request.                                                              *)

\* In development the score is settled before the nonce is marked.
Judged(b) == IF config.devMode THEN DevContext(b, now, config.minScore) ELSE Failed

\* The methods of the handshake pass; a header that is missing or does not
\* parse, and a bundle that is refused before its nonce is looked at, do not.
Arrive(q, g, p) ==
    LET r == [NewRequest EXCEPT !.at = g, !.run = gateways[g].run, !.method = p.method,
                                !.tool = p.tool, !.bundle = p.bundle]
        credential == IF config.devMode THEN None ELSE Resolved(p.bundle)
    IN  /\ requests[q].phase = "new"
        /\ UNCHANGED nonces
        /\ \/ p.method = "exempt" /\ Decide(q, r, "forwarded")
           \/ p.method # "exempt" /\ p.bundle = None /\ Decide(q, r, "unauthorized")
           \/ /\ p.method # "exempt" /\ p.bundle # None
              /\ RefusalBeforeMark(config.devMode, p.bundle, credential) # "ok"
              /\ Decide(q, r, "unauthorized")
           \/ /\ p.method # "exempt" /\ p.bundle # None
              /\ RefusalBeforeMark(config.devMode, p.bundle, credential) = "ok"
              /\ requests' = [requests EXCEPT ![q] =
                     [r EXCEPT !.phase = "verifying", !.credential = credential,
                               !.context = Judged(p.bundle)]]
              /\ UNCHANGED <<config, now, gateways, signed, delivered>>

Store(g) == IF config.store = "redis" THEN Shared ELSE g
RetentionOfProof(b) == b.stamp + MaxProofAge
Retention(b) == now + MaxProofAge

\* markIfFresh: one command of the shared store, one synchronous stretch of the
\* process's own. The shared one may be unreachable, before or after it has
\* marked; then verifyBundle throws. What is marked is the nonce as it is written,
\* what the proofs are about is the number.
MarkIfFresh(q) ==
    LET r == requests[q]
        s == Store(r.at)
        marks == [nonces EXCEPT ![s][r.bundle.nonce] = Retention(r.bundle)]
    IN  /\ r.phase = "verifying"
        /\ \/ /\ nonces[s][r.bundle.nonce] <= now
              /\ nonces' = marks
              /\ requests' = [requests EXCEPT ![q].phase = "marked", ![q].marked = now]
              /\ UNCHANGED <<config, now, gateways, signed, delivered>>
           \/ /\ nonces[s][r.bundle.nonce] > now
              /\ Decide(q, [r EXCEPT !.context = Failed], "unauthorized")
              /\ UNCHANGED nonces
           \/ /\ s = Shared
              /\ nonces' \in {nonces} \cup (IF nonces[s][r.bundle.nonce] <= now THEN {marks} ELSE {})
              /\ Decide(q, [r EXCEPT !.context = Failed], "unauthorized")

Finish(q) ==
    LET r == requests[q]
        context == IF config.devMode THEN r.context
                   ELSE ProductionContext(r.bundle, now, config.minScore, r.credential)
    IN  /\ r.phase = "marked"
        /\ Decide(q, [r EXCEPT !.context = context], Outcome(r.method, r.tool, r.bundle, context))
        /\ UNCHANGED nonces

-----------------------------------------------------------------------------
(* The writer, the clock and restarts.                                     *)

\* A record reaches the collected log, or is lost to a full disk or a webhook
\* that fails.
Write(g, e) ==
    /\ e \in gateways[g].pending
    /\ gateways' = [gateways EXCEPT ![g].pending = @ \ {e}]
    /\ delivered' \in {delivered, delivered \cup {e}}
    /\ UNCHANGED <<config, now, nonces, requests, signed>>

Tick ==
    /\ now < MaxTime
    /\ now' = now + 1
    /\ UNCHANGED <<config, nonces, gateways, requests, signed, delivered>>

\* What was in the memory of the process is gone.
Restart(g) ==
    /\ gateways[g].run < MaxRuns
    /\ gateways' = [gateways EXCEPT ![g] = NewProcess(@.run + 1)]
    /\ nonces' = [nonces EXCEPT ![g] = [n \in Nonces |-> 0]]
    /\ requests' = [q \in Requests |->
           IF requests[q].at = g /\ requests[q].phase \in {"verifying", "marked"}
           THEN [requests[q] EXCEPT !.phase = "done", !.outcome = "dead"] ELSE requests[q]]
    /\ UNCHANGED <<config, now, signed, delivered>>

Next ==
    \/ \E q \in config.callers :
        \/ \E g \in Instances, p \in config.calls : Arrive(q, g, p)
        \/ MarkIfFresh(q) \/ Finish(q)
    \/ \E g \in Instances : Restart(g) \/ \E e \in gateways[g].pending : Write(g, e)
    \/ Tick

Spec == Init /\ [][Next]_vars

-----------------------------------------------------------------------------
(* Correctness.                                                            *)

Kept(e) == IF IsReceipt(e) THEN e.receipt.payload.body ELSE e.unsigned
Unwritten == UNION {gateways[g].pending : g \in Instances}
SignedReceipts == UNION {UNION {ToSet(signed[g][run]) : run \in Runs} : g \in Instances}
Records == delivered \cup Unwritten \cup SignedReceipts
Authenticated(q) == requests[q].outcome = "forwarded" /\ requests[q].method # "exempt"

\* What an auditor may be handed: what was delivered in some order, parts of it
\* missing or repeated, with at most one receipt edited after it was signed,
\* given another convenience hash, signed by somebody else or of the time before
\* chains.
Tampered(e) ==
    {[e EXCEPT !.receipt.payload.body.allowed = ~@], [e EXCEPT !.stored = "differs"],
     Envelope(Signed(Kept(e), e.receipt.payload.chain, "another"), "agrees"),
     Envelope(Signed(Kept(e), {}, "gateway"), "agrees")}
Altered(log) ==
    UNION {{[log EXCEPT ![i] = e] : e \in Tampered(log[i])} : i \in {k \in DOMAIN log : IsReceipt(log[k])}}
Handed ==
    LET logs == SeqOf(delivered, Cardinality(config.callers))
    IN  logs \cup UNION {Altered(log) : log \in logs}
OfGateway == [NoOptions EXCEPT !.signer = {"gateway"}]

Settled ==
    /\ \A q \in config.callers : requests[q].phase = "done"
    /\ \A g \in Instances : gateways[g].pending = {}

\* chain.ts promises that losing, editing, reordering or splicing receipts shows.
\* With everything settled, a log that verifies under the gateway's key is the
\* beginning of what one run of one process signed, and every such beginning
\* verifies; with the count and the head of that run, only the whole does. A
\* receipt lost by the writer, a restart's new chain and a call's unsigned
\* record all leave logs that do not.
LogCleanIffPrefix ==
    Settled =>
    \A log \in Handed :
        /\ Verifies(log, OfGateway) <=>
              \E g \in Instances, run \in Runs : IsPrefix(log, signed[g][run])
        /\ \A g \in Instances, run \in Runs :
              LET whole == signed[g][run]
                  expected == [OfGateway EXCEPT !.count = {Len(whole)}, !.head = LastLink(whole)]
              IN  whole # <<>> => (Verifies(log, expected) <=> log = whole)

\* proxy.ts records the final verdict, the tool policy's included: a record is
\* about a decided tool call, says allowed exactly when the call was forwarded,
\* and no call has two that differ.
TruthfulRecords ==
    \A e \in Records :
        LET body == Kept(e)
        IN  /\ requests[body.by].method = "call" /\ requests[body.by].phase = "done"
            /\ body.allowed <=> requests[body.by].outcome = "forwarded"
            /\ \A f \in Records : Kept(f).by = body.by => f = e

\* What an auditor may rely on: the log's completeness and its records' truth.
LogTruthful == LogCleanIffPrefix /\ TruthfulRecords

\* Two authenticated requests of one session that were forwarded by gateways with
\* one nonce store, the first marked no later than the second; a restart empties
\* the store of a process.
Twice(q1, q2) ==
    LET r1 == requests[q1]
        r2 == requests[q2]
    IN  /\ Authenticated(q1) /\ Authenticated(q2) /\ q1 # q2
        /\ r1.bundle.session = r2.bundle.session /\ r1.marked <= r2.marked
        /\ config.store = "redis" \/ (r1.at = r2.at /\ r1.run = r2.run)

\* A nonce is kept, as it is written, from the moment it is marked, the age of the
\* proof counts from its stamp. Two forwarded requests of one session are
\* MaxProofAge apart, unless they write its nonce differently; and where the
\* minimum score asks for a fresh nonce there is at most one of each writing,
\* except that production may mark a nonce whose stamp is still to come and judge
\* it when it has, and development judges a nonce fresh and marks it when it no
\* longer is.
ReplayBounded ==
    \A q1, q2 \in Requests :
        LET r1 == requests[q1]
            r2 == requests[q2]
        IN  Twice(q1, q2) =>
                \/ r1.bundle.nonce # r2.bundle.nonce
                \/ /\ r2.marked - r1.marked >= MaxProofAge
                   /\ config.minScore > 90 =>
                         IF config.devMode THEN r2.marked >= r2.bundle.stamp + MaxProofAge
                         ELSE r1.marked < r1.bundle.stamp

\* Binding, verification and tool policy together: a call that was forwarded
\* belongs to a registered credential, and what its tool requires was held by
\* that credential and by every delegatee down the chain, in development, where
\* nothing is proved, as in production.
ForwardedWithinGrant ==
    \A q \in Requests : Authenticated(q) /\ config.binding =>
        LET r == requests[q]
            grant == Credentials[r.bundle.commitment].mask
            needed == IF r.method = "call" /\ r.tool \in DOMAIN Policies
                      THEN Policies[r.tool].require ELSE r.context.permissions
        IN  /\ Registered(r.bundle)
            /\ needed \subseteq grant
            /\ \A i \in DOMAIN r.bundle.hops : needed \subseteq r.bundle.hops[i].scope
=============================================================================
