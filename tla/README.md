# Bolyra in TLA+

Bolyra lets a service check that an agent's action was authorised: an operator
(or a human, in zero knowledge) binds a credential to an agent, the agent
presents it with each action, and verifiers decide, guard against replay, keep
receipts and honour revocation. This directory models the parts of the
repository that keep state - registries, nonce stores, gates - and checks and
proves what they have to guarantee when callers overlap, processes die, clocks
disagree and messages are lost.

Paths below are relative to the root of the repository.

## 1. The system

| Component | Where | State it keeps | Operations |
|---|---|---|---|
| Tenant registry | `integrations/hosted-verify/src/registry.ts` | one SQLite database per tenant (`credentials`, `history`, `schema_meta`) in a Durable Object, and a latched schema error | constructor and migration, `register`, `revoke`, `repairHistory`, `status`, `get`, `registryHealth` |
| Hosted-verify Worker | `integrations/hosted-verify/src/index.ts`, `tenants.ts`, `deadlines.ts` | none of its own; the `TENANTS` secret | `POST /v1/verify`, register, revoke, repair and health routes |
| On-chain registry | `contracts/contracts/IdentityRegistry.sol` | two LeanIMT trees, a ring buffer of roots for each, used nonces and nullifiers, the state of each delegation chain | enrolment (single and batch), revocation, `verifyHandshake`, `verifyDelegation` |
| Circuits | `circuits/src/*.circom` | none | what a proof of humanness, of an agent's policy, of a delegation states |
| Payment gate | `integrations/mpp-payments/src/gate.ts` | receipt chain, stash of decisions | `preflight` and `verify` hooks of an mppx method |
| x402 authorization | `integrations/payment-protocols/src/x402-evc.ts`, `x402-issuer-quote`, `x402-local-challenge.ts` | none of its own; the nonce store of its host | `verifyX402EvcAuthorization`, the issuer-quote resolver, `x402LocalChallenge` |
| Gate nonce store | `integrations/mpp-payments/src/nonces.ts` | a bounded in-memory map of reservations, a sweep cursor | `reserve` |
| `bolyra verify` replay store | `integrations/cli/src/verify/nonce-store.ts` | a directory with a file per nonce, shared by processes | `markIfFresh` |
| `bolyra verify` verdict | `integrations/cli/src/verify` | uses the replay store | one verdict; in host mode a verdict and what its caller has to consume |
| Classical verdicts | `integrations/hosted-verify/src/verify`, `integrations/mpp-payments/src/classical.ts`, `bundle.ts` | none | two more ports of the same algorithm, which trust the operator's signature and no proof |
| Mandates and tiers | `integrations/mpp-payments/src/issue.ts`, `tiers.ts` | none | issue a presentation, map amounts to capabilities |
| Reference hosts | `spec/reference-host.js`, `spec/reference-host-rs` | a file of reserved nonces, shared by processes | spawn a verifier, supervise it, read its verdict, reserve, act |
| Approvals | `integrations/receipts/src/approval.ts` | the operator's claim store | `createApprovalReceipt`, `executeApproved`, observations, `verifyApprovalExecutionLink` |
| Receipt chain | `integrations/receipts/src/chain.ts`, `sign.ts` | the next link of a signer | sign, `verifyReceiptChain` |
| MCP middleware | `integrations/mcp/src/verify.ts`, `nonce-store.ts` | a nonce store | `verifyBundle`, `checkToolPolicy` |
| Gateway | `integrations/gateway/src` | credential map, nonces in Redis or in memory, a receipt chain | an authenticating proxy in front of an MCP server |
| SDK | `sdk/src` | `OffchainBatch`: sessions and a cached root | proofs, handshakes, batches |
| Delegation receipts | `delegation/src` | the issuer's status list | `allow`, `present`, `setStatusBit`, `publishStatusList`, `verify` with its v0.1 path |
| Health probe | `integrations/hosted-verify/src/health-probe.ts` | the cached probe of an isolate | `cachedProbeRegistry` |

How they interact. The Worker makes one RPC to the registry object of the
caller's tenant per credential request, and races the RPC of the verify route
against a deadline. The payment gate asks an external verifier (a command, a
URL or an in-process function; the hosted Worker and `bolyra verify` are two),
reserves the nonces the verdict names in its own store, and answers with a
signed receipt. The x402 authorization of the same host asks a payee resolver and the
same verifiers, and reserves the challenge, the quote and the verdict's nonces in the
same store. `bolyra verify` marks the nullifiers of a presentation one after
another in a replay directory, or, in host mode, names them to its caller. The
gateway calls `verifyBundle` of the MCP middleware, which marks the session
nonce in a store the gateway supplies; the gateway then binds the bundle to a
registered credential, applies its tool policy, links a receipt into its chain
and hands it to a writer. A reference host gives its standard input to a verifier
it spawns, such as `bolyra verify --nonce-mode host`, and acts on the verdict after
it has reserved the nonces the verdict names in its file. `executeApproved` claims a `once` approval in a store
the operator supplies. The contract accepts proofs that clients make against
roots it has recorded; `postBatchRoot` sends it the root of a batch. An issuer hands
receipts to agents and publishes a signed list of what it revoked; a shop resolves the
issuer's key, fetches the list and calls `verify`. The health route reads the registry
through a probe that its callers share.

What is hard, and what each part has to get right:

- *Tenant registry.* A revocation is two transactions, so that a failure of the
  audit row never prevents the revocation. Between them and after them come
  failures, evictions, retries, a rolled-back build, rows inserted by hand, and
  callers whose clocks disagree. The audit row must be written or owed, never
  lost or doubled; revocation is terminal; the cap holds.
- *Worker.* RPCs are lost, late, retried or never answered, while secrets are
  rotated. What clients were told has to agree with what is stored.
- *Contract.* Ring buffers, chain state per session, replay of proofs between
  sessions, and a timestamp that the prover chooses.
- *Payment gate.* Invocations overlap around the await of the verifier with
  instants sampled before it; signers, sinks and stores fail after a nonce was
  reserved.
- *x402 authorization.* An attempt waits for a resolver, a verifier and a store and
  reads its clock between them; the challenge, the quote and the mandate lapse at
  different times, a header may be received twice, and what goes to settlement must be
  what the issuer signed.
- *Replay store and verdict.* Several processes run the same sequence of file
  operations, are killed anywhere, an entry may be unreadable to one of them, and a
  prune runs among them; a verdict spends
  up to five nullifiers, one at a time, and may be refused between any two.
- *Approvals.* The clock, the store, the process and the signature may each fail
  after the claim was stored; an approval is shown to several executors in
  several letter cases; a link is checked years later from two files.
- *Gateway.* The nonce is marked between two halves of a verification that each
  read the clock, the age of a proof is counted from its stamp and the life of
  its mark from the marking; receipts are delivered after the answer, or not at
  all; a restart empties what the process remembered.
- *Verdicts.* The same algorithm is written three times; each has to refuse what
  no operator signed, and they must not drift apart.
- *Reference hosts.* A verifier may hang, flood, die, print anything or leave its
  output held by a descendant; the file of nonces is rewritten in place.
- *SDK batch.* `add` and `getMerkleRoot` read the batch before an await and write
  it after.
- *Delegation receipts.* A receipt bound to its holder must be of use to nobody else,
  in any shape; it may expire or be revoked while the verifier waits for a key or for
  the list; and the refusal has to name the cause.
- *Health probe.* A probe that fails late must not evict its successor, nor a failure
  be told after it has passed.

`PROJECT.json` lists every component and every hazard at its line.

## 2. Modules

| Module | Models | Uses |
|---|---|---|
| `RevocationLedger` | abstract: what a tenant's registry promises about revocation | |
| `TenantRegistry` | `registry.ts` | implements `RevocationLedger` |
| `HostedVerify` | `index.ts`: concurrent requests in front of the registry | extends `TenantRegistry` |
| `HostedVerifyProofs` | theorems about `TenantRegistry`: types, audit, history, cap, terminal revocation, answers, debts, newer layouts, and that it implements `RevocationLedger`; and about what the Worker tells its clients | |
| `IdentityRegistry` | `IdentityRegistry.sol` with the statements of three circuits | |
| `NonceGuard` | abstract: what a host's nonce store promises | |
| `NonceStore` | `nonces.ts` | implements `NonceGuard` |
| `PaymentGate` | `gate.ts`: overlapping invocations over the store | extends `NonceStore` |
| `X402Quotes` | what an issuer-signed quote, a local challenge and a checked leg are: `x402-issuer-quote`, `x402-local-challenge.ts`, helpers of `x402-evc.ts` | |
| `X402Evc` | `x402-evc.ts`: attempts beside the gate's invocations, over its store | extends `PaymentGate`, `X402Quotes` |
| `X402EvcProofs` | theorems about the store, the gate and x402 over it, and the resolver | extends `VerdictProofs` |
| `FileNonceStore` | `cli/src/verify/nonce-store.ts` | |
| `Verdicts` | the cascades of checks all verifiers are: the first that fails is the answer | |
| `VerdictProofs` | the lemmas that say so for every cascade, and for cascades put together | |
| `VerifyCommand` | `cli/src/verify/core.ts`, `delegation.ts`, `binding.ts` | extends `FileNonceStore`, `Verdicts` |
| `VerifyCommandProofs` | theorems about the replay store and the verifications over it | extends `VerdictProofs` |
| `Presentations` | what a presentation is and how mandates are issued: `issue.ts`, `tiers.ts` | |
| `HostedPort` | the verdict of `hosted-verify/src/verify` | extends `Presentations`, `Verdicts` |
| `InProcessPort` | the verdict of `mpp-payments/src/classical.ts` | extends `Presentations`, `Verdicts` |
| `CommandPort` | the verdict of `cli/src/verify`, proofs and delegation included | extends `Presentations`, `Verdicts` |
| `VerifierHost` | the reference hosts around the command | extends the three ports |
| `VerifiersProofs` | theorems about `IdentityRegistry` (the rings of roots, the chains, what is accepted) and about `VerifierHost` with its ports (the file of nonces, what is allowed, how the ports agree) | extends `VerdictProofs` |
| `ApprovalExecution` | `receipts/src/approval.ts` | extends `Verdicts` |
| `ApprovalExecutionProofs` | theorems about `ApprovalExecution` | |
| `ReceiptChain` | `receipts/src/chain.ts` and the part of `sign.ts` it relies on | |
| `McpVerify` | `mcp/src/verify.ts` | extends `Verdicts` |
| `Gateway` | `gateway/src`: `proxy.ts`, `middleware.ts`, `credential-binding.ts`, `receipt-signer.ts`, `receipts.ts`, the nonce stores | extends `McpVerify`, `ReceiptChain` |
| `GatewayProofs` | theorems about the gateway and its receipts | extends `VerdictProofs` |
| `OffchainBatch` | `sdk/src/offchain.ts` | |
| `DelegationReceipts` | `delegation/src` | extends `Verdicts` |
| `HealthProbe` | `hosted-verify/src/health-probe.ts` | |
| `LibrariesProofs` | theorems about `DelegationReceipts`, `OffchainBatch` and `HealthProbe` | extends `VerdictProofs` |
| `MCLibraries` | one instance of the last three, which share nothing: `world` chooses which of them a behaviour is of | |
| `MC*` | instances for TLC: values of constants, symmetry, views | |

Operators whose name is that of a definition of the specification with a
suffix (`ConstructAnyVersion`, `RecordedIfVerified`, ...) are variants with a plausible
mistake. No specification uses them; each is there because one property fails
when it takes the place of the definition it varies.

### 2.1 TenantRegistry

Every method of the Durable Object is synchronous, so a method is one action,
and the object's input gate admits no other call in between. A method's
transactions commit or roll back as a whole: the Boolean parameters of an
action say which of them the storage lets commit. `version` is
`schema_meta.version` (0 for an empty database), `object` whether an instance
is running and whether it latched a schema error, `credentials` and `history`
the two tables, `reply` what the last call returned. The environment may evict
the instance, migrate the database with a newer build (only while no instance
runs), or insert a `revoked` row by hand for an id in `ForeignIds`. A tenant
starts with no database or with one that a version-1 build left.

Abstracted: keys, digests and policies are one `binding` per credential;
`get` and `registryHealth` read what `status` and the constructor model; input
validation (`invalid_input`) is left out, for it reads no state.

`RevocationLedger` is the promise: an id is registered, revoked once, and the
event that revoked it is recorded now or later, unaltered. In the refinement the
event of a revoked credential is the pending metadata while it owes its row and
what the row carries after that.

### 2.2 HostedVerify

One record per HTTP request: `Arrive` runs `authorize` (configuration, then
authentication, quarantine and role) and the checks that need no registry;
`Execute` is the object running the method, at any time after the call was
made, also after the caller has given up; `Respond` turns the outcome into the
route's answer; `TransportFails` is an RPC that throws in the Worker;
`Deadline` the timer of the verify route. `acked` records what responses have
acknowledged; of a request that arrives, `before` records what had been acknowledged
and `found` where the registry stood on its credential (absent, active or revoked).
That standing only moves on, so that `VerdictMatchesRegistry` can say, with `found` and
the tables at the end, that what an answer tells was so at some moment in between, and
still is where it cannot be taken back. A request is also its own request id in the audit row.

### 2.3 IdentityRegistry

A transaction is an action; a revert changes nothing and is no step, so the
guard is the conjunction of all checks. Poseidon and Groth16 are idealised: a
commitment is the record it hashes, a root is the sequence of leaves (LeanIMT's
root of a single leaf is that leaf), and the verifier contract accepts exactly
the statements of the circuit (`HumanProof`, `AgentProof`, `DelegationProof`).
Clients may submit any true statement about any root that was ever current, for
any nonce and any time they like. `roots` and `accepted` record the events the
contract emits; the properties compare the contract's state with them.

### 2.4 NonceStore, PaymentGate and X402Evc

`reserved` is the `Map` in insertion order and `sweepIter` the position of its
live iterator; deletions before the iterator shift it and an entry set again
moves to the end, as the iterator of a JavaScript `Map` sees it. `reserve` has
no await, so a call is an action: bounded sweep, replay check, full sweep when
the call would not fit (skipped at or below `lastFullSweepAt`), capacity check,
insertion. The instants of calls lag the clock by up to `LAG` in any order,
for a caller samples its clock before it awaits the verifier.

In `PaymentGate` the code between two awaits is an action: `Preflight` (the
clock is sampled, the presentation parsed; early denials), the verdict
(`Refuse`, `VerifierTimeout`, `ReserveStep`, `AllowWithoutNonces`), and `Settle`
(the allow receipt). A denial signs and delivers a receipt, either of which may
fail; `DenyWith` and `Allow` follow the code through each failure. The receipt
of an allow and the stash that follows it are one action, because only a return
lies between them. The delivery of a receipt is the sink's synchronous return.
`Discover` is `enforce: "payment"` with no credential.

`X402Evc` runs attempts of `verifyX402EvcAuthorization` beside the invocations of
the gate. `Receive` builds a local challenge; `Enter` is the code up to the first
await, with the host's mode (a challenge context or a local challenge; a resolver or
a policy for the payee), `Resolve` what follows the resolver's answer, `Dispatched`
what follows the verifier's, the reservation included, and `Complete` what follows
the store's; `Misconfigure`, `Fail` and `VerifierDenies` are the other ends. Each
reads the clock where the code does, and time may pass between any two. The verdict
names the mandate's nonce until it expires, the same nonce twice, or none
(`Named`). The caller may hand over an edited local challenge (`HandedOver`). In
`X402Quotes` a leg carries a set of at most one token, a signature is the key that
made it, and `extra` and the claims are functions of their paths.

`GStart` and `XStart` leave the processes that a behaviour does not use idle.

`NonceGuard` is the promise that the External Verifier Contract asks of a host:
what is granted is held until the time stated for it, and what is held is not
granted again.

### 2.5 FileNonceStore

Each file-system operation of `markIfFresh` is an action, and between two of
them other calls run, time passes, an operation fails or the process is killed
(`Crash`; its files stay). An operation that writes or links throws when it fails
(`Fail`). A read that fails does not: `readExpiry` answers what it answers for a missing
file, so that a prune leaves the entry (`PruneRead`), `Read` goes on to the lock whether
or not the entry is live, and `Recheck` under the lock lets a live entry be replaced,
which `misread` remembers. The listing of the directory and the reading of the
clock in `pruneExpired` are one step; the prune's reads and removals of
different keys interleave, as its `Promise.all` does. Temporary files are left
out: their names are unique and no call reads another's. A file whose bytes were never
flushed before the machine went down is not modelled: an
empty one reads as an entry that expired long ago.

### 2.6 VerifyCommand

A verification is a process: `Begin` samples the clock (`skew` is how far the
request's `now_unix` is from the machine's) and runs the checks up to the
delegation; `Burn` calls `markIfFresh` for the next nullifier of `Plan` (the hops
on the way, then the agent's, then the human's), `StoreStep` is a step of that
call in `FileNonceStore`, `Resume` what follows its answer, up to the next
nullifier or the verdict, and `Kill` the end of the process. In host mode nothing
is burned and the verdict carries what to consume. A request is a record whose
`flaws` name the checks it fails: which one refuses, and that it comes before or
after which mark, is the model's; that a given proof fails one is the input's.
`workload` is what the processes of a behaviour are given.

### 2.7 ApprovalExecution

`executeApproved` is synchronous up to the dispatch, and its calls of the
operator's store are not its own, so its steps are `Prepare` (steps 1 to 4 and
the first clock reading, as a cascade), `Consume` (the claim: granted, refused,
or stored with an answer that is lost), `Dispatch` (the second reading and the
call) and `Settle` (the observation), with `Crash` between any two. `Params`
enumerates every argument text, context, envelope, clock reading and observer;
envelopes include the signed ones in other letter cases, malformed, and with the
payload of one under the signature of another. `Claim` is on
signer and payload, `ReceiptHash` on the envelope as it stands: that difference
is what two of the properties are about. `LinkChecks` is the table A1 to L4.

### 2.8 ReceiptChain, McpVerify and Gateway

`ReceiptChain` is what a signer keeps and what `verifyReceiptChain` finds wrong
with a log, as sets of issues. `McpVerify` is `verifyBundle` in two halves around
the mark of the nonce, each an operator of the bundle, the credential and the
clock, and the policy of a tool. `Gateway` puts them to work: a request arrives
(`Arrive`: the header, the first half, development scores), marks its nonce
(`MarkIfFresh`, in the store all processes share or in the process's own; the
shared one may fail before or after it marked; what is marked is the nonce as the bundle
writes it, what is checked is its number, `session`, which several texts may write) and is decided (`Finish`: second
half, credential binding, tool policy, forwarding and the receipt, between which
the code awaits nothing that others can see). `Write` delivers or loses a pending
receipt, in any order; `Restart` ends a process and its requests in flight and
starts the next run with a new chain; `Tick` passes a second. `config` is the
deployment: mode, binding, minimum score, store. The credential of a production
bundle is resolved once, when it arrives, as in the code.

### 2.9 OffchainBatch

`Add` and `Push` are `add` before and after its await, `AskRoot` and `CacheRoot`
`getMerkleRoot`, alone or inside `postBatchRoot`, whose transaction is `Send` and
`Confirm`. Hashing is ideal, so that a root is the tree it is the root of and the
inclusion proof of an index verifies exactly for the leaf at that index. Calls are
numbered as they are made, and `Sessions` says what the n-th of them would add.

### 2.10 Presentations, the three ports and VerifierHost

A presentation is a record: the credential (operator, model, permissions,
expiry), the commitment its scope signal carries, the signed binding and the
signature with what it is over, the root, session and nullifier of the proof, a
human's slot, the hops of a delegation, and `flaws`, the structural checks it
fails. Each port is a cascade of checks, in the order and with the answer codes
of its source; `FirstRefusal` is what it answers. Permissions are sets and a valid
cumulative set is one closed downwards, as `validateCumulativeBitEncoding` has it;
the host's clock is `now_unix`.

`VerifierHost` runs the hosts. A host is `Spawn`, the supervision of its verifier
(`Overflow`, `Timeout`, and `Decide` once the process has ended and its output is
closed), then `reserveAll` as three steps, `ReadStore`, `Truncate` and `Fill`
(the file is opened for writing, hence emptied, before it is written), and
`Act`. The verifier is a process with an output and an end, `Emit` and `Exit`;
it answers what `CommandVerdict` answers, and in a faulty scenario anything: no
output, garbage, two objects, an invalid one, a flood, a non-zero exit, a signal, a
descendant that keeps the output open (`held`). The two languages differ in what
a kill reaches (`Killed`: the child in JavaScript, its process group in Rust) and in
a failed write (`FailWrite`). `scenario` is what the hosts of a behaviour are given.
A read of the file that fails is one of an empty file in both languages (`ReadStore`, in a
faulty scenario). `disturbed` remembers whether a reservation overlapped another, ended
half way, or missed what the file held.

### 2.11 DelegationReceipts

A document is a header, claims and a signature; a signature is the key with what it is
over, a hash the document it is of. `Allow` and `AllowV01` are the issuer's two forms,
`Present` what a holder makes of the first, `SetStatusBit` and `PublishStatusList` its
list: `bitstring` is the packed bytes, `slots` what was asked for. `Serve` puts a
published list, an older one too, where the URI points.

`verify` is a process whose steps are the code between two awaits: `Begin` (the shape by
its tildes, the header, the early look at the expiry), `ResolveKey`, `VerifyJws` or, on
the v0.1 path, `TryKey` for one key after another, `CheckClaims` (claims, the holder's
proof, the need for a list, at one reading of the clock), `FetchList` and `ReadList`.
What is handed over is any receipt in any shape, with a part of it torn, altered (the
algorithm, the type, the key, the expiry, the permission), under any proof, and any of
the options. `scenario` is what the parties of a behaviour ask for. Left out: claims of a
wrong type in a document that its issuer signed, the encoding of keys, the aliases of the
options (`expectedAgent` and the like, which only the v0.1 path reads).

### 2.12 HealthProbe

`CachedProbeRegistry` is a call, which joins the cached probe or launches the next;
`Settle` the end of a probe, by an answer, a failure or its deadline, with the eviction
and the answers to all that wait for it, in which order the code registers them.

## 3. What the runs check

All bounds are constants of the `.cfg` files.

| Run | Question | Bounds, and why they are enough |
|---|---|---|
| `TenantAudit` | does revocation keep its audit promises, and does the object implement `RevocationLedger`? | one id (the methods never relate two ids except through the cap), two bindings, two requests, three clock values: a caller's clock can be before, at and after another's |
| `HostedVerify` | do answers agree with the registry? | three requests on one id: a request, its retry and an observer; four configurations |
| `Registry` | ring buffers, chain state, replay and expiry | buffers of two slots and five updates: both wrap twice, with a handshake and a hop at one moment made against every window; two sessions of one human, two hops each, proofs offered to either, block times up to and past an expiry at 1 with a skew of 1, few roots (`Explored` is the union of the two) |
| `Reservations` | does the store keep the promise of `NonceGuard`, and is every lapsed entry reclaimed? | two places for three nonces, a list of two, instants up to one second old, a budget of one entry per sweep |
| `Payments` | what do gate invocations and x402 attempts spend, tell and allow over one store? | three invocations, two attempts, or one of each; three places for two mandates and the challenges and quotes (so that the store fills), retentions within and past the horizon; quotes that live one second with a skew of two in a window of five, at instants up to two; 16 legs with one thing wrong, and the same quote under two headers |
| `FileMarks` | what do the replay store and the verdicts over it guarantee? | three processes with one presentation (a winner, one that sees its mark lapse, a third among them); two with lifetimes of one and two and clocks a second apart; two with a hop's, an agent's and a human's nullifier, flawed at the chain or at the scope, local and host; three clock values; any read of an entry may fail |
| `Approval` | is what is dispatched what was approved, once? | two executors, two approvals out of five inputs (once, with a deadline, denied, another context and arguments, outside the domain) by two signers, three clock values and a clock that fails |
| `Gateway` | replay, scope, truth and completeness of the log | five deployments, two or three requests, two runs of a process, proofs that live two seconds of four, nonces stamped now and in the future, two texts of one nonce |
| `Contract` | is what is allowed what was signed, do the ports agree, do hosts reserve once and always decide? | a mandate, an agent, a human and a chain of two hops, each with up to two edits (a flaw, or a changed signature, operator, expiry, permission, model, root, session, nullifier, hop) and seven requests: one edit is caught by one check, two show in which order; four deployments; one faulty host in each language and each mode, two on one file with one nonce in common |
| `Libraries` | which session does an index prove, and which sessions does a root cover? is what `verify` accepts what was granted and not revoked, and a refusal for its cause? is the probe single-flight, and what it tells current? | five calls of any kind: two adds that overlap, a root asked before and after, a posting; one verification in scenarios of terms (eight grants, twenty requests), shapes (every alteration and shape, two issuers), two receipts of one issuer, times (a clock that passes expiry, a holder's proof of one second, an issuer two seconds ahead) and statuses (two slots of one byte, six lists); four callers, a TTL of three and a deadline of one in six instants: a probe that fails after its successor |

`CHECK_DEADLOCK FALSE` stands where the system may stop: every invocation of the
gate, every mark, verification, attempt, request, host or call has ended and the clock
is at its bound. Symmetry is used for requests, ids, nonces, invocations, marks
and attempts, in runs of invariants (and of the one action property of
`Registry`), and only for values that the other constants do not tell apart. The views of the `MC` modules leave out
values that no later step reads and no property tells apart; each says which.
The invariants of types are checked in `TenantAudit`; the properties of the other
runs read every field of their states.

Two runs are expected to be violated; each confronts a sentence of the
repository with the code (the counterexamples are short and TLC prints them):

- `Redelegation`: a delegatee that holds less than its credential cannot
  delegate further, because `Delegation.circom` line 127 requires the previous
  commitment to carry the credential's own scope and expiry. C3.1 of
  `circuits/FORMAL-PROPERTIES.md` promises a proof.
- `PruneRace`: a prune that read a lapsed entry removes the fresh one that
  replaced it, and the key is won a second time, where `nonce-store.ts` line 63
  promises exactly one `true` and line 170 calls pruning no matter of correctness.
  It asks for rechecks that can read, so that the prune is the cause.

Smaller disagreements are visible in the models and have no run of their own:

- The gate's store may refuse for capacity while it holds a lapsed reservation,
  which an older decision inserted after the full sweep: `nonces.ts` line 212
  skips the sweep at or below its high-water mark, line 79 promises that lapsed
  entries never make it refuse.
- `nonce-store.ts` line 58 says that a live entry is a replay. A read of it that fails,
  for whatever reason, is taken for one of an expired entry (lines 99, 124 and 157), and
  a call that cannot read it before the lock nor under it replaces it and wins its key
  once more. `OverlapOnlyIfLost` in `FileMarks` says that this and the race of
  `PruneRace` are the only ways to lose a mark: while no prune has removed a key's file
  and every recheck could read its live entry, the link, the lock and the recheck under
  it suffice. `AllowedAgainOnlyPastExpiry` carries that up to the verdicts.
- The MCP verification marks a nonce as it is written and checks its number, leading
  zeros accepted (`mcp/src/verify.ts` lines 36-41 and 187): two bundles of one proof that
  write its nonce in two ways have two marks, where `mcp/src/types.ts` line 142 says that
  a used bundle is not accepted again within `maxProofAge`. `ReplayBounded` in `Gateway`
  says what holds: the bound, for each writing.
- The lock file of a killed reclaimer (`nonce-store.ts` line 114) refuses every
  later mark of its key, until somebody removes it.
- An undeliverable allow receipt is not the only host fault that spends a nonce
  (`gate.ts` line 502), for a signer that throws after the reservation does too
  (`Allow`).
- `IdentityRegistry.sol` line 447 never clears the flag of the zero root of a
  tree whose only leaf was cleared, which is harmless and the reason why
  `RootWindow` excepts it.
- `gateway/README.md` line 231 says that an unreachable Redis answers HTTP 500;
  the middleware's catch answers 401.
- `offchain.ts` lines 124 and 150 say a cached root is good until the next add; a
  computation that an add overtakes caches the older root after the add cleared
  the cache. `RootStaleOnlyIfOvertaken` (a part of `AnswersAccounted`) says exactly
  when; `IndexProvesSession` the same of the index that overlapping adds share. Both are
  proved for batches of any size.
- `x402-evc.ts` reserves a mandate's nonce at the instant read after the verifier
  answered, `gate.ts` at the decision instant it sampled before. While a verifier is
  awaited the mandate may lapse: the entry of an attempt before it is then swept and two
  attempts of one mandate may both be allowed, the second after the mandate's end,
  though line 697 says that a replayed presentation is refused. `NonceSpentOnce`
  says that the end of the stated time is the only way.

- The reference hosts rewrite their file of nonces in place, with nothing to
  exclude another host: two reservations that overlap may both succeed, a kill
  between the truncation and the write empties the file, and a host that cannot read it
  takes it for empty and writes it anew (`reference-host.js` line 188,
  `reference-host-rs/src/lib.rs` line 476), where
  `spec/external-verifier-contract-v1.md` line 524 asks that entries be inserted
  atomically. `OnceUnlessDisturbed` says that these three are the only ways.
- The JavaScript host kills its child only and waits until the output is closed,
  so that a descendant that holds it keeps the host from deciding, past its
  timeout; the Rust host kills the group. `DecidedUnlessHeldOpen` says exactly that.
- With no trusted operator the gate's port answers `internal_error`, the hosted one
  `untrusted_root`; the gate accepts a presentation without a nullifier, as its
  standing mandates need. `Alike` in `VerifierHost` lists these.

- On the v0.1 path of `verify` a required permission that is given as a label is
  dropped (`legacy-v01.ts` line 69), though `types.ts` line 293 says that labels and
  numbers are both resolved; an amount without a currency, or against a receipt without
  a cap, is not compared there, and is refused on the v0.2 path. Of several keys only the
  last one's error is told (line 167), so that an expired receipt may be told as forged.
  `Within` and `InOrder` say on which path which promise holds.
- `types.ts` line 29 says that a v0.2 receipt always carries a status slot; `allow` makes
  it optional, and `verify` then asks no list. The end of a list's own life (`exp`) is
  read (`status-list.ts` line 130) and never compared.

### Fairness

- `TenantRegistry!FairSpec`: storage faults are transient and whoever got a 204
  with the `x-bolyra-audit` header keeps asking for the repair, so a committing
  `RepairHistory` on a serving instance, and a committing `Construct`, are
  strongly fair (evictions and faults may come between any two tries); a latched
  instance is eventually evicted. Nothing is assumed of foreign rows or builds:
  the property excepts a conflict and a newer layout, which need a human.
- `NonceStore!NFairSpec`: time passes and calls arrive. Reclaiming is done by
  calls; an idle store reclaims nothing. The nonces and instants of the calls
  are not chosen fairly.

- `VerifierHost!HSpec`: a host goes on with whatever it can do, its timer included,
  because the operating system schedules it; a verifier that is not faulty prints
  and ends. Nothing is assumed of a faulty one, nor that a descendant ever closes
  what it holds.

That a verify request, an attempt or a gate invocation ends is not stated as a property:
with a fair timer it holds by the shape of the model.

## 4. What is proved

`HostedVerifyProofs` proves of the registry,
for every value of the constants that satisfies `ConstantsAssumption` (clock values are naturals, the cap is a natural number,
ids are finitely many, the legacy request id is not a caller's) and
`SentinelAssumption` (SQL NULL and a missing row are not values):

| Theorem | States |
|---|---|
| `TypeCorrect` | `Spec => []TypeOK` |
| `AuditNeverLost` | `Spec => []AuditOwedOrWritten` |
| `HistoryAlwaysConsistent` | `Spec => []HistoryConsistent` |
| `CapNeverExceeded` | `Spec => []CapRespected` |
| `RevocationIsTerminal` | `Spec => RevocationTerminal` |
| `AnswersAreTrue` | `Spec => []RepliesTruthful` |
| `DebtsAreKept` | `Spec => OwedNeverForgotten` |
| `NewerLayoutIsSafe` | `Spec => NewerLayoutUntouched` |
| `RegistryImplementsLedger` | `Spec => ImplementsLedger` |

These are all the properties of the run `TenantAudit` but the one that needs
fairness, and the cap, which no run checks.

It proves the three properties of the run `HostedVerify` too, from the
same assumptions and `RouteAssumption` (every id has a binding and an expiry, and a
configuration loads or not, is disabled or not and trusts some ids):

| Theorem | States |
|---|---|
| `RevocationHeard` | `HSpec => []NoActiveAnswerAfterRevocation` |
| `WritesStored` | `HSpec => []AcknowledgedWritesStored` |
| `VerdictsMatchRegistry` | `HSpec => []VerdictMatchesRegistry`, of the answers of all four routes |

`VerifiersProofs` proves the four properties of the run `Registry`, from
`RegistryAssumption` (sizes are naturals, the history has a slot, zero is nobody's leaf,
and a leaf is no inner node, which is what the collision resistance of Poseidon and its
separate arities give):

| Theorem | States |
|---|---|
| `WindowHolds` | `Spec => []RootWindow` |
| `ChainsAreKept` | `Spec => []ChainsKept` |
| `ProofsAcceptedOnce` | `Spec => []NoProofReplayed` |
| `OnlyInForceAccepted` | `Spec => []AcceptedInForce` |

It proves the three properties of the run `Contract` that need no fairness, from
`HostAssumption` (a chain of hops is a list, expiries are numbers, and the absent value
is no state of a process):

| Theorem | States |
|---|---|
| `OnceIsOnceForHosts` | `HSpec => []OnceUnlessDisturbed` |
| `AllowsAreSigned` | `HSpec => []AllowedAsSigned` |
| `PortsDoNotDrift` | `HSpec => []PortsAgree`, if `MapsAgree` and every binding names tokens of the gate only |

for any hosts, presentations, questions, trust configurations, faults and chains of any
length. The conditions of the last are needed and are what the deployments are meant to
be: the maps of the two other ports say of the gate's tokens what the gate's
map says and are one map, and the caps on how long a nonce is kept are one
(`hosted-verify/src/verify/core.ts` line 66 says they must be). With a
token that only an operator's map knows, the hosted port allows what the gate calls unknown.

`VerifyCommandProofs` proves the three properties of the run `FileMarks`, from
`MarkAssumption` and `VerifyConstants` (retentions are positive, no answer is the absent
one, a hop's nullifier is no agent's and no human's, a delegation does not outlive its
credential, and there are calls enough for every nullifier):

| Theorem | States |
|---|---|
| `GrantsDoNotOverlap` | `Spec => []OverlapOnlyIfLost`, of the store under any calls |
| `MarksDoNotOverlap` | `VSpec => []OverlapOnlyIfLost`, under the calls of verifications |
| `AllowedOnce` | `VSpec => []AllowedAgainOnlyPastExpiry` |
| `NullifiersSpentInOrder` | `VSpec => []NullifiersAccounted` |

`ApprovalExecutionProofs` proves, from `ApprovalConstants` (the trusted signer is
a signer, readings are naturals, absence and a failed reading are not values):

| Theorem | States |
|---|---|
| `OnceIsOnce` | `Spec => []OnceDispatchedOnce` |
| `OnlyTheApproved` | `Spec => []DispatchedAsApproved` |
| `NoApprovalWasted` | `Spec => []SpentForACause` |
| `LinksAreExecutions` | `Spec => []LinkedIffExecuted` |

for any number of executors, approvals, observers and clock values. These are the four
properties of the run `Approval`.

`GatewayProofs` proves the three properties of the run `Gateway`:

| Theorem | States |
|---|---|
| `GrantsAreHonoured` | `Spec => []ForwardedWithinGrant` |
| `ReplaysAreBounded` | `Spec => []ReplayBounded` |
| `LogIsTruthful` | `Spec => []LogTruthful` |

from `GatewayConstants`: one text writes one number, a bundle's stamp is the upper half of
that number, a hop that the
circuit accepted narrows the one before it, a production deployment binds credentials,
the callers are finitely many, and absence is not a value. The completeness of the log is
proved in every state, settled or not.

`X402EvcProofs` proves the five properties of the run `Payments`, and of the run
`Reservations` the one that needs no fairness:

| Theorem | States |
|---|---|
| `StoreImplementsGuard` | `NSpec => ImplementsGuard`, of the store under any calls |
| `NoncesSpentOnce` | `XSpec => []NonceSpentOnce` |
| `AuditedAndPaid` | `XSpec => []AuditedAndPaidOnce` |
| `DenialsAreTruthful` | `XSpec => []DenialsTruthful`, if `MAX_ACCEPTANCE >= MAX_ACCEPTANCE_WINDOW` |
| `QuotesSpentOnce` | `XSpec => []QuoteSpentOnce` |
| `AllowsAreBound` | `XSpec => []AllowedAsBound` |
| `QuotesAreUsable` | no quote that the resolver binds is refused by the default `maxAcceptanceSeconds`: `acceptUntil - now` is at most the lifetime plus the skew on both sides |

from `StoreAssumption` (a positive sweep budget, and a verdict names no key twice: the
contract asks a verifier for one entry per nullifier and Bolyra's own verifiers comply,
but the gate's `validateVerdict` does not check it),
`GateAssumption`, `QuoteAssumption` (every issuer was accepted by `compileIssuer`) and
`EvcAssumption`: legs and contexts are as their parsers leave them, a header stands for
its bytes, a server gives every challenge a nonce of its own, an issuer signs no two
quotes with one jti, and absence is not a value. The condition of `DenialsAreTruthful` is needed: an operator who
sets `maxAcceptanceSeconds` below the default has quotes that were accepted answered
with `internal_error`.

`LibrariesProofs` proves, of the three parts of the run `Libraries`:

| Theorem | States |
|---|---|
| `VerifyHonoursReceipts` | `DSpec => []ReceiptsHonoured` |
| `RootsAreOfTheBatch` | `Spec => []RootStaleOnlyIfOvertaken`, one half of `AnswersAccounted` |
| `AnswersStayTrue` | `Spec => []AnswersAccounted`, with the other half, `IndexProvesSession` |
| `HealthToldTruly` | `HSpec => []HealthAccounted` |

the second and the third from `BatchAssumption` (absence is not a number), for any number
of overlapping calls and batches of any size; the fourth from `ProbeAssumption` (a positive
TTL), for any number of callers; the first from `ScenarioAssumption` (the skew, the age of a
proof and the length of a list are naturals; a receipt of the issuer's form carries a
label and is signed with a key that has a name, as `allow` sees to; a list of another
party says in bits what it is known to say), for any number of
verifications, issuers, holders, receipts, options and lists of any length.

The argument. Every action does one of four things to the two tables: nothing
(or a foreign row), create a credential, revoke one, settle an owed row. The
proofs define these as relations (`Quiet`, `CreateStep`, `RevokeStep`,
`SettleStep`), prove once that each action is one of them, and then prove each
invariant over the four. `AuditOwedOrWritten` and `HistoryConsistent` are
inductive only together and with `TypeOK`: that a repaired row carries the
credential's own time needs that a `revoked` row already there which is not
foreign is the same row, which needs that rows are unique per id and event, and
that a pending time is not before the registration. `CapRespected` needs
`TypeOK` and the cardinality of a set that grows by the one id `register` adds
or loses the one `revoke` takes away. `RevocationTerminal` follows from the form
of the four relations.

`RepliesTruthful` is preserved by every step because a method replaces the
answer it has made false: each method is shown to establish it from `AuditInv`
(`MethodTruthful`; that only a revoked credential is ever `repaired` is where
the audit invariant is needed), and the environment only adds rows.
`NewerLayoutUntouched` needs its own invariant, `NewerIsLatched`: an instance
over a newer layout is down or has latched the error.

The refinement is argued per id. Under `AuditInv` an id that is revoked and owes
nothing has exactly one `revoked` row, so the `CHOOSE` in the mapping of
`LedgerEvent` is that row and the mapping is stable (`SettledIsRecorded`). Each
of the relations then changes the mapped ledger at one id only, as `Register`,
`Revoke` or `Record` of the ledger do, or not at all (`CreateRefines`,
`RevokeRefines`, `SettleRefines`, `ForeignRefines`); a foreign row that happens
to equal the owed one is `Record`.

*The Worker.* A request holds an answer of the registry while other requests, rotations
and retried RPCs go on, so the invariant `HInv` joins `AuditInv` with what a waiting or
finished request may rely on: `Remembers`, that what was acknowledged when it arrived is
still so, and `CallMeans`, what its answer and its response say of the tables and that what
it found on its arrival is so or has moved on (`Found`). They are
inductive because they only use facts that no step takes back (`FactsStay`: a credential
stays, a revoked one stays revoked, an event stays recorded), and every step of
the Worker that touches the tables is one of the registry's, so that the lemmas about the
registry carry over.

*The contract.* `RootWindow` is inductive only with `RingInv`: which of the last roots
each slot holds (`RingHolds`, by the distance from the slot written next), that every
recorded root is that of an earlier state of the tree (`RootsOfThePast`), and that
recorded roots are distinct. The last is what makes the eviction in `_recordAgentRoot` sound: clearing
the flag of the root that falls out of the ring does not clear that of one still in it.
It holds because an update only appends leaves or zeroes one that was not zero, so that
no earlier state of the leaves comes back (`Before`). The sessions need `SessionsInv`:
the nonce, the hop count and the commitment of a session are those of its last accepted
proof (`SessionStateConsistent`), a delegation's nullifier is spent by one entry
(`SpentOnce`), and along a whole chain permissions and lifetimes narrow (`Narrows`, by
transitivity from the last hop). What is in force at an acceptance comes from `RingInv`:
the mapping says yes only to a root of the last ones.

*The hosts.* `HostsInv` says of each host what its phase has established (`HostInv`:
past the verdict, the verifier exited by itself within the bounds and the command allows,
`Granted`), of each action which host took it (`ActedInv`), and of the file, as long as
nothing has disturbed it (`FileInv`): one host rewrites it at a time, what that host has
read is the file (a read that fails disturbs it), the nonces of whoever won are in the file or, while it is truncated, in
what the rewriting host has read, and no two winners share one. A step of a host that lets
the file alone keeps `FileInv` (`HarmlessKeeps`); `Truncate` and `Fill` are argued by hand.

*The ports.* A cascade followed by another answers one inside the other
(`CascadeThen`), and one of up to five checks is a nested IF (`TwoChecks` and so on), so
that each port's verdict is a nest of the answers of its parts (`HostedNested`,
`InProcessNested`), one lemma for each part. What an allow has made sure of is then read
from the outside in (`HostedAllows`, `InProcessAllows`, `CommandAllows`). Two ports are
compared from the inside out: the ends are alike, and behind checks that both make what is
alike stays alike (`RestAlike`, `AlikeBehind`).

*The replay store and the command.* Each of the file operations of `markIfFresh` is one of
five kinds of step (`Quiet`, `Puts`, `Locks`, `Unlocks`, `Removes`), and each part of
`StoreInv` is shown over the kinds: that at most one call is under the lock of a key
(`LockHeld`), that a file found expired under the lock is still the same at the rename
unless the key was lost, to a prune or to a recheck that could not read (`FileStays`), and
that the winner of a key that is not lost has left a file
that only expires, or was replaced when its time had passed (`WinnersCovered`), from which two
winners are apart (`WinnersApart`). Over it `VInv` says of a verification what each phase
has established and of each of its calls which nullifier it is for, which checks
had passed and that all earlier ones were won (`MarkMeans`). `AllowedOnce` is then
`WinnersApart` for the nullifier in common and the arithmetic of the retention
(`TtlCovers`). One clause had to be weakened in the model for the proof to be possible, and rightly: a
delegation that names one hop nullifier twice is told of a replay of its own mark.

*Approvals.* None of the four is inductive. The invariant `IInv` says of an
attempt what each phase has established: `Typed`; `SignedAsPublished`, that a
receipt carries what was signed; `CheckedFirst`, that a prepared attempt passed
every check of the cascade; `ClaimedFirst`, that a cleared `once` attempt holds a
claim; `ClaimsStored` and `ClaimsExclusive`, that a claim held is in the store
and that two attempts never hold the same one (the heart of `OnceIsOnce`: a claim
names signer and payload, and both attempts present the trusted signer);
`InWindow`, that the second reading was checked; `ClaimsUsed` and `ClaimsOwned`,
that a stored claim has an owner and why the owner did not dispatch. What a
passed cascade means comes from one lemma, `FirstRefusalFails` in
`VerdictProofs`: a cascade that answers "granted" has no failing check, which
rests on the least element of a nonempty set of naturals. `LinkedIffExecuted` adds
`ObservationsTrue`: every observation tells of an attempt that has settled, and such an
attempt never changes. What the offline check accepts is shown to be an observation of
the presented envelope as it was signed (`LinkedMeans`), so that the attempt it tells of
is the execution.

*Payments.* For the store alone `HeldInv` suffices: the Map holds a key once, and what the
last call was granted is in it. The three ways to forget and the insertion are each
shown to leave a part of the Map in which whatever is gone had lapsed, and the cursor
within it (`SweepMeans`, `SweepAllMeans`, `InsertMeans`, gathered in `ReserveMeans`); the
rank of a position among those that are left (`Ranked`) gives their order. `XInv` is
about all parties, invocations and attempts alike. Its heart is `SpendInv`: what a party
spent is in the store until its time (`Holding`), the store holds nothing that nobody
spent (`Origins`), and two parties never state overlapping times for a key (`Once`); `Replays` says that who
was told of a replay met what another had spent. Each step spends for one party or for
none (`SpentByOne`, `NothingSpent`). `RecordsInv` ties receipts and payments to the calls
they are of, `CallOK` and `AttemptOK` say what each phase of an invocation and of an
attempt has established. `QuoteSpentOnce` then is `Once` for the quote's own key, which
is reserved as long as the quote can be accepted, and for a challenge without a resolver
for its nonce (`CommittedMeans`); `AllowedAsBound` follows from `AttemptOK`.

*Delegation receipts.* The three parts of `ReceiptsHonoured` are not inductive: they
speak of answers, and an answer is made of what earlier steps found out. `Known` says
what each phase of `verify` has established: that the form is one of the two
(`Formed`), which keys it was told (`Resolved`), that the receipt is one its issuer
signed as it stands (`Authentic`), that it was granted, and what is owed with an answer
(`Honoured`). A receipt passes for signed only if it was issued unaltered, because a
bearer's alteration keeps the old signature (`SignedIsIssued`). While a call awaits a
resolver or a list the parties go on: `VerifyingStable` shows that what it knows stays
true of more receipts, proofs and lists and a later clock, and that nothing becomes in
order by a receipt issued later. That a list says in bits what `setStatusBit` was asked
for is `SlotsKept`, which rests on the arithmetic of two bits in a byte (`ByteKept`).
What the answer of a cascade means comes from `FirstRefusalFirst`, one lemma per
cascade (`ClaimsJudged` and the others named so).

*The gateway.* `GatewayInv` says of a request in flight what it has passed (`Underway`:
the checks before the mark, its credential, in development its context and that it was
judged no later than it was marked), of a forwarded one what it was granted and when its
nonce was fresh (`Passed`), that its mark is in its store for `MaxProofAge` seconds as long
as the store lives (`MarkHeld`), and that two marks of one text in one store are that far
apart (`MarksApart`, by `MarkHeld` of the earlier one). A chain of hops each within the one
before gives all delegatees what the last one holds (`LeafWithinChain`); without the points
for freshness no score exceeds 90 (`HighScoreIsFresh`). `LogInv` is about receipts: there
is one record of a decided call, with its outcome (`RecordsInv`), a receipt on its way was
signed, and what a run signed is a chain whose next link the process keeps
(`ChainOfRun`). A log is read from its first entry: an entry without issues was signed by
some run (`HandedIsGenuine`: no alteration leaves one), its link names the receipt that
stands before it (`CleanPlace`), a receipt belongs to one request and so to one run, and
the first place at which the log departs from that run cannot exist (`CleanIsBeginning`).
With the head, the last receipt says which run it is and the count that all is there
(`WholeIsOnly`).

*The batch.* `BatchInv` says that the leaves a call has read are an initial part of the
batch, that a cached or answered root is of such a part and covers what there was when it
was asked for, unless the computation was overtaken (`Covers`, `Overtaken`), and that
pushes only extend the batch (`PushGrows`). `IndexInv` says that the index of an add is the
number of sessions there were when it was made, that it has pushed when it is done, and
that each session was pushed, at the place its add ended with, by an add made before. So
the session that stands at an add's index is its own, or that of an add that began before
it ended and ended after it began (`IndexProves`). That the inclusion proof for an index
leads to the root from the leaf that stands there, and from no other leaf, is a fact about
the tree (`ProofIncludes`): every layer is half as wide as the one below and its nodes are
pairs (`LayersHalve`), the height is where the width is one (`HeightMeans`), and a
value climbs to the node above the index exactly if it started as that leaf. The tree, the
path and the climb are recursive functions. That each is what its recursion says
(`SizesDouble`, `LayersPair`, `PathHalves`, `HashedSteps`) and the climb itself are
proved by induction on the height: a set of naturals that holds 0 and with every
number the next misses none, for the least one missing would have a predecessor
(`CountingUp`, from the library's fact that `<` is well-founded).

*The probe.* `HealthInv` ties the cache to the latest probe that has not failed and a
caller to the probe it was given; a probe is launched only when every earlier one has
failed or is a TTL old (`LaunchedAlone`).

Every safety property and every action property that a run expects to hold is stated by
one of these theorems. Out of the prover's reach, and therefore with TLC only, are the
properties that need fairness: `OwedEventuallyWritten`, `ElapsedReclaimed` and
`DecidedUnlessHeldOpen`. The library's induction rules take an operator, which none of the
provers can instantiate; induction over data is done in `LibrariesProofs` with sets
instead (`CountingUp`). No module declares a recursive operator.

A leaf that takes the solver more than a second or so cites a longer timeout
(`SMTT(60)`, `ZenonT(60)`), so that the proofs do not hang on the speed of a machine.

## 5. What is not modelled

- Cryptography: signatures, hashes and proof systems are ideal.
- Parsing, canonical encodings, formats of receipts and denials, HTTP details.
- `HostedVerify` and `PaymentGate` take any verdict the verifiers may give; the
  verdicts themselves are in the three ports.
- Verdicts: credential ids, the signed receipt of the hosted service, the watchdog of
  the command's own worker process. A host never prunes its file of nonces, in the
  code as in the model, so `retain_until` is compared and not used.
- Gateway: request parsing, batches and size limits, the upstream's reply,
  headers and their MAC, the health route, configuration, disabled receipts and
  custom writers.
- Receipts: the bodies of authentication receipts and instance ids.
- MCP: the client and the servers that wrap `verifyBundle` for other transports.
- SDK: proof generation and verification, wrappers around snarkjs.
- Of the delegation package the encoding of keys, and claims of a wrong type in a
  document its issuer signed. Of `payment-protocols` the adapters and the encoding of spend policies.
- The owner and operator roles of the contract and its setters.
- Adapters of agent frameworks, ports to Rust and Python, the playground, the
  wallet, the CI action and the development registry (a service with one SQL
  statement per route): see `PROJECT.json`.

## 6. Plan

Done, in this order: the tenant registry with its ledger and first theorems; the
Worker over it; the contract with its circuits; the gate's store and the gate;
the replay store and the verdicts over it; approvals with their theorems; the
receipt chain, the MCP verification and the gateway; the off-chain batch; the
three ports of the verifier algorithm and the reference hosts; x402 over the gate's
store; delegation receipts with their theorem; the health probe.

To come, modules:

1. The servers of the MCP middleware (`server-http.ts`, `server-stdio.ts`).
2. `payment-protocols/src/spend-policy.ts`: the comparison of packed policies.

To come, theorems: what the proofs of those modules ask for, and liveness if a prover
for it can be had.
