--------------------------- MODULE GatewayProofs ----------------------------
(***************************************************************************)
(* What Gateway's run checks on small deployments, proved for any number   *)
(* of processes, requests, nonces and bundles, any credentials, policies,  *)
(* minimum score and proof age, through restarts and lost receipts.        *)
(***************************************************************************)
EXTENDS Gateway, VerdictProofs, SequenceTheorems, FiniteSetTheorems

-----------------------------------------------------------------------------
(* What a verification that passes has checked.                            *)

\* A development bundle that gets to its mark is not too deep.
LEMMA DevAccepted ==
    ASSUME NEW b, NEW credential, RefusalBeforeMark(TRUE, b, credential) = "ok"
    PROVE  ~TooDeep(b)
<1>1. DOMAIN DevChecks(b) = 1 .. 3
  BY DEF DevChecks
<1>2. \A i \in DOMAIN DevChecks(b) : DevChecks(b)[i][2] # "ok"
  BY <1>1 DEF DevChecks
<1>3. FirstRefusal(DevChecks(b), "ok") = "ok"
  BY DEF RefusalBeforeMark
<1>4. \A i \in DOMAIN DevChecks(b) : DevChecks(b)[i][1]
  BY <1>1, <1>2, <1>3, FirstRefusalFirst
<1>5. DevChecks(b)[3][1] = (~TooDeep(b))
  BY DEF DevChecks
<1>6. DevChecks(b)[3][1]
  BY <1>1, <1>4
<1> HIDE DEF DevChecks, TooDeep
<1> QED BY <1>5, <1>6

\* A production bundle that gets to its mark has a credential.
LEMMA ProductionAccepted ==
    ASSUME NEW b, NEW credential, RefusalBeforeMark(FALSE, b, credential) = "ok"
    PROVE  credential # None
<1>1. DOMAIN ChecksBeforeMark(b, credential) = 1 .. 5
  BY DEF ChecksBeforeMark
<1>2. \A i \in DOMAIN ChecksBeforeMark(b, credential) :
         ~ChecksBeforeMark(b, credential)[i][1] => ChecksBeforeMark(b, credential)[i][2] # "ok"
  <2>1. /\ ChecksBeforeMark(b, credential)[2][1] = (b.form = "ok")
        /\ ChecksBeforeMark(b, credential)[2][2] = b.form
    BY DEF ChecksBeforeMark
  <2>2. ~ChecksBeforeMark(b, credential)[2][1] => ChecksBeforeMark(b, credential)[2][2] # "ok"
    BY <2>1
  <2>3. \A i \in {1, 3, 4, 5} : ChecksBeforeMark(b, credential)[i][2] # "ok"
    BY DEF ChecksBeforeMark
  <2> QED BY <1>1, <2>2, <2>3
<1>3. FirstRefusal(ChecksBeforeMark(b, credential), "ok") = "ok"
  BY DEF RefusalBeforeMark
<1>4. \A i \in DOMAIN ChecksBeforeMark(b, credential) : ChecksBeforeMark(b, credential)[i][1]
  BY <1>1, <1>2, <1>3, FirstRefusalFirst
<1>5. ChecksBeforeMark(b, credential)[3][1] = (credential # None)
  BY DEF ChecksBeforeMark
<1>6. ChecksBeforeMark(b, credential)[3][1]
  BY <1>1, <1>4
<1> QED BY <1>5, <1>6

\* Nothing else makes up for a nonce that is not fresh: without its points the
\* score is 90 at most (mcp/src/verify.ts).
LEMMA HighScoreIsFresh ==
    ASSUME NEW b, NEW t, NEW leaf, NEW valid, NEW unexpired,
           Score(b, t, leaf, valid, unexpired) > 90
    PROVE  NonceFresh(b, t)
BY DEF Score, Points

\* In a chain of hops each within the one before it, what the last one holds is
\* held by every delegatee and by the root.
LEMMA LeafWithinChain ==
    ASSUME NEW S, NEW hops \in Seq(S), Len(hops) <= 3, NEW root,
           \A i \in DOMAIN hops :
              hops[i].scope \subseteq (IF i = 1 THEN root ELSE hops[i - 1].scope)
    PROVE  /\ Leaf(root, hops) \subseteq root
           /\ \A i \in DOMAIN hops : Leaf(root, hops) \subseteq hops[i].scope
<1> DEFINE n == Len(hops)
<1>1. n \in Nat /\ DOMAIN hops = 1 .. n /\ (n = 0 \/ n = 1 \/ n = 2 \/ n = 3)
  <2>1. n \in Nat /\ DOMAIN hops = 1 .. n /\ n <= 3
    OBVIOUS
  <2> HIDE DEF n
  <2> QED BY <2>1
<1>2. CASE Len(hops) = 0
  BY <1>1, <1>2 DEF Leaf
<1>3. CASE Len(hops) = 1
  BY <1>1, <1>3 DEF Leaf
<1>4. CASE Len(hops) = 2
  <2>1. DOMAIN hops = {1, 2}
    BY <1>1, <1>4
  <2>0. hops # <<>>
    BY <1>4, EmptySeq
  <2>3. Leaf(root, hops) = hops[2].scope
    BY <1>4, <2>0, Zenon DEF Leaf
  <2>2. hops[1].scope \subseteq root /\ hops[2].scope \subseteq hops[1].scope
    BY <2>1
  <2> QED BY <2>1, <2>2, <2>3
<1>5. CASE Len(hops) = 3
  <2>0. hops # <<>> /\ DOMAIN hops = {1, 2, 3}
    BY <1>1, <1>5, EmptySeq
  <2>1. DOMAIN hops = {1, 2, 3} /\ hops # <<>> /\ Leaf(root, hops) = hops[3].scope
    BY <1>5, <2>0, Zenon DEF Leaf
  <2>2. /\ hops[1].scope \subseteq root /\ hops[2].scope \subseteq hops[1].scope
        /\ hops[3].scope \subseteq hops[2].scope
    BY <2>1
  <2> QED BY <2>1, <2>2
<1> QED BY <1>1, <1>2, <1>3, <1>4, <1>5

-----------------------------------------------------------------------------
(* What is granted to a call that is forwarded.                            *)

Needed(method, tool, context) ==
    IF method = "call" /\ tool \in DOMAIN Policies THEN Policies[tool].require
    ELSE context.permissions
Granted(method, tool, b, context) ==
    /\ Registered(b)
    /\ Needed(method, tool, context) \subseteq Credentials[b.commitment].mask
    /\ \A i \in DOMAIN b.hops : Needed(method, tool, context) \subseteq b.hops[i].scope

\* A call that is forwarded needs no more than its context holds.
LEMMA ForwardedNeeds ==
    ASSUME NEW method, NEW tool, NEW b, NEW context,
           Outcome(method, tool, b, context) = "forwarded"
    PROVE  Needed(method, tool, context) \subseteq context.permissions /\ context.verified
BY GatewayConstants DEF Outcome, Needed, PolicyAllows

\* In development what binds is the credential's own mask, hop by hop.
LEMMA DevForwardedGranted ==
    ASSUME NEW method, NEW tool, NEW b \in Presented, NEW t, NEW minScore, NEW credential,
           config.devMode, config.binding,
           RefusalBeforeMark(TRUE, b, credential) = "ok",
           Outcome(method, tool, b, DevContext(b, t, minScore)) = "forwarded"
    PROVE  Granted(method, tool, b, DevContext(b, t, minScore))
<1> DEFINE context == DevContext(b, t, minScore)
           mask == Credentials[b.commitment].mask
<1>1. CredentialBound(b, context)
  BY DEF Outcome
<1>2. /\ Registered(b) /\ b.claimed = mask /\ context.permissions \subseteq mask
      /\ \A i \in DOMAIN b.hops :
            b.hops[i].scope \subseteq (IF i = 1 THEN mask ELSE b.hops[i - 1].scope)
      /\ \A i \in DOMAIN b.hops : b.hops[i].decimal
  BY <1>1 DEF CredentialBound, HopsBound
<1>3. Walked(b.hops) = b.hops
  BY <1>2 DEF Walked
<1>4. context.permissions = Leaf(mask, b.hops)
  BY <1>2, <1>3 DEF DevContext, Context
<1>5. b.hops \in Seq(ToSet(b.hops))
  BY GatewayConstants
<1>6. Len(b.hops) <= 3
  <2>1. ~TooDeep(b)
    BY DevAccepted
  <2> QED BY <2>1, <1>5 DEF TooDeep, MAX_DELEGATION_HOPS
<1>7. \A i \in DOMAIN b.hops : Leaf(mask, b.hops) \subseteq b.hops[i].scope
  BY <1>2, <1>5, <1>6, LeafWithinChain
<1>8. Needed(method, tool, context) \subseteq context.permissions
  BY ForwardedNeeds
<1> HIDE DEF context, mask
<1> QED BY <1>2, <1>4, <1>7, <1>8 DEF Granted, mask, context

\* In production it is what the proofs prove.
LEMMA ProductionForwardedGranted ==
    ASSUME NEW method, NEW tool, NEW b \in Presented, NEW t, NEW minScore,
           Registered(b),
           Outcome(method, tool, b,
               ProductionContext(b, t, minScore, Credentials[b.commitment])) = "forwarded"
    PROVE  Granted(method, tool, b,
               ProductionContext(b, t, minScore, Credentials[b.commitment]))
<1> DEFINE credential == Credentials[b.commitment]
           context == ProductionContext(b, t, minScore, credential)
<1>1. context.verified /\ Needed(method, tool, context) \subseteq context.permissions
  BY ForwardedNeeds
<1>2. b.proves = credential /\ ~TooDeep(b)
  BY <1>1 DEF ProductionContext, Failed, Context
<1>3. ChainOk(b.hops) /\ context.permissions = Leaf(credential.mask, b.hops)
  BY <1>1, <1>2 DEF ProductionContext, Context
<1>4. b.hops \in Seq(ToSet(b.hops))
  BY GatewayConstants
<1>5. Len(b.hops) <= 3
  BY <1>2, <1>4 DEF TooDeep, MAX_DELEGATION_HOPS
<1>6. \A i \in DOMAIN b.hops :
         b.hops[i].scope \subseteq (IF i = 1 THEN credential.mask ELSE b.hops[i - 1].scope)
  BY <1>2, <1>3, GatewayConstants DEF ChainOk
<1>7. /\ Leaf(credential.mask, b.hops) \subseteq credential.mask
      /\ \A i \in DOMAIN b.hops : Leaf(credential.mask, b.hops) \subseteq b.hops[i].scope
  BY <1>4, <1>5, <1>6, LeafWithinChain
<1> HIDE DEF credential, context
<1> QED BY <1>1, <1>3, <1>7 DEF Granted, credential, context

-----------------------------------------------------------------------------
(* Types.                                                                  *)

IsRequest(r) ==
    r = [phase |-> r.phase, at |-> r.at, run |-> r.run, method |-> r.method, tool |-> r.tool,
         bundle |-> r.bundle, credential |-> r.credential, marked |-> r.marked,
         context |-> r.context, outcome |-> r.outcome]
IsProcess(gw) == gw = [run |-> gw.run, chain |-> gw.chain, pending |-> gw.pending] /\ gw.run \in Runs
Stores == Instances \cup {Shared}

Shapes ==
    /\ config \in Configs /\ now \in Nat
    /\ nonces \in [Stores -> [Nonces -> Nat]]
    /\ DOMAIN gateways = Instances /\ gateways = [g \in Instances |-> gateways[g]]
    /\ \A g \in Instances : IsProcess(gateways[g])
    /\ DOMAIN requests = Requests /\ requests = [q \in Requests |-> requests[q]]
    /\ \A q \in Requests : IsRequest(requests[q])
    /\ signed = [g \in Instances |-> [run \in Runs |-> signed[g][run]]]

-----------------------------------------------------------------------------
(* A request.                                                              *)

Alive(r) == r.phase \in {"verifying", "marked"}
Forwarded(r) == r.outcome = "forwarded" /\ r.method # "exempt"

\* What a request has passed while it is verified: its bundle was good before the
\* mark, its credential is the registered one and, in development, its context is
\* already what the bundle was worth at an instant before the mark.
Underway(r) ==
    /\ r.at \in Instances /\ r.run = gateways[r.at].run
    /\ r.method # "exempt" /\ r.bundle \in Presented
    /\ RefusalBeforeMark(config.devMode, r.bundle, r.credential) = "ok"
    /\ ~config.devMode => Registered(r.bundle) /\ r.credential = Credentials[r.bundle.commitment]
    /\ config.devMode => \E t \in 0 .. now :
          /\ r.context = DevContext(r.bundle, t, config.minScore)
          /\ r.phase = "marked" => t <= r.marked
    /\ r.phase = "marked" => r.marked \in 0 .. now

\* What is known of a request that was forwarded.
Passed(r) ==
    /\ r.at \in Instances /\ r.run \in 1 .. gateways[r.at].run
    /\ r.bundle \in Presented /\ r.marked \in 0 .. now
    /\ config.binding => Granted(r.method, r.tool, r.bundle, r.context)
    /\ config.minScore > 90 => IF config.devMode THEN r.bundle.stamp <= r.marked
                               ELSE r.marked < r.bundle.stamp + MaxProofAge

RequestInv(r) ==
    /\ r.phase \in {"new", "verifying", "marked", "done"}
    /\ r.phase # "done" => r.outcome = None
    /\ Alive(r) => Underway(r)
    /\ Forwarded(r) => Passed(r)

\* The mark of a request is in its store for MaxProofAge seconds, as long as the
\* store lives, and two marks of one nonce in one store are that far apart.
HasMark(r) == r.phase = "marked" \/ Forwarded(r)
StoreLives(r) == config.store = "redis" \/ r.run = gateways[r.at].run
OneStore(r1, r2) == config.store = "redis" \/ (r1.at = r2.at /\ r1.run = r2.run)
MarkHeld(r) ==
    HasMark(r) /\ StoreLives(r) =>
        nonces[Store(r.at)][r.bundle.nonce] >= r.marked + MaxProofAge
MarksApart(r1, r2) ==
    HasMark(r1) /\ HasMark(r2) /\ r1.bundle.nonce = r2.bundle.nonce /\ OneStore(r1, r2) =>
        r1.marked + MaxProofAge <= r2.marked \/ r2.marked + MaxProofAge <= r1.marked

GatewayInv ==
    /\ Shapes
    /\ \A q \in Requests : RequestInv(requests[q]) /\ MarkHeld(requests[q])
    /\ \A q1, q2 \in Requests : q1 # q2 => MarksApart(requests[q1], requests[q2])

-----------------------------------------------------------------------------
(* Types are kept.                                                         *)

LEMMA InitShapes == Init => Shapes
<1> SUFFICES ASSUME Init PROVE Shapes
  OBVIOUS
<1>1. MaxRuns \in Nat \ {0} /\ 1 \in Runs
  BY GatewayConstants DEF Runs
<1>2. nonces \in [Stores -> [Nonces -> Nat]]
  BY DEF Init, Stores
<1>3. \A g \in Instances : IsProcess(gateways[g])
  BY <1>1 DEF Init, NewProcess, IsProcess
<1>4. \A q \in Requests : IsRequest(requests[q])
  BY DEF Init, NewRequest, IsRequest
<1>5. signed = [g \in Instances |-> [run \in Runs |-> signed[g][run]]]
  BY DEF Init
<1> QED BY <1>2, <1>3, <1>4, <1>5 DEF Init, Shapes

\* What a decision does to the process that takes it.
SameRuns == \A g \in Instances : gateways'[g].run = gateways[g].run
KeepsShapes ==
    /\ DOMAIN gateways' = Instances /\ gateways' = [g \in Instances |-> gateways'[g]]
    /\ \A g \in Instances : IsProcess(gateways'[g])
    /\ signed' = [g \in Instances |-> [run \in Runs |-> signed'[g][run]]]

LEMMA ReceiptShapes ==
    ASSUME Shapes, NEW q, NEW g \in Instances, NEW body, WriteReceipt(q, g, body)
    PROVE  SameRuns /\ KeepsShapes
<1>1. IsProcess(gateways[g])
  BY DEF Shapes
<1>2. CASE /\ gateways' = [gateways EXCEPT
                  ![g].chain = Advanced(@, body, "gateway"),
                  ![g].pending = @ \cup {Link(gateways[g].chain, body, "gateway")}]
           /\ signed' = [signed EXCEPT
                  ![g][gateways[g].run] = Append(@, Link(gateways[g].chain, body, "gateway"))]
  <2>1. \A h \in Instances : gateways'[h] = IF h = g
           THEN [run |-> gateways[g].run, chain |-> Advanced(gateways[g].chain, body, "gateway"),
                 pending |-> gateways[g].pending \cup {Link(gateways[g].chain, body, "gateway")}]
           ELSE gateways[h]
    <3>1. PICK gw : gw = gateways[g]
      OBVIOUS
    <3>2. DOMAIN gateways = Instances
      BY DEF Shapes
    <3>3. \A h \in Instances \ {g} : gateways'[h] = gateways[h]
      BY <1>2, <3>2
    <3>4. gateways'[g] = [gw EXCEPT !.chain = Advanced(gw.chain, body, "gateway"),
                                    !.pending = gw.pending \cup {Link(gw.chain, body, "gateway")}]
      BY <1>2, <3>1, <3>2
    <3>5. gw = [run |-> gw.run, chain |-> gw.chain, pending |-> gw.pending]
      BY <1>1, <3>1 DEF IsProcess
    <3>6. gateways'[g] = [run |-> gw.run, chain |-> Advanced(gw.chain, body, "gateway"),
                          pending |-> gw.pending \cup {Link(gw.chain, body, "gateway")}]
      BY <3>4, <3>5
    <3> QED BY <3>1, <3>3, <3>6
  <2>2. \A h \in Instances : IsProcess(gateways'[h]) /\ gateways'[h].run = gateways[h].run
    BY <2>1 DEF Shapes, IsProcess
  <2>3. DOMAIN gateways' = Instances /\ gateways' = [h \in Instances |-> gateways'[h]]
    BY <1>2 DEF Shapes
  <2>4. signed' = [h \in Instances |-> [run \in Runs |-> signed'[h][run]]]
    <3>1. gateways[g].run \in Runs
      BY <1>1 DEF IsProcess
    <3>2. signed = [h \in Instances |-> [run \in Runs |-> signed[h][run]]]
      BY DEF Shapes
    <3> QED BY <1>2, <3>1, <3>2
  <2> QED BY <2>2, <2>3, <2>4 DEF SameRuns, KeepsShapes
<1>3. CASE /\ gateways' = [gateways EXCEPT ![g].pending = @ \cup {[unsigned |-> body]}]
           /\ UNCHANGED signed
  <2>1. \A h \in Instances : gateways'[h] = IF h = g
           THEN [run |-> gateways[g].run, chain |-> gateways[g].chain,
                 pending |-> gateways[g].pending \cup {[unsigned |-> body]}]
           ELSE gateways[h]
    <3>1. PICK gw : gw = gateways[g]
      OBVIOUS
    <3>2. DOMAIN gateways = Instances
      BY DEF Shapes
    <3>3. \A h \in Instances \ {g} : gateways'[h] = gateways[h]
      BY <1>3, <3>2
    <3>4. gateways'[g] = [gw EXCEPT !.pending = gw.pending \cup {[unsigned |-> body]}]
      BY <1>3, <3>1, <3>2
    <3>5. gw = [run |-> gw.run, chain |-> gw.chain, pending |-> gw.pending]
      BY <1>1, <3>1 DEF IsProcess
    <3>6. gateways'[g] = [run |-> gw.run, chain |-> gw.chain,
                          pending |-> gw.pending \cup {[unsigned |-> body]}]
      BY <3>4, <3>5
    <3> QED BY <3>1, <3>3, <3>6
  <2>2. \A h \in Instances : IsProcess(gateways'[h]) /\ gateways'[h].run = gateways[h].run
    BY <2>1 DEF Shapes, IsProcess
  <2>3. DOMAIN gateways' = Instances /\ gateways' = [h \in Instances |-> gateways'[h]]
    BY <1>3 DEF Shapes
  <2>4. signed' = [h \in Instances |-> [run \in Runs |-> signed'[h][run]]]
    BY <1>3 DEF Shapes
  <2> QED BY <2>2, <2>3, <2>4 DEF SameRuns, KeepsShapes
<1> QED BY <1>2, <1>3 DEF WriteReceipt

-----------------------------------------------------------------------------
(* What one step leaves as it was.                                         *)

LEMMA MarkFacts ==
    ASSUME Shapes, NEW r, RequestInv(r), HasMark(r)
    PROVE  /\ r.at \in Instances /\ r.run \in Nat /\ gateways[r.at].run \in Nat
           /\ r.run <= gateways[r.at].run
           /\ r.bundle \in Presented /\ r.bundle.nonce \in Nonces /\ r.bundle.stamp \in Nat
           /\ r.marked \in Nat /\ r.marked <= now /\ Store(r.at) \in Stores
<1>1. /\ r.at \in Instances /\ r.bundle \in Presented /\ r.marked \in 0 .. now
      /\ r.run = gateways[r.at].run \/ r.run \in 1 .. gateways[r.at].run
  <2>1. CASE Forwarded(r)
    BY <2>1 DEF RequestInv, Passed
  <2>2. CASE r.phase = "marked"
    BY <2>2 DEF RequestInv, Underway, Alive
  <2> QED BY <2>1, <2>2 DEF HasMark
<1>2. gateways[r.at].run \in Nat /\ now \in Nat
  BY <1>1, GatewayConstants DEF Shapes, IsProcess, Runs
<1>3. r.bundle.nonce \in Nonces /\ r.bundle.stamp \in Nat
  BY <1>1, GatewayConstants
<1>4. Store(r.at) \in Stores
  BY <1>1 DEF Store, Stores
<1> QED BY <1>1, <1>2, <1>3, <1>4

LEMMA RequestStays ==
    ASSUME Shapes, NEW r, RequestInv(r),
           config' = config, now' \in Nat, now <= now', SameRuns
    PROVE  RequestInv(r)'
<1>1. now \in Nat /\ 0 .. now \subseteq 0 .. now'
  BY DEF Shapes
<1>2. Underway(r) => Underway(r)'
  BY <1>1 DEF Underway, SameRuns, Registered
<1>3. Passed(r) => Passed(r)'
  BY <1>1 DEF Passed, SameRuns, Granted, Registered, Needed
<1> QED BY <1>2, <1>3 DEF RequestInv, Alive, Forwarded

NoncesGrow ==
    /\ nonces' \in [Stores -> [Nonces -> Nat]]
    /\ \A s \in Stores, n \in Nonces : nonces[s][n] <= nonces'[s][n]

LEMMA MarkStays ==
    ASSUME Shapes, NEW r, RequestInv(r), MarkHeld(r), config' = config, SameRuns, NoncesGrow
    PROVE  MarkHeld(r)'
<1>1. SUFFICES ASSUME HasMark(r), StoreLives(r)'
               PROVE  nonces'[Store(r.at)][r.bundle.nonce] >= r.marked + MaxProofAge
  BY DEF MarkHeld, HasMark, Forwarded, Store
<1>2. /\ r.at \in Instances /\ r.bundle.nonce \in Nonces /\ r.marked \in Nat
      /\ Store(r.at) \in Stores
  BY <1>1, MarkFacts
<1>3. StoreLives(r)
  BY <1>1, <1>2 DEF StoreLives, SameRuns
<1>4. nonces[Store(r.at)][r.bundle.nonce] >= r.marked + MaxProofAge
  BY <1>1, <1>3 DEF MarkHeld
<1>5. nonces[Store(r.at)][r.bundle.nonce] \in Nat /\ nonces'[Store(r.at)][r.bundle.nonce] \in Nat
  BY <1>2 DEF Shapes, NoncesGrow
<1>6. nonces[Store(r.at)][r.bundle.nonce] <= nonces'[Store(r.at)][r.bundle.nonce]
  BY <1>2 DEF NoncesGrow
<1> QED BY <1>2, <1>4, <1>5, <1>6, GatewayConstants

\* A step that is about one request, which becomes d.
Replaces(q, d) ==
    /\ requests' = [requests EXCEPT ![q] = d]
    /\ config' = config /\ now' = now
    /\ SameRuns /\ KeepsShapes /\ NoncesGrow

LEMMA OneChanges ==
    ASSUME GatewayInv, NEW q \in Requests, NEW d, Replaces(q, d),
           IsRequest(d), RequestInv(d)', MarkHeld(d)',
           \A p \in Requests : p # q => MarksApart(requests[p], d)
    PROVE  GatewayInv'
<1>1. /\ Shapes
      /\ \A p \in Requests : RequestInv(requests[p]) /\ MarkHeld(requests[p])
      /\ \A p1, p2 \in Requests : p1 # p2 => MarksApart(requests[p1], requests[p2])
  BY DEF GatewayInv
<1>2. /\ requests'[q] = d /\ DOMAIN requests' = Requests
      /\ requests' = [p \in Requests |-> requests'[p]]
      /\ \A p \in Requests : p # q => requests'[p] = requests[p]
  BY <1>1 DEF Replaces, Shapes
<1>3. now \in Nat /\ now' = now /\ config' = config /\ SameRuns /\ NoncesGrow /\ KeepsShapes
  BY <1>1 DEF Shapes, Replaces
<1>4. \A p \in Requests : IsRequest(requests'[p])
  BY <1>1, <1>2 DEF Shapes
<1>5. Shapes'
  <2>1. \A p \in Requests : IsRequest(requests[p])'
    BY <1>4 DEF IsRequest
  <2>2. \A g \in Instances : IsProcess(gateways[g])'
    BY <1>3 DEF KeepsShapes, IsProcess, Runs
  <2> QED BY <1>1, <1>2, <1>3, <2>1, <2>2 DEF Shapes, KeepsShapes, NoncesGrow, Stores, Runs
<1>6. ASSUME NEW p \in Requests PROVE RequestInv(requests[p])' /\ MarkHeld(requests[p])'
  <2>1. PICK r : r = requests'[p]
    OBVIOUS
  <2>2. RequestInv(r)' /\ MarkHeld(r)'
    <3>1. CASE p = q
      BY <3>1, <2>1, <1>2
    <3>2. CASE p # q
      <4>1. RequestInv(r) /\ MarkHeld(r)
        BY <3>2, <2>1, <1>1, <1>2
      <4>2. RequestInv(r)'
        BY <4>1, <1>1, <1>3, RequestStays
      <4>3. MarkHeld(r)'
        BY <4>1, <1>1, <1>3, MarkStays
      <4> QED BY <4>2, <4>3
    <3> QED BY <3>1, <3>2
  <2> QED BY <2>1, <2>2
<1>7. ASSUME NEW p1 \in Requests, NEW p2 \in Requests, p1 # p2
      PROVE  MarksApart(requests[p1], requests[p2])'
  <2>1. PICK r1, r2 : r1 = requests'[p1] /\ r2 = requests'[p2]
    OBVIOUS
  <2>2. MarksApart(r1, r2)
    <3>1. CASE p1 # q /\ p2 # q
      BY <3>1, <2>1, <1>1, <1>2, <1>7
    <3>2. CASE p2 = q
      BY <3>2, <2>1, <1>2, <1>7
    <3>3. CASE p1 = q
      <4>1. MarksApart(r2, r1)
        BY <3>3, <2>1, <1>2, <1>7
      <4> QED BY <4>1 DEF MarksApart, OneStore
    <3> QED BY <3>1, <3>2, <3>3
  <2>3. MarksApart(r1, r2)'
    BY <2>2, <1>3 DEF MarksApart, HasMark, Forwarded, OneStore
  <2> QED BY <2>1, <2>3
<1> QED BY <1>5, <1>6, <1>7 DEF GatewayInv

-----------------------------------------------------------------------------
(* Decisions.                                                              *)

Decided(r, outcome) == [r EXCEPT !.phase = "done", !.outcome = outcome]

\* A decision changes one request, and may sign a receipt.
LEMMA DecisionReplaces ==
    ASSUME Shapes, NEW q \in Requests, NEW r, NEW outcome, r.at \in Instances, NoncesGrow,
           Decide(q, r, outcome)
    PROVE  Replaces(q, Decided(r, outcome))
<1>1. requests' = [requests EXCEPT ![q] = Decided(r, outcome)] /\ config' = config /\ now' = now
  BY DEF Decide, Decided
<1>2. SameRuns /\ KeepsShapes
  <2>1. CASE r.method = "call"
    BY <2>1, ReceiptShapes DEF Decide
  <2>2. CASE r.method # "call"
    <3>1. gateways' = gateways /\ signed' = signed
      BY <2>2 DEF Decide
    <3> QED BY <3>1 DEF Shapes, SameRuns, KeepsShapes
  <2> QED BY <2>1, <2>2
<1> QED BY <1>1, <1>2 DEF Replaces

LEMMA DecidedFields ==
    ASSUME NEW r, NEW outcome, IsRequest(r)
    PROVE  /\ IsRequest(Decided(r, outcome))
           /\ Decided(r, outcome).phase = "done" /\ Decided(r, outcome).outcome = outcome
           /\ Decided(r, outcome).at = r.at /\ Decided(r, outcome).run = r.run
           /\ Decided(r, outcome).method = r.method /\ Decided(r, outcome).tool = r.tool
           /\ Decided(r, outcome).bundle = r.bundle /\ Decided(r, outcome).marked = r.marked
           /\ Decided(r, outcome).context = r.context
<1>1. r = [phase |-> r.phase, at |-> r.at, run |-> r.run, method |-> r.method, tool |-> r.tool,
           bundle |-> r.bundle, credential |-> r.credential, marked |-> r.marked,
           context |-> r.context, outcome |-> r.outcome]
  BY DEF IsRequest
<1>2. PICK d : d = Decided(r, outcome)
  OBVIOUS
<1>3. d = [r EXCEPT !.phase = "done", !.outcome = outcome]
  BY <1>2 DEF Decided
<1>4. d =
        [phase |-> "done", at |-> r.at, run |-> r.run, method |-> r.method, tool |-> r.tool,
         bundle |-> r.bundle, credential |-> r.credential, marked |-> r.marked,
         context |-> r.context, outcome |-> outcome]
  BY <1>1, <1>3
<1> QED BY <1>2, <1>4 DEF IsRequest

\* A request that is not forwarded to the upstream server owes nothing.
LEMMA RefusalKeeps ==
    ASSUME GatewayInv, NEW q \in Requests, NEW r, NEW outcome, IsRequest(r), r.at \in Instances,
           NoncesGrow, Decide(q, r, outcome), outcome # "forwarded" \/ r.method = "exempt"
    PROVE  GatewayInv'
<1> DEFINE d == Decided(r, outcome)
<1>1. /\ IsRequest(d) /\ d.phase = "done" /\ d.outcome = outcome /\ d.method = r.method
  BY DecidedFields
<1>2. Replaces(q, d)
  BY DecisionReplaces DEF GatewayInv
<1> HIDE DEF d
<1>3. ~Forwarded(d) /\ ~Alive(d) /\ ~HasMark(d)
  BY <1>1 DEF Forwarded, Alive, HasMark
<1>4. RequestInv(d)' /\ MarkHeld(d)'
  BY <1>1, <1>3 DEF RequestInv, MarkHeld, Forwarded, Alive, HasMark
<1>5. \A p \in Requests : p # q => MarksApart(requests[p], d)
  BY <1>3 DEF MarksApart
<1> QED BY <1>1, <1>2, <1>4, <1>5, OneChanges

NothingElse == UNCHANGED <<gateways, signed>> /\ config' = config /\ now' = now

LEMMA QuietReplaces ==
    ASSUME Shapes, NEW q, NEW d, NothingElse, NoncesGrow,
           requests' = [requests EXCEPT ![q] = d]
    PROVE  Replaces(q, d)
BY DEF Shapes, NothingElse, Replaces, SameRuns, KeepsShapes

LEMMA NoncesStay ==
    ASSUME Shapes, UNCHANGED nonces
    PROVE  NoncesGrow
<1>1. \A s \in Stores, n \in Nonces : nonces[s][n] \in Nat
  BY DEF Shapes
<1> QED BY <1>1 DEF Shapes, NoncesGrow

LEMMA CallersAreRequests == ASSUME Shapes PROVE config.callers \subseteq Requests
BY GatewayConstants DEF Shapes

LEMMA ArriveKeeps ==
    ASSUME GatewayInv, NEW q \in config.callers, NEW g \in Instances, NEW p \in config.calls,
           Arrive(q, g, p)
    PROVE  GatewayInv'
<1>r. PICK r : r = [NewRequest EXCEPT !.at = g, !.run = gateways[g].run, !.method = p.method,
                                      !.tool = p.tool, !.bundle = p.bundle]
  OBVIOUS
<1>c. PICK credential : credential = IF config.devMode THEN None ELSE Resolved(p.bundle)
  OBVIOUS
<1>d. PICK d : d = [r EXCEPT !.phase = "verifying", !.credential = credential,
                             !.context = Judged(p.bundle)]
  OBVIOUS
<1>1. Shapes /\ q \in Requests /\ requests[q].phase = "new"
  BY CallersAreRequests DEF GatewayInv, Arrive
<1>2. NoncesGrow
  BY <1>1, NoncesStay DEF Arrive
<1>3. r = [phase |-> "new", at |-> g, run |-> gateways[g].run, method |-> p.method, tool |-> p.tool,
           bundle |-> p.bundle, credential |-> None, marked |-> None, context |-> Failed,
           outcome |-> None]
  BY <1>r DEF NewRequest
<1>4. IsRequest(r) /\ r.at = g /\ r.method = p.method
  BY <1>3 DEF IsRequest
<1>5. d = [phase |-> "verifying", at |-> g, run |-> gateways[g].run, method |-> p.method,
           tool |-> p.tool, bundle |-> p.bundle, credential |-> credential, marked |-> None,
           context |-> Judged(p.bundle), outcome |-> None]
  BY <1>3, <1>d
<1>6. \/ p.method = "exempt" /\ Decide(q, r, "forwarded")
      \/ Decide(q, r, "unauthorized")
      \/ /\ p.method # "exempt" /\ p.bundle # None
         /\ RefusalBeforeMark(config.devMode, p.bundle, credential) = "ok"
         /\ requests' = [requests EXCEPT ![q] = d]
         /\ UNCHANGED <<config, now, gateways, signed, delivered>>
  BY <1>r, <1>c, <1>d DEF Arrive
<1>7. CASE p.method = "exempt" /\ Decide(q, r, "forwarded")
  BY <1>1, <1>2, <1>4, <1>7, RefusalKeeps
<1>8. CASE Decide(q, r, "unauthorized")
  BY <1>1, <1>2, <1>4, <1>8, RefusalKeeps
<1>9. CASE /\ p.method # "exempt" /\ p.bundle # None
           /\ RefusalBeforeMark(config.devMode, p.bundle, credential) = "ok"
           /\ requests' = [requests EXCEPT ![q] = d]
           /\ UNCHANGED <<config, now, gateways, signed, delivered>>
  <2>1. NothingElse /\ Replaces(q, d)
    BY <1>1, <1>2, <1>9, QuietReplaces DEF NothingElse
  <2>2. /\ IsRequest(d) /\ d.phase = "verifying" /\ d.outcome = None /\ d.at = g
        /\ d.run = gateways[g].run /\ d.method # "exempt" /\ d.bundle = p.bundle
        /\ d.credential = credential /\ d.context = Judged(p.bundle)
    <3>1. IsRequest(d)
      BY <1>5 DEF IsRequest
    <3> QED BY <1>5, <1>9, <3>1
  <2>3. d.bundle \in Presented
    <3>1. config \in Configs /\ p.bundle \in {call.bundle : call \in config.calls}
      BY <1>1 DEF Shapes
    <3>2. p.bundle \in UNION {{call.bundle : call \in c.calls} : c \in Configs}
      BY <3>1, Zenon
    <3>3. p.bundle \in Presented
      BY <1>9, <3>2 DEF Presented
    <3> QED BY <2>2, <3>3
  <2>4. ~config.devMode => Registered(d.bundle) /\ d.credential = Credentials[d.bundle.commitment]
    <3>1. SUFFICES ASSUME ~config.devMode
                   PROVE  Registered(d.bundle) /\ d.credential = Credentials[d.bundle.commitment]
      OBVIOUS
    <3>2. credential = Resolved(p.bundle)
      BY <3>1, <1>c
    <3>3. RefusalBeforeMark(FALSE, p.bundle, credential) = "ok"
      BY <1>9, <3>1 DEF RefusalBeforeMark
    <3>4. credential # None
      BY <3>3, ProductionAccepted
    <3> QED BY <2>2, <3>2, <3>4 DEF Resolved
  <2>5. config.devMode => now \in 0 .. now /\ d.context = DevContext(d.bundle, now, config.minScore)
    BY <1>1, <2>2 DEF Judged, Shapes
  <2>6. Underway(d)
    BY <1>9, <2>2, <2>3, <2>4, <2>5 DEF Underway
  <2>7. ~HasMark(d) /\ ~Forwarded(d)
    BY <2>2, GatewayConstants DEF HasMark, Forwarded
  <2>8. RequestInv(d)
    BY <2>2, <2>6, <2>7 DEF RequestInv
  <2>9. RequestInv(d)'
    BY <1>1, <2>1, <2>8, RequestStays DEF Shapes, Replaces
  <2>10. MarkHeld(d)'
    BY <2>7 DEF MarkHeld, HasMark, Forwarded
  <2>11. \A other \in Requests : other # q => MarksApart(requests[other], d)
    BY <2>7 DEF MarksApart
  <2> QED BY <1>1, <2>1, <2>2, <2>9, <2>10, <2>11, OneChanges
<1> QED BY <1>6, <1>7, <1>8, <1>9

LEMMA NoncesMarked ==
    ASSUME Shapes, NEW s \in Stores, NEW n \in Nonces, nonces[s][n] <= now,
           nonces' = [nonces EXCEPT ![s][n] = now + MaxProofAge]
    PROVE  NoncesGrow /\ nonces'[s][n] = now + MaxProofAge
<1>1. nonces \in [Stores -> [Nonces -> Nat]] /\ now + MaxProofAge \in Nat
  BY GatewayConstants DEF Shapes
<1>2. nonces' \in [Stores -> [Nonces -> Nat]] /\ nonces'[s][n] = now + MaxProofAge
  BY <1>1
<1>3. ASSUME NEW s1 \in Stores, NEW n1 \in Nonces PROVE nonces[s1][n1] <= nonces'[s1][n1]
  <2>1. CASE s1 = s /\ n1 = n
    BY <1>1, <1>2, <2>1, GatewayConstants DEF Shapes
  <2>2. CASE ~(s1 = s /\ n1 = n)
    <3>1. nonces'[s1][n1] = nonces[s1][n1] /\ nonces[s1][n1] \in Nat
      BY <1>1, <2>2
    <3> QED BY <3>1
  <2> QED BY <2>1, <2>2
<1> QED BY <1>2, <1>3 DEF NoncesGrow

LEMMA MarkIfFreshKeeps ==
    ASSUME GatewayInv, NEW q \in config.callers, MarkIfFresh(q)
    PROVE  GatewayInv'
<1>r. PICK r : r = requests[q]
  OBVIOUS
<1>n. PICK n : n = r.bundle.nonce
  OBVIOUS
<1>s. PICK s : s = Store(r.at)
  OBVIOUS
<1>1. /\ Shapes /\ q \in Requests /\ IsRequest(r) /\ RequestInv(r)
      /\ r.phase = "verifying" /\ r.outcome = None
      /\ \A p \in Requests : RequestInv(requests[p]) /\ MarkHeld(requests[p])
  BY <1>r, CallersAreRequests, ZenonT(60) DEF GatewayInv, Shapes, MarkIfFresh, RequestInv
<1>2. Underway(r) /\ r.at \in Instances /\ r.bundle \in Presented
  BY <1>1 DEF RequestInv, Alive, Underway
<1>3. n \in Nonces /\ s \in Stores
  BY <1>2, <1>n, <1>s, GatewayConstants DEF Store, Stores
<1>4. now \in Nat /\ MaxProofAge \in Nat \ {0}
  BY <1>1, GatewayConstants DEF Shapes
<1>5. \/ /\ nonces[s][n] <= now
         /\ nonces' = [nonces EXCEPT ![s][n] = now + MaxProofAge]
         /\ requests' = [requests EXCEPT ![q].phase = "marked", ![q].marked = now]
         /\ UNCHANGED <<config, now, gateways, signed, delivered>>
      \/ /\ \/ nonces' = nonces
            \/ nonces[s][n] <= now /\ nonces' = [nonces EXCEPT ![s][n] = now + MaxProofAge]
         /\ Decide(q, [r EXCEPT !.context = Failed], "unauthorized")
  BY <1>r, <1>n, <1>s DEF MarkIfFresh, Retention
<1>6. CASE /\ \/ nonces' = nonces
              \/ nonces[s][n] <= now /\ nonces' = [nonces EXCEPT ![s][n] = now + MaxProofAge]
           /\ Decide(q, [r EXCEPT !.context = Failed], "unauthorized")
  <2>1. NoncesGrow
    BY <1>1, <1>3, <1>6, NoncesStay, NoncesMarked
  <2>2. PICK d : d = [r EXCEPT !.context = Failed]
    OBVIOUS
  <2>3. r = [phase |-> r.phase, at |-> r.at, run |-> r.run, method |-> r.method, tool |-> r.tool,
             bundle |-> r.bundle, credential |-> r.credential, marked |-> r.marked,
             context |-> r.context, outcome |-> r.outcome]
    BY <1>1 DEF IsRequest
  <2>4. d = [phase |-> r.phase, at |-> r.at, run |-> r.run, method |-> r.method, tool |-> r.tool,
             bundle |-> r.bundle, credential |-> r.credential, marked |-> r.marked,
             context |-> Failed, outcome |-> r.outcome]
    BY <2>2, <2>3
  <2>5. IsRequest(d) /\ d.at \in Instances
    BY <1>2, <2>4 DEF IsRequest
  <2>6. Decide(q, d, "unauthorized")
    BY <1>6, <2>2
  <2> QED BY <1>1, <2>1, <2>5, <2>6, RefusalKeeps
<1>7. CASE /\ nonces[s][n] <= now
           /\ nonces' = [nonces EXCEPT ![s][n] = now + MaxProofAge]
           /\ requests' = [requests EXCEPT ![q].phase = "marked", ![q].marked = now]
           /\ UNCHANGED <<config, now, gateways, signed, delivered>>
  <2>1. PICK d : d = [r EXCEPT !.phase = "marked", !.marked = now]
    OBVIOUS
  <2>2. r = [phase |-> r.phase, at |-> r.at, run |-> r.run, method |-> r.method, tool |-> r.tool,
             bundle |-> r.bundle, credential |-> r.credential, marked |-> r.marked,
             context |-> r.context, outcome |-> r.outcome]
    BY <1>1 DEF IsRequest
  <2>3. d = [phase |-> "marked", at |-> r.at, run |-> r.run, method |-> r.method, tool |-> r.tool,
             bundle |-> r.bundle, credential |-> r.credential, marked |-> now,
             context |-> r.context, outcome |-> r.outcome]
    BY <2>1, <2>2
  <2>4. /\ IsRequest(d) /\ d.phase = "marked" /\ d.marked = now /\ d.outcome = None
        /\ d.at = r.at /\ d.run = r.run /\ d.method = r.method /\ d.bundle = r.bundle
        /\ d.credential = r.credential /\ d.context = r.context
    <3>1. IsRequest(d)
      BY <2>3 DEF IsRequest
    <3> QED BY <1>1, <2>3, <3>1
  <2>5. requests' = [requests EXCEPT ![q] = d]
    BY <1>1, <1>7, <1>r, <2>1 DEF Shapes
  <2>6. NoncesGrow /\ nonces'[s][n] = now + MaxProofAge
    BY <1>1, <1>3, <1>7, NoncesMarked
  <2>7. NothingElse /\ Replaces(q, d)
    BY <1>1, <1>7, <2>5, <2>6, QuietReplaces DEF NothingElse
  <2>8. Underway(d)
    BY <1>2, <1>4, <2>4 DEF Underway
  <2>9. RequestInv(d) /\ ~Forwarded(d)
    BY <2>4, <2>8, GatewayConstants DEF RequestInv, Forwarded
  <2>10. RequestInv(d)'
    <3>1. config' = config /\ now' \in Nat /\ now <= now' /\ SameRuns
      BY <1>4, <2>7 DEF Replaces
    <3> QED BY <1>1, <2>9, <3>1, RequestStays
  <2>11. MarkHeld(d)'
    <3>1. nonces'[Store(d.at)][d.bundle.nonce] = d.marked + MaxProofAge
      BY <1>n, <1>s, <2>4, <2>6
    <3>2. config' = config
      BY <1>7
    <3> QED BY <1>4, <2>4, <3>1, <3>2 DEF MarkHeld, Store
  <2>12. ASSUME NEW p \in Requests, p # q PROVE MarksApart(requests[p], d)
    <3>1. PICK o : o = requests[p]
      OBVIOUS
    <3>2. RequestInv(o) /\ MarkHeld(o)
      BY <1>1, <3>1
    <3>3. SUFFICES ASSUME HasMark(o), o.bundle.nonce = d.bundle.nonce, OneStore(o, d)
                   PROVE  o.marked + MaxProofAge <= d.marked
      BY <3>1 DEF MarksApart
    <3>4. o.marked \in Nat
      BY <1>1, <3>2, <3>3, MarkFacts
    <3>5. StoreLives(o) /\ Store(o.at) = s
      BY <1>2, <1>s, <2>4, <3>3 DEF StoreLives, OneStore, Store, Underway
    <3>6. nonces[s][n] >= o.marked + MaxProofAge
      BY <3>2, <3>3, <3>5, <1>n, <2>4 DEF MarkHeld
    <3>7. nonces[s][n] \in Nat
      BY <1>1, <1>3 DEF Shapes
    <3> QED BY <1>4, <1>7, <2>4, <3>4, <3>6, <3>7
  <2> QED BY <1>1, <2>4, <2>7, <2>10, <2>11, <2>12, OneChanges
<1> QED BY <1>5, <1>6, <1>7

\* The score that a forwarded request was given had the points of a fresh nonce,
\* when the minimum is above 90.
LEMMA DevForwardedFresh ==
    ASSUME NEW b \in Presented, NEW t \in Nat, NEW minScore \in Nat, minScore > 90,
           DevContext(b, t, minScore).verified
    PROVE  b.stamp <= t
<1>1. PICK score : (\E leaf : score = Score(b, t, leaf, TRUE, TRUE)) /\ score >= minScore
  BY DEF DevContext, Context
<1>2. PICK leaf : score = Score(b, t, leaf, TRUE, TRUE)
  BY <1>1
<1>3. score \in Nat
  BY <1>2 DEF Score, Points
<1>4. NonceFresh(b, t)
  <2>1. score >= minScore
    BY <1>1, Zenon
  <2>3. score > 90
    BY <1>3, <2>1
  <2>2. Score(b, t, leaf, TRUE, TRUE) > 90
    BY <1>2, <2>3
  <2> QED BY <2>2, HighScoreIsFresh
<1>5. b.stamp \in Nat
  BY GatewayConstants
<1> QED BY <1>4, <1>5 DEF NonceFresh

LEMMA ProductionForwardedFresh ==
    ASSUME NEW b \in Presented, NEW t \in Nat, NEW minScore \in Nat, minScore > 90, NEW credential,
           ProductionContext(b, t, minScore, credential).verified
    PROVE  t < b.stamp + MaxProofAge
<1>1. b.proves = credential /\ ~TooDeep(b)
  BY DEF ProductionContext, Failed, Context
<1>2. PICK score : /\ \E leaf, valid, unexpired : score = Score(b, t, leaf, valid, unexpired)
                   /\ score >= minScore
  BY <1>1 DEF ProductionContext, Context
<1>3. PICK leaf, valid, unexpired : score = Score(b, t, leaf, valid, unexpired)
  BY <1>2
<1>4. score \in Nat
  BY <1>3 DEF Score, Points
<1>5. NonceFresh(b, t)
  <2>1. Score(b, t, leaf, valid, unexpired) > 90
    BY <1>2, <1>3, <1>4
  <2> QED BY <2>1, HighScoreIsFresh
<1>6. b.stamp \in Nat
  BY GatewayConstants
<1> QED BY <1>5, <1>6, GatewayConstants DEF NonceFresh

LEMMA FinishKeeps ==
    ASSUME GatewayInv, NEW q \in config.callers, Finish(q)
    PROVE  GatewayInv'
<1>r. PICK r : r = requests[q]
  OBVIOUS
<1>x. PICK context : context = IF config.devMode THEN r.context
                               ELSE ProductionContext(r.bundle, now, config.minScore, r.credential)
  OBVIOUS
<1>o. PICK outcome : outcome = Outcome(r.method, r.tool, r.bundle, context)
  OBVIOUS
<1>e. PICK e : e = [r EXCEPT !.context = context]
  OBVIOUS
<1>1. /\ Shapes /\ q \in Requests /\ IsRequest(r) /\ RequestInv(r) /\ MarkHeld(r)
      /\ r.phase = "marked" /\ r.outcome = None /\ Decide(q, e, outcome)
      /\ \A p \in Requests : p # q => MarksApart(requests[p], r)
  BY <1>r, <1>x, <1>o, <1>e, CallersAreRequests DEF GatewayInv, Shapes, Finish, RequestInv
<1>2. Underway(r) /\ r.at \in Instances /\ r.bundle \in Presented /\ r.marked \in 0 .. now
  BY <1>1 DEF RequestInv, Alive, Underway
<1>3. now \in Nat /\ config.minScore \in Nat /\ MaxProofAge \in Nat \ {0}
  BY <1>1, GatewayConstants DEF Shapes
<1>4. NoncesGrow
  BY <1>1, NoncesStay DEF Finish
<1>5. e = [phase |-> r.phase, at |-> r.at, run |-> r.run, method |-> r.method, tool |-> r.tool,
           bundle |-> r.bundle, credential |-> r.credential, marked |-> r.marked,
           context |-> context, outcome |-> r.outcome]
  <2>1. r = [phase |-> r.phase, at |-> r.at, run |-> r.run, method |-> r.method, tool |-> r.tool,
             bundle |-> r.bundle, credential |-> r.credential, marked |-> r.marked,
             context |-> r.context, outcome |-> r.outcome]
    BY <1>1 DEF IsRequest
  <2> QED BY <1>e, <2>1
<1>6. IsRequest(e)
  BY <1>5 DEF IsRequest
<1>7. PICK d : d = Decided(e, outcome)
  OBVIOUS
<1>8. /\ IsRequest(d) /\ d.phase = "done" /\ d.outcome = outcome /\ d.at = r.at /\ d.run = r.run
      /\ d.method = r.method /\ d.tool = r.tool /\ d.bundle = r.bundle /\ d.marked = r.marked
      /\ d.context = context
  BY <1>5, <1>6, <1>7, DecidedFields
<1>9. Replaces(q, d)
  <2>1. e.at \in Instances
    BY <1>2, <1>5
  <2> QED BY <1>1, <1>4, <1>7, <2>1, DecisionReplaces
<1>10. ASSUME Forwarded(d) PROVE Passed(d)
  <2>1. outcome = "forwarded"
    BY <1>8, <1>10 DEF Forwarded
  <2>2. context.verified
    BY <1>o, <2>1, ForwardedNeeds
  <2>3. CASE config.devMode
    <3>1. PICK t \in 0 .. now : context = DevContext(r.bundle, t, config.minScore) /\ t <= r.marked
      BY <1>1, <1>2, <1>x, <2>3 DEF Underway
    <3>2. RefusalBeforeMark(TRUE, r.bundle, r.credential) = "ok"
      BY <1>2, <2>3 DEF Underway, RefusalBeforeMark
    <3>3. config.binding => Granted(r.method, r.tool, r.bundle, context)
      BY <1>2, <1>o, <2>1, <2>3, <3>1, <3>2, DevForwardedGranted
    <3>4. config.minScore > 90 => r.bundle.stamp <= t
      BY <1>2, <1>3, <2>2, <3>1, DevForwardedFresh
    <3>5. r.bundle.stamp \in Nat /\ r.run = gateways[r.at].run /\ gateways[r.at].run \in Runs
      BY <1>1, <1>2, GatewayConstants DEF Underway, Shapes, IsProcess
    <3>6. config.minScore > 90 => r.bundle.stamp <= r.marked
      BY <1>2, <3>1, <3>4, <3>5
    <3>7. r.run \in 1 .. gateways[r.at].run
      BY <3>5, GatewayConstants DEF Runs
    <3> QED BY <1>2, <1>8, <2>3, <3>3, <3>6, <3>7 DEF Passed
  <2>4. CASE ~config.devMode
    <3>1. /\ Registered(r.bundle) /\ r.credential = Credentials[r.bundle.commitment]
          /\ context = ProductionContext(r.bundle, now, config.minScore, r.credential)
      BY <1>2, <1>x, <2>4 DEF Underway
    <3>2. Granted(r.method, r.tool, r.bundle, context)
      BY <1>2, <1>o, <2>1, <3>1, ProductionForwardedGranted
    <3>3. config.minScore > 90 => now < r.bundle.stamp + MaxProofAge
      BY <1>2, <1>3, <2>2, <3>1, ProductionForwardedFresh
    <3>4. r.bundle.stamp \in Nat /\ r.run = gateways[r.at].run /\ gateways[r.at].run \in Runs
      BY <1>1, <1>2, GatewayConstants DEF Underway, Shapes, IsProcess
    <3>5. config.minScore > 90 => r.marked < r.bundle.stamp + MaxProofAge
      BY <1>2, <1>3, <3>3, <3>4
    <3>6. r.run \in 1 .. gateways[r.at].run
      BY <3>4, GatewayConstants DEF Runs
    <3> QED BY <1>2, <1>8, <2>4, <3>2, <3>5, <3>6 DEF Passed
  <2> QED BY <2>3, <2>4
<1>11. RequestInv(d)
  BY <1>8, <1>10 DEF RequestInv, Alive
<1>12. RequestInv(d)'
  <2>1. config' = config /\ now' \in Nat /\ now <= now' /\ SameRuns
    BY <1>3, <1>9 DEF Replaces
  <2> QED BY <1>1, <1>11, <2>1, RequestStays
<1>13. HasMark(r)
  BY <1>1 DEF HasMark
<1>14. MarkHeld(d)'
  <2>1. MarkHeld(r)'
    BY <1>1, <1>4, <1>9, MarkStays DEF Replaces
  <2> QED BY <1>1, <1>8, <2>1 DEF MarkHeld, HasMark, Forwarded, StoreLives, Store
<1>15. \A p \in Requests : p # q => MarksApart(requests[p], d)
  BY <1>1, <1>8, <1>13 DEF MarksApart, OneStore
<1> QED BY <1>1, <1>8, <1>9, <1>12, <1>14, <1>15, OneChanges

-----------------------------------------------------------------------------
(* The writer, the clock and restarts.                                     *)

LEMMA WriteKeeps ==
    ASSUME GatewayInv, NEW g \in Instances, NEW e \in gateways[g].pending, Write(g, e)
    PROVE  GatewayInv'
<1>1. /\ Shapes
      /\ gateways' = [gateways EXCEPT ![g].pending = @ \ {e}]
      /\ config' = config /\ now' = now /\ nonces' = nonces
      /\ requests' = requests /\ signed' = signed
  BY DEF Write, GatewayInv
<1>2. PICK gw : gw = gateways[g]
  OBVIOUS
<1>3. DOMAIN gateways' = Instances /\ gateways' = [h \in Instances |-> gateways'[h]]
  BY <1>1 DEF Shapes
<1>4. \A h \in Instances \ {g} : gateways'[h] = gateways[h]
  BY <1>1 DEF Shapes
<1>5. gateways'[g] = [gw EXCEPT !.pending = gw.pending \ {e}]
  BY <1>1, <1>2 DEF Shapes
<1>6. gw = [run |-> gw.run, chain |-> gw.chain, pending |-> gw.pending] /\ gw.run \in Runs
  BY <1>1, <1>2 DEF Shapes, IsProcess
<1>7. gateways'[g] = [run |-> gw.run, chain |-> gw.chain, pending |-> gw.pending \ {e}]
  BY <1>5, <1>6
<1>8. \A h \in Instances : IsProcess(gateways'[h]) /\ gateways'[h].run = gateways[h].run
  BY <1>1, <1>2, <1>4, <1>6, <1>7, ZenonT(60) DEF Shapes, IsProcess
<1>9. SameRuns
  BY <1>8 DEF SameRuns
<1>10. Shapes'
  <2>1. \A h \in Instances : IsProcess(gateways[h])'
    BY <1>8 DEF IsProcess, Runs
  <2>2. \A q \in Requests : IsRequest(requests[q])'
    BY <1>1 DEF Shapes, IsRequest
  <2> QED BY <1>1, <1>3, <2>1, <2>2, ZenonT(60) DEF Shapes, Stores, Runs
<1>11. NoncesGrow
  BY <1>1, NoncesStay
<1>12. ASSUME NEW q \in Requests PROVE RequestInv(requests[q])' /\ MarkHeld(requests[q])'
  <2>1. PICK r : r = requests[q]
    OBVIOUS
  <2>2. RequestInv(r) /\ MarkHeld(r)
    BY <2>1 DEF GatewayInv
  <2>3. now' \in Nat /\ now <= now'
    BY <1>1 DEF Shapes
  <2>4. RequestInv(r)' /\ MarkHeld(r)'
    BY <1>1, <1>9, <1>11, <2>2, <2>3, RequestStays, MarkStays
  <2>5. requests'[q] = r
    BY <1>1, <2>1
  <2> QED BY <2>4, <2>5
<1>13. \A q1, q2 \in Requests : q1 # q2 => MarksApart(requests[q1], requests[q2])'
  BY <1>1 DEF GatewayInv, MarksApart, HasMark, Forwarded, OneStore
<1> QED BY <1>10, <1>12, <1>13 DEF GatewayInv

LEMMA TickKeeps ==
    ASSUME GatewayInv, Tick
    PROVE  GatewayInv'
<1>1. /\ Shapes /\ now \in Nat /\ now' = now + 1
      /\ UNCHANGED <<config, nonces, gateways, requests, signed, delivered>>
  BY DEF Tick, GatewayInv, Shapes
<1>2. now' \in Nat /\ now <= now'
  BY <1>1
<1>3. SameRuns
  BY <1>1 DEF SameRuns
<1>4. Shapes'
  <2>1. \A h \in Instances : IsProcess(gateways[h])'
    BY <1>1 DEF Shapes, IsProcess, Runs
  <2>2. \A q \in Requests : IsRequest(requests[q])'
    BY <1>1 DEF Shapes, IsRequest
  <2> QED BY <1>1, <1>2, <2>1, <2>2 DEF Shapes, Stores, Runs
<1>5. NoncesGrow
  BY <1>1, NoncesStay
<1>6. ASSUME NEW q \in Requests PROVE RequestInv(requests[q])' /\ MarkHeld(requests[q])'
  <2>1. PICK r : r = requests[q]
    OBVIOUS
  <2>2. RequestInv(r) /\ MarkHeld(r)
    BY <2>1 DEF GatewayInv
  <2>4. RequestInv(r)' /\ MarkHeld(r)'
    BY <1>1, <1>2, <1>3, <1>5, <2>2, RequestStays, MarkStays
  <2>5. requests'[q] = r
    BY <1>1, <2>1
  <2> QED BY <2>4, <2>5
<1>7. \A q1, q2 \in Requests : q1 # q2 => MarksApart(requests[q1], requests[q2])'
  BY <1>1 DEF GatewayInv, MarksApart, HasMark, Forwarded, OneStore
<1> QED BY <1>4, <1>6, <1>7 DEF GatewayInv

\* A restart ends the requests of the process, and with its memory no mark of a
\* store that lives is lost.
LEMMA RestartKeeps ==
    ASSUME GatewayInv, NEW g \in Instances, Restart(g)
    PROVE  GatewayInv'
<1>1. /\ Shapes /\ gateways[g].run \in Runs /\ gateways[g].run < MaxRuns
      /\ gateways' = [gateways EXCEPT ![g] = NewProcess(@.run + 1)]
      /\ nonces' = [nonces EXCEPT ![g] = [n \in Nonces |-> 0]]
      /\ requests' = [q \in Requests |->
             IF requests[q].at = g /\ requests[q].phase \in {"verifying", "marked"}
             THEN [requests[q] EXCEPT !.phase = "done", !.outcome = "dead"] ELSE requests[q]]
      /\ config' = config /\ now' = now /\ signed' = signed
  BY DEF Restart, GatewayInv, Shapes, IsProcess
<1>2. gateways[g].run + 1 \in Runs
  <2>1. PICK n : n = gateways[g].run
    OBVIOUS
  <2>2. n \in 1 .. MaxRuns /\ n < MaxRuns /\ MaxRuns \in Nat
    BY <1>1, <2>1, GatewayConstants DEF Runs
  <2>3. n + 1 \in 1 .. MaxRuns
    BY <2>2
  <2> QED BY <2>1, <2>3 DEF Runs
<1>3. /\ DOMAIN gateways' = Instances /\ gateways' = [h \in Instances |-> gateways'[h]]
      /\ gateways'[g] = [run |-> gateways[g].run + 1, chain |-> Genesis, pending |-> {}]
      /\ \A h \in Instances \ {g} : gateways'[h] = gateways[h]
  BY <1>1 DEF Shapes, NewProcess
<1>4. \A h \in Instances : IsProcess(gateways'[h])
  <2>1. IsProcess(gateways'[g])
    BY <1>2, <1>3 DEF IsProcess
  <2>2. \A h \in Instances : IsProcess(gateways[h])
    BY <1>1 DEF Shapes
  <2> QED BY <1>3, <2>1, <2>2
<1>5. /\ nonces' \in [Stores -> [Nonces -> Nat]]
      /\ \A s \in Stores \ {g} : nonces'[s] = nonces[s]
  BY <1>1 DEF Shapes, Stores
<1>6. \A h \in Instances : gateways[h].run \in Nat
  <2>1. \A h \in Instances : gateways[h].run \in 1 .. MaxRuns
    BY <1>1 DEF Shapes, IsProcess, Runs
  <2> QED BY <2>1
<1>7. ASSUME NEW q \in Requests
      PROVE  /\ IsRequest(requests'[q])
             /\ \/ requests'[q] = requests[q] /\ ~(Alive(requests[q]) /\ requests[q].at = g)
                \/ requests'[q].phase = "done" /\ requests'[q].outcome = "dead"
  <2>1. PICK r : r = requests[q]
    OBVIOUS
  <2>2. r = [phase |-> r.phase, at |-> r.at, run |-> r.run, method |-> r.method, tool |-> r.tool,
             bundle |-> r.bundle, credential |-> r.credential, marked |-> r.marked,
             context |-> r.context, outcome |-> r.outcome]
    BY <1>1, <2>1 DEF Shapes, IsRequest
  <2>3. CASE r.at = g /\ r.phase \in {"verifying", "marked"}
    <3>1. PICK d : d = Decided(r, "dead")
      OBVIOUS
    <3>2. requests'[q] = d
      BY <1>1, <2>1, <2>3, <3>1 DEF Decided
    <3>3. IsRequest(d) /\ d.phase = "done" /\ d.outcome = "dead"
      BY <2>2, <3>1, DecidedFields DEF IsRequest
    <3> QED BY <3>2, <3>3
  <2>4. CASE ~(r.at = g /\ r.phase \in {"verifying", "marked"})
    <3>1. requests'[q] = r /\ IsRequest(r)
      BY <1>1, <2>1, <2>4, <2>2 DEF IsRequest
    <3> QED BY <2>1, <2>4, <3>1 DEF Alive
  <2> QED BY <2>3, <2>4
<1>8. Shapes'
  <2>1. \A h \in Instances : IsProcess(gateways[h])'
    BY <1>4 DEF IsProcess, Runs
  <2>2. \A q \in Requests : IsRequest(requests[q])'
    BY <1>7 DEF IsRequest
  <2>3. DOMAIN requests' = Requests /\ requests' = [q \in Requests |-> requests'[q]]
    BY <1>1
  <2>4. config' \in Configs /\ now' \in Nat
    BY <1>1 DEF Shapes
  <2>5. signed' = [h \in Instances |-> [run \in Runs |-> signed'[h][run]]]
    BY <1>1, ZenonT(60) DEF Shapes
  <2> QED BY <1>3, <1>5, <2>1, <2>2, <2>3, <2>4, <2>5 DEF Shapes, Stores, Runs
<1>9. ASSUME NEW r, RequestInv(r), MarkHeld(r), ~(Alive(r) /\ r.at = g)
      PROVE  RequestInv(r)' /\ MarkHeld(r)'
  <2>1. Underway(r) /\ r.at # g => Underway(r)'
    BY <1>1, <1>3, ZenonT(60) DEF Underway, Registered
  <2>2. Passed(r) => Passed(r)'
    <3>1. SUFFICES ASSUME Passed(r) PROVE Passed(r)'
      OBVIOUS
    <3>2. r.at \in Instances /\ r.run \in 1 .. gateways[r.at].run
      BY <3>1 DEF Passed
    <3>3. r.run \in 1 .. gateways'[r.at].run
      BY <1>3, <1>6, <3>2
    <3> QED BY <1>1, <3>1, <3>3 DEF Passed, Granted, Registered, Needed
  <2>3. RequestInv(r)'
    BY <1>9, <2>1, <2>2 DEF RequestInv, Alive, Forwarded
  <2>4. ASSUME HasMark(r), StoreLives(r)'
        PROVE  StoreLives(r) /\ Store(r.at) # g
    <3>1. r.at \in Instances /\ r.run <= gateways[r.at].run /\ r.run \in Nat
      BY <1>1, <1>9, <2>4, MarkFacts
    <3>2. CASE config.store = "redis"
      BY <3>2, GatewayConstants DEF StoreLives, Store
    <3>3. CASE config.store # "redis" /\ r.at = g
      <4>1. r.run = gateways[g].run + 1
        <5>1. config' = config
          BY <1>1
        <5>2. r.run = gateways'[g].run
          BY <2>4, <3>3, <5>1 DEF StoreLives
        <5> QED BY <1>3, <5>2
      <4>2. gateways[g].run \in Nat /\ r.run <= gateways[g].run
        BY <1>6, <3>1, <3>3
      <4> QED BY <4>1, <4>2
    <3>4. CASE config.store # "redis" /\ r.at # g
      BY <1>1, <1>3, <2>4, <3>1, <3>4 DEF StoreLives, Store
    <3> QED BY <3>2, <3>3, <3>4
  <2>5. MarkHeld(r)'
    <3>1. SUFFICES ASSUME HasMark(r), StoreLives(r)'
                   PROVE  nonces'[Store(r.at)][r.bundle.nonce] >= r.marked + MaxProofAge
      BY <1>1 DEF MarkHeld, HasMark, Forwarded, Store
    <3>2. Store(r.at) \in Stores \ {g} /\ StoreLives(r)
      BY <1>1, <1>9, <2>4, <3>1, MarkFacts
    <3>3. nonces'[Store(r.at)] = nonces[Store(r.at)]
      BY <1>5, <3>2
    <3> QED BY <1>9, <3>1, <3>2, <3>3 DEF MarkHeld
  <2> QED BY <2>3, <2>5
<1>10. ASSUME NEW r, r.phase = "done", r.outcome = "dead"
       PROVE  ~HasMark(r) /\ RequestInv(r)' /\ MarkHeld(r)'
  BY <1>10 DEF HasMark, Forwarded, RequestInv, Alive, MarkHeld
<1>11. ASSUME NEW q \in Requests PROVE RequestInv(requests[q])' /\ MarkHeld(requests[q])'
  <2>1. PICK r : r = requests'[q]
    OBVIOUS
  <2>2. RequestInv(r)' /\ MarkHeld(r)'
    BY <1>7, <1>9, <1>10, <2>1 DEF GatewayInv
  <2> QED BY <2>1, <2>2
<1>12. ASSUME NEW q1 \in Requests, NEW q2 \in Requests, q1 # q2
       PROVE  MarksApart(requests[q1], requests[q2])'
  <2>1. PICK r1, r2 : r1 = requests'[q1] /\ r2 = requests'[q2]
    OBVIOUS
  <2>2. MarksApart(r1, r2)
    <3>1. CASE r1 = requests[q1] /\ r2 = requests[q2]
      BY <1>12, <3>1 DEF GatewayInv
    <3>2. CASE ~HasMark(r1) \/ ~HasMark(r2)
      BY <3>2 DEF MarksApart
    <3> QED BY <1>7, <1>10, <2>1, <3>1, <3>2
  <2>3. MarksApart(r1, r2)'
    BY <2>2, <1>1 DEF MarksApart, HasMark, Forwarded, OneStore
  <2> QED BY <2>1, <2>3
<1> QED BY <1>8, <1>11, <1>12 DEF GatewayInv

-----------------------------------------------------------------------------
(* The invariant holds; what the runs check of replays and grants follows.  *)

LEMMA InitInv == Init => GatewayInv
<1> SUFFICES ASSUME Init PROVE GatewayInv
  OBVIOUS
<1>1. \A q \in Requests : requests[q] = NewRequest
  BY DEF Init
<1>2. NewRequest.phase = "new" /\ NewRequest.outcome = None
  BY DEF NewRequest
<1>3. \A q \in Requests : /\ requests[q].phase = "new" /\ requests[q].outcome = None
                          /\ ~HasMark(requests[q]) /\ ~Forwarded(requests[q])
  BY <1>1, <1>2, GatewayConstants DEF HasMark, Forwarded
<1>4. \A q \in Requests : RequestInv(requests[q]) /\ MarkHeld(requests[q])
  BY <1>3 DEF RequestInv, Alive, MarkHeld
<1>5. \A q1, q2 \in Requests : MarksApart(requests[q1], requests[q2])
  BY <1>3 DEF MarksApart
<1> QED BY <1>4, <1>5, InitShapes DEF GatewayInv

LEMMA StepKeeps == GatewayInv /\ [Next]_vars => GatewayInv'
<1> SUFFICES ASSUME GatewayInv, [Next]_vars PROVE GatewayInv'
  OBVIOUS
<1>1. ASSUME NEW q \in config.callers, NEW g \in Instances, NEW p \in config.calls, Arrive(q, g, p)
      PROVE  GatewayInv'
  BY <1>1, ArriveKeeps
<1>2. ASSUME NEW q \in config.callers, MarkIfFresh(q) PROVE GatewayInv'
  BY <1>2, MarkIfFreshKeeps
<1>3. ASSUME NEW q \in config.callers, Finish(q) PROVE GatewayInv'
  BY <1>3, FinishKeeps
<1>4. ASSUME NEW g \in Instances, Restart(g) PROVE GatewayInv'
  BY <1>4, RestartKeeps
<1>5. ASSUME NEW g \in Instances, NEW e \in gateways[g].pending, Write(g, e) PROVE GatewayInv'
  BY <1>5, WriteKeeps
<1>6. CASE Tick
  BY <1>6, TickKeeps
<1>7. CASE UNCHANGED vars
  BY <1>7 DEF vars, GatewayInv, Shapes, Stores, Runs, IsProcess, IsRequest, RequestInv, Alive,
              Forwarded, Underway, Passed, Granted, Registered, Needed, HasMark, MarkHeld,
              StoreLives, Store, MarksApart, OneStore
<1> QED BY <1>1, <1>2, <1>3, <1>4, <1>5, <1>6, <1>7 DEF Next

LEMMA InvHolds == Spec => []GatewayInv
BY InitInv, StepKeeps, PTL DEF Spec

\* Binding, verification and tool policy together: what a forwarded call needs
\* was held by a registered credential and by every delegatee down the chain.
THEOREM GrantsAreHonoured == Spec => []ForwardedWithinGrant
<1>1. GatewayInv => ForwardedWithinGrant
  <2> SUFFICES ASSUME GatewayInv, NEW q \in Requests, Authenticated(q), config.binding
               PROVE  /\ Registered(requests[q].bundle)
                      /\ Needed(requests[q].method, requests[q].tool, requests[q].context)
                            \subseteq Credentials[requests[q].bundle.commitment].mask
                      /\ \A i \in DOMAIN requests[q].bundle.hops :
                            Needed(requests[q].method, requests[q].tool, requests[q].context)
                               \subseteq requests[q].bundle.hops[i].scope
    BY DEF ForwardedWithinGrant, Needed
  <2>1. Passed(requests[q])
    BY DEF GatewayInv, RequestInv, Authenticated, Forwarded
  <2> QED BY <2>1 DEF Passed, Granted
<1> QED BY <1>1, InvHolds, PTL

\* Two forwarded requests of one session write its nonce differently or are
\* MaxProofAge apart while their store lives, and above a minimum score of 90 there
\* is the second of one writing only for the two orders of stamp, mark and
\* judgement that the code admits.
THEOREM ReplaysAreBounded == Spec => []ReplayBounded
<1>1. GatewayInv => ReplayBounded
  <2> SUFFICES ASSUME GatewayInv, NEW q1 \in Requests, NEW q2 \in Requests,
                      NEW r1, NEW r2, r1 = requests[q1], r2 = requests[q2],
                      Twice(q1, q2), r1.bundle.nonce = r2.bundle.nonce
               PROVE  /\ r2.marked - r1.marked >= MaxProofAge
                      /\ config.minScore > 90 =>
                            IF config.devMode THEN r2.marked >= r2.bundle.stamp + MaxProofAge
                            ELSE r1.marked < r1.bundle.stamp
    BY DEF ReplayBounded
  <2>0. /\ Authenticated(q1) /\ Authenticated(q2) /\ q1 # q2
        /\ r1.bundle.session = r2.bundle.session /\ r1.marked <= r2.marked
        /\ config.store = "redis" \/ (r1.at = r2.at /\ r1.run = r2.run)
    BY DEF Twice
  <2>1. /\ Shapes /\ RequestInv(r1) /\ RequestInv(r2) /\ MarksApart(r1, r2)
        /\ Forwarded(r1) /\ Forwarded(r2) /\ HasMark(r1) /\ HasMark(r2)
    BY <2>0 DEF GatewayInv, Authenticated, Forwarded, HasMark
  <2>2. Passed(r1) /\ Passed(r2)
    BY <2>1 DEF RequestInv
  <2>3. /\ r1.marked \in Nat /\ r2.marked \in Nat /\ r1.bundle.stamp \in Nat
        /\ r1.bundle \in Presented /\ r2.bundle \in Presented
    BY <2>1, MarkFacts
  <2>4. r2.bundle.stamp = r1.bundle.stamp
    BY <2>0, <2>3, GatewayConstants
  <2>5. r1.marked + MaxProofAge <= r2.marked
    <3>1. \/ r1.marked + MaxProofAge <= r2.marked
          \/ r2.marked + MaxProofAge <= r1.marked
      BY <2>0, <2>1 DEF MarksApart, OneStore
    <3> QED BY <2>0, <2>3, <3>1, GatewayConstants
  <2>6. ASSUME config.minScore > 90, config.devMode
        PROVE  r2.marked >= r2.bundle.stamp + MaxProofAge
    <3>1. r1.bundle.stamp <= r1.marked
      BY <2>2, <2>6 DEF Passed
    <3> QED BY <2>3, <2>4, <2>5, <3>1, GatewayConstants
  <2>7. ASSUME config.minScore > 90, ~config.devMode
        PROVE  r1.marked < r1.bundle.stamp
    <3>1. r2.marked < r2.bundle.stamp + MaxProofAge
      BY <2>2, <2>7 DEF Passed
    <3> QED BY <2>3, <2>4, <2>5, <3>1, GatewayConstants
  <2>8. r2.marked - r1.marked >= MaxProofAge
    BY <2>3, <2>5, GatewayConstants
  <2> QED BY <2>6, <2>7, <2>8
<1> QED BY <1>1, InvHolds, PTL

-----------------------------------------------------------------------------
(* The log.                                                                *)

\* What the chain of a process keeps after the first k - 1 receipts of s.
ChainAt(s, k) == [seq |-> k - 1, prev |-> IF k = 1 THEN {} ELSE {s[k - 1].receipt}]
IsLog(s) == s \in Seq(ToSet(s))

Said(body) ==
    /\ body = [by |-> body.by, allowed |-> body.allowed]
    /\ body.by \in Requests /\ body.allowed \in BOOLEAN
    /\ requests[body.by].method = "call" /\ requests[body.by].phase = "done"
    /\ body.allowed <=> requests[body.by].outcome = "forwarded"
IsEntry(e) == e = [unsigned |-> Kept(e)] \/ \E chain : e = Link(chain, Kept(e), "gateway")

RecordsInv ==
    \A e \in Records : /\ IsEntry(e) /\ Said(Kept(e))
                       /\ \A f \in Records : Kept(f).by = Kept(e).by => f = e
OnItsWay(e) == e \in delivered \/ \E g \in Instances : e \in gateways[g].pending
InSigned(e) == \E g \in Instances, run \in Runs : e \in ToSet(signed[g][run])

\* What a run signs is one chain: each receipt links to the one before it, and
\* the process of that run keeps the link that comes next.
IsChain(s) == IsLog(s) /\ \A k \in 1 .. Len(s) : s[k] = Link(ChainAt(s, k), Kept(s[k]), "gateway")
IsOfRun(s, g, run) ==
    \A k \in 1 .. Len(s) :
        requests[Kept(s[k]).by].at = g /\ requests[Kept(s[k]).by].run = run
ChainOfRun(g, run) ==
    /\ IsChain(signed[g][run]) /\ IsOfRun(signed[g][run], g, run)
    /\ run > gateways[g].run => signed[g][run] = <<>>
    /\ run = gateways[g].run =>
          gateways[g].chain = ChainAt(signed[g][run], Len(signed[g][run]) + 1)

LogInv ==
    /\ RecordsInv
    /\ \A e : OnItsWay(e) /\ IsReceipt(e) => InSigned(e)
    /\ \A g \in Instances, run \in Runs : ChainOfRun(g, run)

LEMMA EntryKept ==
    ASSUME NEW body
    PROVE  /\ Kept([unsigned |-> body]) = body /\ ~IsReceipt([unsigned |-> body])
           /\ \A chain, key : Kept(Link(chain, body, key)) = body /\ IsReceipt(Link(chain, body, key))
BY DEF Kept, IsReceipt, Link, Envelope, Signed

LEMMA InRecords == \A e : e \in Records <=> OnItsWay(e) \/ InSigned(e)
<1> TAKE e
<1>1. e \in Unwritten <=> \E g \in Instances : e \in gateways[g].pending
  BY Zenon DEF Unwritten
<1>2. e \in SignedReceipts <=>
         \E g \in Instances : e \in UNION {ToSet(signed[g][run]) : run \in Runs}
  BY Zenon DEF SignedReceipts
<1>3. ASSUME NEW g \in Instances
      PROVE  e \in UNION {ToSet(signed[g][run]) : run \in Runs}
                <=> \E run \in Runs : e \in ToSet(signed[g][run])
  BY Zenon
<1>4. e \in SignedReceipts <=> InSigned(e)
  BY <1>2, <1>3 DEF InSigned
<1>5. e \in Records <=> e \in delivered \/ e \in Unwritten \/ e \in SignedReceipts
  BY DEF Records
<1> QED BY <1>1, <1>4, <1>5 DEF OnItsWay

\* A log grows by the entry that continues it.
LEMMA LogGrows ==
    ASSUME NEW s, IsLog(s), NEW e
    PROVE  /\ IsLog(Append(s, e)) /\ Len(Append(s, e)) = Len(s) + 1 /\ Len(s) \in Nat
           /\ \A k \in 1 .. Len(s) : Append(s, e)[k] = s[k]
           /\ Append(s, e)[Len(s) + 1] = e
           /\ ToSet(Append(s, e)) = ToSet(s) \cup {e}
           /\ \A k \in 1 .. Len(s) + 1 : ChainAt(Append(s, e), k) = ChainAt(s, k)
<1>1. PICK S : S = ToSet(s)
  OBVIOUS
<1>2. s \in Seq(S) /\ s \in Seq(S \cup {e}) /\ DOMAIN s = 1 .. Len(s) /\ Len(s) \in Nat
  BY <1>1 DEF IsLog
<1>3. PICK t : t = Append(s, e)
  OBVIOUS
<1>4. /\ t \in Seq(S \cup {e}) /\ Len(t) = Len(s) + 1 /\ DOMAIN t = 1 .. Len(s) + 1
      /\ t[Len(s) + 1] = e
  BY <1>2, <1>3
<1>5. \A k \in 1 .. Len(s) : t[k] = s[k]
  BY <1>2, <1>3
<1>6. ToSet(t) = S \cup {e}
  <2>1. \A x \in ToSet(t) : x \in S \cup {e}
    BY <1>4 DEF ToSet
  <2>2. \A x \in S : x \in ToSet(t)
    <3> TAKE x \in S
    <3>1. PICK k \in 1 .. Len(s) : x = s[k]
      BY <1>1, <1>2 DEF ToSet
    <3>2. k \in DOMAIN t /\ t[k] = x
      BY <1>2, <1>4, <1>5, <3>1
    <3> QED BY <3>2 DEF ToSet
  <2>3. e \in ToSet(t)
    <3>1. Len(s) + 1 \in DOMAIN t
      BY <1>2, <1>4
    <3> QED BY <1>4, <3>1 DEF ToSet
  <2> QED BY <2>1, <2>2, <2>3
<1>7. IsLog(t)
  BY <1>4, <1>6 DEF IsLog
<1>8. \A k \in 1 .. Len(s) + 1 : ChainAt(t, k) = ChainAt(s, k)
  <2> TAKE k \in 1 .. Len(s) + 1
  <2>1. k = 1 \/ k - 1 \in 1 .. Len(s)
    BY <1>2
  <2> QED BY <1>5, <2>1 DEF ChainAt
<1> QED BY <1>1, <1>2, <1>3, <1>4, <1>5, <1>6, <1>7, <1>8

-----------------------------------------------------------------------------
(* A step, as the log sees it.                                             *)

\* A decision about a tool call, which hands its record to the writer.
RecordStep(q, g, body) ==
    /\ q \in Requests /\ g \in Instances
    /\ requests[q].phase # "done"
    /\ requests'[q].phase = "done" /\ requests'[q].method = "call"
    /\ requests'[q].at = g /\ requests'[q].run = gateways[g].run
    /\ body = [by |-> q, allowed |-> requests'[q].outcome = "forwarded"]
    /\ WriteReceipt(q, g, body)
    /\ delivered' = delivered

DoneStays == \A q \in Requests : requests[q].phase = "done" => requests'[q] = requests[q]

LogStep ==
    /\ DoneStays
    /\ \/ \E q, g, body : RecordStep(q, g, body)
       \/ \E g \in Instances : \E e : Write(g, e)
       \/ \E g \in Instances : Restart(g)
       \/ UNCHANGED <<gateways, signed, delivered>>

LEMMA DecideIsLogStep ==
    ASSUME Shapes, NEW q \in Requests, NEW r, NEW outcome, Decide(q, r, outcome), IsRequest(r),
           requests[q].phase # "done", r.at \in Instances, r.run = gateways[r.at].run
    PROVE  LogStep
<1>1. /\ requests' = [requests EXCEPT ![q] = Decided(r, outcome)] /\ delivered' = delivered
      /\ r.method = "call" =>
            WriteReceipt(q, r.at, [by |-> q, allowed |-> outcome = "forwarded"])
      /\ r.method # "call" => UNCHANGED <<gateways, signed>>
  BY DEF Decide, Decided, Recorded
<1>2. /\ requests'[q] = Decided(r, outcome)
      /\ \A p \in Requests : p # q => requests'[p] = requests[p]
  BY <1>1 DEF Shapes
<1>3. DoneStays
  BY <1>2 DEF DoneStays
<1>4. CASE r.method = "call"
  <2>1. PICK d : d = requests'[q]
    OBVIOUS
  <2>2. /\ d.phase = "done" /\ d.method = "call" /\ d.at = r.at /\ d.run = gateways[r.at].run
        /\ d.outcome = outcome
    BY <1>2, <1>4, <2>1, DecidedFields
  <2>3. RecordStep(q, r.at, [by |-> q, allowed |-> outcome = "forwarded"])
    BY <1>1, <1>4, <2>1, <2>2 DEF RecordStep
  <2> QED BY <1>3, <2>3 DEF LogStep
<1>5. CASE r.method # "call"
  BY <1>1, <1>3, <1>5 DEF LogStep
<1> QED BY <1>4, <1>5

LEMMA StepIsLogStep ==
    ASSUME GatewayInv, Next
    PROVE  LogStep
<1>1. Shapes /\ \A q \in Requests : RequestInv(requests[q]) /\ IsRequest(requests[q])
  BY DEF GatewayInv, Shapes
<1>2. config.callers \subseteq Requests
  BY <1>1, CallersAreRequests
<1>3. ASSUME NEW q \in config.callers, NEW g \in Instances, NEW p \in config.calls, Arrive(q, g, p)
      PROVE  LogStep
  <2>1. PICK r : r = [NewRequest EXCEPT !.at = g, !.run = gateways[g].run, !.method = p.method,
                                        !.tool = p.tool, !.bundle = p.bundle]
    OBVIOUS
  <2>2. r = [phase |-> "new", at |-> g, run |-> gateways[g].run, method |-> p.method,
             tool |-> p.tool, bundle |-> p.bundle, credential |-> None, marked |-> None,
             context |-> Failed, outcome |-> None]
    BY <2>1 DEF NewRequest
  <2>3. IsRequest(r) /\ r.at = g /\ r.run = gateways[g].run
    BY <2>2 DEF IsRequest
  <2>4. requests[q].phase = "new" /\ q \in Requests
    BY <1>2, <1>3 DEF Arrive
  <2>5. \/ \E outcome : Decide(q, r, outcome)
        \/ \E d : /\ requests' = [requests EXCEPT ![q] = d]
                  /\ UNCHANGED <<config, now, gateways, signed, delivered>>
    BY <1>3, <2>1 DEF Arrive
  <2>6. ASSUME NEW outcome, Decide(q, r, outcome) PROVE LogStep
    BY <1>1, <2>3, <2>4, <2>6, DecideIsLogStep
  <2>7. ASSUME NEW d, requests' = [requests EXCEPT ![q] = d],
               UNCHANGED <<config, now, gateways, signed, delivered>>
        PROVE  LogStep
    BY <1>1, <2>4, <2>7 DEF LogStep, DoneStays, Shapes
  <2> QED BY <2>5, <2>6, <2>7
<1>4. ASSUME NEW q \in config.callers, NEW context, NEW outcome, Alive(requests[q]),
             Decide(q, [requests[q] EXCEPT !.context = context], outcome)
      PROVE  LogStep
  <2>1. PICK r, e : r = requests[q] /\ e = [r EXCEPT !.context = context]
    OBVIOUS
  <2>2. r = [phase |-> r.phase, at |-> r.at, run |-> r.run, method |-> r.method, tool |-> r.tool,
             bundle |-> r.bundle, credential |-> r.credential, marked |-> r.marked,
             context |-> r.context, outcome |-> r.outcome]
    BY <1>1, <1>2, <2>1 DEF IsRequest
  <2>3. e = [phase |-> r.phase, at |-> r.at, run |-> r.run, method |-> r.method, tool |-> r.tool,
             bundle |-> r.bundle, credential |-> r.credential, marked |-> r.marked,
             context |-> context, outcome |-> r.outcome]
    BY <2>1, <2>2
  <2>4. IsRequest(e) /\ e.at = r.at /\ e.run = r.run
    BY <2>3 DEF IsRequest
  <2>5. Underway(r)
    BY <1>1, <1>2, <1>4, <2>1 DEF RequestInv
  <2>6. e.at \in Instances /\ e.run = gateways[e.at].run
    BY <2>4, <2>5 DEF Underway
  <2>7. requests[q].phase # "done" /\ q \in Requests
    BY <1>2, <1>4 DEF Alive
  <2>8. Decide(q, e, outcome)
    BY <1>4, <2>1
  <2> QED BY <1>1, <2>4, <2>6, <2>7, <2>8, DecideIsLogStep
<1>5. ASSUME NEW q \in config.callers, MarkIfFresh(q) PROVE LogStep
  <2>1. requests[q].phase = "verifying" /\ Alive(requests[q]) /\ q \in Requests
    BY <1>2, <1>5 DEF MarkIfFresh, Alive
  <2>2. \/ Decide(q, [requests[q] EXCEPT !.context = Failed], "unauthorized")
        \/ /\ requests' = [requests EXCEPT ![q].phase = "marked", ![q].marked = now]
           /\ UNCHANGED <<config, now, gateways, signed, delivered>>
    BY <1>5 DEF MarkIfFresh
  <2>3. CASE /\ requests' = [requests EXCEPT ![q].phase = "marked", ![q].marked = now]
             /\ UNCHANGED <<config, now, gateways, signed, delivered>>
    <3>1. \A p \in Requests : p # q => requests'[p] = requests[p]
      BY <1>1, <2>3 DEF Shapes
    <3>2. DoneStays
      BY <2>1, <3>1 DEF DoneStays
    <3> QED BY <2>3, <3>2 DEF LogStep
  <2> QED BY <1>4, <2>1, <2>2, <2>3
<1>6. ASSUME NEW q \in config.callers, Finish(q) PROVE LogStep
  <2>1. Alive(requests[q])
    BY <1>6 DEF Finish, Alive
  <2>2. \E context, outcome : Decide(q, [requests[q] EXCEPT !.context = context], outcome)
    BY <1>6 DEF Finish
  <2> QED BY <1>4, <2>1, <2>2
<1>7. ASSUME NEW g \in Instances, Restart(g) PROVE LogStep
  <2>1. \A p \in Requests : requests[p].phase = "done" => requests'[p] = requests[p]
    BY <1>7 DEF Restart
  <2> QED BY <1>7, <2>1 DEF LogStep, DoneStays
<1>8. ASSUME NEW g \in Instances, NEW e, Write(g, e) PROVE LogStep
  BY <1>8 DEF Write, LogStep, DoneStays
<1>9. CASE Tick
  BY <1>9 DEF Tick, LogStep, DoneStays
<1> QED BY <1>3, <1>5, <1>6, <1>7, <1>8, <1>9 DEF Next

-----------------------------------------------------------------------------
(* The invariant of the log.                                               *)

LEMMA InitLog == Init => LogInv
<1> SUFFICES ASSUME Init PROVE LogInv
  OBVIOUS
<1>1. /\ delivered = {} /\ \A g \in Instances : gateways[g] = NewProcess(1)
      /\ \A g \in Instances, run \in Runs : signed[g][run] = <<>>
  BY DEF Init
<1>2. \A g \in Instances : gateways[g].pending = {} /\ gateways[g].chain = Genesis
  BY <1>1 DEF NewProcess
<1>3. ToSet(<<>>) = {}
  BY DEF ToSet
<1>4. \A e : ~OnItsWay(e) /\ ~InSigned(e)
  BY <1>1, <1>2, <1>3 DEF OnItsWay, InSigned
<1>5. RecordsInv
  BY <1>4, InRecords DEF RecordsInv
<1>6. \A g \in Instances, run \in Runs : ChainOfRun(g, run)
  <2>1. <<>> \in Seq({}) /\ Len(<<>>) = 0
    OBVIOUS
  <2>2. IsChain(<<>>)
    BY <2>1, <1>3 DEF IsChain, IsLog
  <2>3. \A g, run : IsOfRun(<<>>, g, run)
    BY <2>1 DEF IsOfRun
  <2>4. ChainAt(<<>>, Len(<<>>) + 1) = Genesis
    BY <2>1 DEF ChainAt, Genesis
  <2> QED BY <1>1, <1>2, <2>2, <2>3, <2>4 DEF ChainOfRun
<1> QED BY <1>4, <1>5, <1>6 DEF LogInv

LEMMA SaidStays ==
    ASSUME NEW body, Said(body), DoneStays
    PROVE  Said(body)' /\ requests'[body.by] = requests[body.by]
BY DEF Said, DoneStays

\* Records that are lost or move leave the others as they were.
LEMMA RecordsStay ==
    ASSUME RecordsInv, DoneStays, \A e : e \in Records' => e \in Records
    PROVE  RecordsInv'
<1>1. ASSUME NEW e, e \in Records'
      PROVE  /\ IsEntry(e) /\ Said(Kept(e))'
             /\ \A f \in Records' : Kept(f).by = Kept(e).by => f = e
  <2>1. e \in Records
    BY <1>1
  <2>2. PICK body : body = Kept(e)
    OBVIOUS
  <2>3. Said(body)'
    BY <2>1, <2>2, SaidStays DEF RecordsInv
  <2> QED BY <2>1, <2>2, <2>3 DEF RecordsInv
<1> QED BY <1>1 DEF RecordsInv, IsEntry, Kept

\* The one record a decided call gets is the first of its request.
LEMMA RecordsGain ==
    ASSUME RecordsInv, DoneStays, NEW new, IsEntry(new), Said(Kept(new))',
           requests[Kept(new).by].phase # "done",
           \A e : e \in Records' => e \in Records \/ e = new
    PROVE  RecordsInv'
<1>1. ASSUME NEW e, e \in Records PROVE IsEntry(e) /\ Said(Kept(e))' /\ Kept(e).by # Kept(new).by
  <2>1. PICK body : body = Kept(e)
    OBVIOUS
  <2>2. Said(body) /\ IsEntry(e)
    BY <1>1, <2>1 DEF RecordsInv
  <2>3. Said(body)'
    BY <2>2, SaidStays
  <2>4. body.by # Kept(new).by
    BY <2>2 DEF Said
  <2> QED BY <2>1, <2>2, <2>3, <2>4
<1>2. ASSUME NEW e, e \in Records' PROVE IsEntry(e) /\ Said(Kept(e))'
  BY <1>1, <1>2
<1>3. ASSUME NEW e, NEW f, e \in Records', f \in Records', Kept(f).by = Kept(e).by
      PROVE  f = e
  <2>1. CASE e \in Records /\ f \in Records
    BY <1>3, <2>1 DEF RecordsInv
  <2> QED BY <1>1, <1>3, <2>1
<1> QED BY <1>2, <1>3 DEF RecordsInv, IsEntry, Kept

\* What a run signed belongs to requests that are done.
LEMMA RunStays ==
    ASSUME LogInv, DoneStays, NEW g \in Instances, NEW run \in Runs, NEW s, s = signed[g][run]
    PROVE  IsChain(s) /\ IsChain(s)' /\ IsOfRun(s, g, run)'
<1>1. IsChain(s) /\ IsOfRun(s, g, run)
  BY DEF LogInv, ChainOfRun
<1>2. IsLog(s) /\ DOMAIN s = 1 .. Len(s)
  BY <1>1 DEF IsChain, IsLog
<1>3. ASSUME NEW k \in 1 .. Len(s) PROVE requests'[Kept(s[k]).by] = requests[Kept(s[k]).by]
  <2>1. s[k] \in ToSet(s)
    BY <1>2 DEF ToSet
  <2>2. InSigned(s[k])
    BY <2>1 DEF InSigned
  <2>3. PICK e, body : e = s[k] /\ body = Kept(e)
    OBVIOUS
  <2>4. Said(body)
    BY <2>2, <2>3, InRecords, SMTT(60) DEF LogInv, RecordsInv
  <2> QED BY <2>3, <2>4, SaidStays
<1>4. IsOfRun(s, g, run)'
  <2> SUFFICES ASSUME NEW k \in 1 .. Len(s)
               PROVE  /\ requests'[Kept(s[k]).by].at = g
                      /\ requests'[Kept(s[k]).by].run = run
    BY DEF IsOfRun, Kept
  <2>1. requests[Kept(s[k]).by].at = g /\ requests[Kept(s[k]).by].run = run
    BY <1>1, Zenon DEF IsOfRun
  <2> QED BY <1>3, <2>1, Zenon
<1>5. IsChain(s)'
  BY <1>1 DEF IsChain, IsLog, ChainAt, Link, Kept, ToSet, Envelope, Signed
<1> QED BY <1>1, <1>4, <1>5

RecordsNow == \A e : e \in Records <=> OnItsWay(e) \/ InSigned(e)

LEMMA RecordsThen == RecordsNow /\ RecordsNow'
<1>1. RecordsNow
  BY InRecords DEF RecordsNow
<1> QED BY <1>1, PTL

\* Nothing is recorded, and requests that are done stay so.
LEMMA QuietLogKeeps ==
    ASSUME LogInv, DoneStays, UNCHANGED <<gateways, signed, delivered>>
    PROVE  LogInv'
<1>1. \A e : (OnItsWay(e)' <=> OnItsWay(e)) /\ (InSigned(e)' <=> InSigned(e))
  BY DEF OnItsWay, InSigned, Runs
<1>2. RecordsInv'
  BY <1>1, RecordsThen, RecordsStay DEF LogInv, RecordsNow
<1>3. ASSUME NEW g \in Instances, NEW run \in Runs PROVE ChainOfRun(g, run)'
  <2>1. PICK s : s = signed[g][run]
    OBVIOUS
  <2>2. IsChain(s)' /\ IsOfRun(s, g, run)'
    BY <2>1, RunStays
  <2>3. signed'[g][run] = s /\ gateways'[g] = gateways[g]
    BY <2>1
  <2>4. /\ run > gateways'[g].run => s = <<>>
        /\ run = gateways'[g].run => gateways'[g].chain = ChainAt(s, Len(s) + 1)
    BY <2>1, <2>3 DEF LogInv, ChainOfRun
  <2> QED BY <2>2, <2>3, <2>4 DEF ChainOfRun, ChainAt
<1> QED BY <1>1, <1>2, <1>3 DEF LogInv, IsReceipt, Runs

LEMMA WriteLogKeeps ==
    ASSUME Shapes, LogInv, DoneStays, NEW g \in Instances, NEW e0, Write(g, e0)
    PROVE  LogInv'
<1>1. /\ e0 \in gateways[g].pending /\ signed' = signed
      /\ gateways' = [gateways EXCEPT ![g].pending = @ \ {e0}]
      /\ delivered' = delivered \/ delivered' = delivered \cup {e0}
  BY DEF Write
<1>2. PICK gw : gw = gateways[g]
  OBVIOUS
<1>3. gw = [run |-> gw.run, chain |-> gw.chain, pending |-> gw.pending]
  BY <1>2 DEF Shapes, IsProcess
<1>4. gateways'[g] = [gw EXCEPT !.pending = gw.pending \ {e0}]
  BY <1>1, <1>2 DEF Shapes
<1>5. gateways'[g] = [run |-> gw.run, chain |-> gw.chain, pending |-> gw.pending \ {e0}]
  BY <1>3, <1>4
<1>6. \A h \in Instances : h # g => gateways'[h] = gateways[h]
  BY <1>1 DEF Shapes
<1>7. \A h \in Instances : /\ gateways'[h].pending \subseteq gateways[h].pending
                           /\ gateways'[h].run = gateways[h].run
                           /\ gateways'[h].chain = gateways[h].chain
  BY <1>2, <1>5, <1>6
<1>8. \A e : (OnItsWay(e)' => OnItsWay(e)) /\ (InSigned(e)' <=> InSigned(e))
  BY <1>1, <1>7 DEF OnItsWay, InSigned, Runs
<1>9. RecordsInv'
  BY <1>8, RecordsThen, RecordsStay DEF LogInv, RecordsNow
<1>10. ASSUME NEW h \in Instances, NEW run \in Runs PROVE ChainOfRun(h, run)'
  <2>1. PICK s : s = signed[h][run]
    OBVIOUS
  <2>2. IsChain(s)' /\ IsOfRun(s, h, run)'
    BY <2>1, RunStays
  <2>3. signed'[h][run] = s
    BY <1>1, <2>1
  <2>4. /\ run > gateways'[h].run => s = <<>>
        /\ run = gateways'[h].run => gateways'[h].chain = ChainAt(s, Len(s) + 1)
    BY <1>7, <2>1 DEF LogInv, ChainOfRun
  <2> QED BY <2>2, <2>3, <2>4 DEF ChainOfRun, ChainAt
<1> QED BY <1>8, <1>9, <1>10 DEF LogInv, IsReceipt, Runs

LEMMA RestartLogKeeps ==
    ASSUME Shapes, LogInv, DoneStays, NEW g \in Instances, Restart(g)
    PROVE  LogInv'
<1>1. /\ gateways' = [gateways EXCEPT ![g] = NewProcess(@.run + 1)]
      /\ signed' = signed /\ delivered' = delivered
  BY DEF Restart
<1>2. gateways'[g] = [run |-> gateways[g].run + 1, chain |-> Genesis, pending |-> {}]
  BY <1>1 DEF Shapes, NewProcess
<1>3. \A h \in Instances : h # g => gateways'[h] = gateways[h]
  BY <1>1 DEF Shapes
<1>4. \A h \in Instances : gateways'[h].pending \subseteq gateways[h].pending
  BY <1>2, <1>3
<1>5. \A e : (OnItsWay(e)' => OnItsWay(e)) /\ (InSigned(e)' <=> InSigned(e))
  BY <1>1, <1>4 DEF OnItsWay, InSigned, Runs
<1>6. RecordsInv'
  BY <1>5, RecordsThen, RecordsStay DEF LogInv, RecordsNow
<1>7. ASSUME NEW h \in Instances, NEW run \in Runs PROVE ChainOfRun(h, run)'
  <2>1. PICK s : s = signed[h][run]
    OBVIOUS
  <2>2. IsChain(s)' /\ IsOfRun(s, h, run)'
    BY <2>1, RunStays
  <2>3. signed'[h][run] = s
    BY <1>1, <2>1
  <2>4. /\ run > gateways[h].run => s = <<>>
        /\ run = gateways[h].run => gateways[h].chain = ChainAt(s, Len(s) + 1)
    BY <2>1 DEF LogInv, ChainOfRun
  <2>5. /\ run > gateways'[h].run => s = <<>>
        /\ run = gateways'[h].run => gateways'[h].chain = ChainAt(s, Len(s) + 1)
    <3>1. CASE h # g
      BY <1>3, <2>4, <3>1
    <3>2. CASE h = g
      <4>1. PICK n : n = gateways[g].run
        OBVIOUS
      <4>2. n \in Nat /\ run \in Nat
        <5>1. n \in 1 .. MaxRuns /\ run \in 1 .. MaxRuns
          BY <4>1 DEF Shapes, IsProcess, Runs
        <5> QED BY <5>1
      <4>3. gateways'[h].run = n + 1 /\ gateways'[h].chain = Genesis
        BY <1>2, <3>2, <4>1
      <4>4. run > n => s = <<>>
        BY <2>4, <3>2, <4>1
      <4>5. run >= n + 1 => run > n
        BY <4>2
      <4>6. ChainAt(<<>>, Len(<<>>) + 1) = Genesis
        BY SMTT(60) DEF ChainAt, Genesis
      <4> QED BY <4>2, <4>3, <4>4, <4>5, <4>6
    <3> QED BY <3>1, <3>2
  <2> QED BY <2>2, <2>3, <2>5 DEF ChainOfRun, ChainAt
<1> QED BY <1>5, <1>6, <1>7 DEF LogInv, IsReceipt, Runs

\* A record is handed to the writer: signed, it is the next link of the chain.
LEMMA RecordLogKeeps ==
    ASSUME Shapes, LogInv, DoneStays, NEW q, NEW g, NEW body, RecordStep(q, g, body)
    PROVE  LogInv'
<1>1. /\ q \in Requests /\ g \in Instances /\ requests[q].phase # "done"
      /\ requests'[q].phase = "done" /\ requests'[q].method = "call"
      /\ requests'[q].at = g /\ requests'[q].run = gateways[g].run
      /\ body = [by |-> q, allowed |-> requests'[q].outcome = "forwarded"]
      /\ delivered' = delivered
  BY DEF RecordStep
<1>2. Said(body)' /\ body.by = q
  BY <1>1 DEF Said
<1>3. PICK gw : gw = gateways[g]
  OBVIOUS
<1>4. gw = [run |-> gw.run, chain |-> gw.chain, pending |-> gw.pending] /\ gw.run \in Runs
  BY <1>1, <1>3 DEF Shapes, IsProcess
<1>5. \A h \in Instances : h # g => gateways'[h] = gateways[h]
  BY <1>1 DEF Shapes, RecordStep, WriteReceipt
<1>6. CASE /\ gateways' = [gateways EXCEPT ![g].pending = @ \cup {[unsigned |-> body]}]
           /\ UNCHANGED signed
  <2>1. PICK new : new = [unsigned |-> body]
    OBVIOUS
  <2>2. Kept(new) = body /\ ~IsReceipt(new) /\ IsEntry(new)
    BY <2>1, EntryKept DEF IsEntry
  <2>3. gateways'[g] = [gw EXCEPT !.pending = gw.pending \cup {new}]
    BY <1>1, <1>3, <1>6, <2>1 DEF Shapes
  <2>4. gateways'[g] = [run |-> gw.run, chain |-> gw.chain, pending |-> gw.pending \cup {new}]
    BY <1>4, <2>3
  <2>5. \A e : /\ OnItsWay(e)' => OnItsWay(e) \/ e = new
               /\ InSigned(e)' <=> InSigned(e)
    BY <1>1, <1>3, <1>5, <1>6, <2>4 DEF OnItsWay, InSigned, Runs
  <2>6. RecordsInv'
    BY <1>1, <1>2, <2>2, <2>5, RecordsThen, RecordsGain DEF LogInv, RecordsNow
  <2>7. ASSUME NEW h \in Instances, NEW run \in Runs PROVE ChainOfRun(h, run)'
    <3>1. PICK s : s = signed[h][run]
      OBVIOUS
    <3>2. IsChain(s)' /\ IsOfRun(s, h, run)'
      BY <3>1, RunStays
    <3>3. /\ signed'[h][run] = s /\ gateways'[h].run = gateways[h].run
          /\ gateways'[h].chain = gateways[h].chain
      BY <1>3, <1>5, <1>6, <2>4, <3>1
    <3>4. /\ run > gateways'[h].run => s = <<>>
          /\ run = gateways'[h].run => gateways'[h].chain = ChainAt(s, Len(s) + 1)
      BY <3>1, <3>3 DEF LogInv, ChainOfRun
    <3> QED BY <3>2, <3>3, <3>4 DEF ChainOfRun, ChainAt
  <2> QED BY <2>2, <2>5, <2>6, <2>7 DEF LogInv, IsReceipt, Runs
<1>7. CASE /\ gateways' = [gateways EXCEPT
                  ![g].chain = Advanced(@, body, "gateway"),
                  ![g].pending = @ \cup {Link(gateways[g].chain, body, "gateway")}]
           /\ signed' = [signed EXCEPT
                  ![g][gateways[g].run] = Append(@, Link(gateways[g].chain, body, "gateway"))]
  <2>1. PICK new : new = Link(gw.chain, body, "gateway")
    OBVIOUS
  <2>2. Kept(new) = body /\ IsEntry(new)
    BY <2>1, EntryKept DEF IsEntry
  <2>3. gateways'[g] = [gw EXCEPT !.chain = Advanced(gw.chain, body, "gateway"),
                                  !.pending = gw.pending \cup {new}]
    BY <1>1, <1>3, <1>7, <2>1 DEF Shapes
  <2>4. gateways'[g] = [run |-> gw.run, chain |-> Advanced(gw.chain, body, "gateway"),
                        pending |-> gw.pending \cup {new}]
    BY <1>4, <2>3
  <2>5. PICK s : s = signed[g][gw.run]
    OBVIOUS
  <2>6. PICK t : t = Append(s, new)
    OBVIOUS
  <2>7. /\ signed'[g][gw.run] = t
        /\ \A h \in Instances, run \in Runs : h # g \/ run # gw.run => signed'[h][run] = signed[h][run]
    <3>1. signed = [h \in Instances |-> [run \in Runs |-> signed[h][run]]]
      BY DEF Shapes
    <3>2. signed' = [signed EXCEPT ![g][gw.run] = Append(@, new)]
      BY <1>3, <1>7, <2>1
    <3> QED BY <1>1, <1>4, <2>5, <2>6, <3>1, <3>2
  <2>8. IsChain(s) /\ IsChain(s)' /\ IsOfRun(s, g, gw.run)'
    BY <1>1, <1>4, <2>5, RunStays
  <2>9. gw.chain = ChainAt(s, Len(s) + 1)
    BY <1>1, <1>3, <1>4, <2>5 DEF LogInv, ChainOfRun
  <2>10. /\ IsLog(t) /\ Len(t) = Len(s) + 1 /\ Len(s) \in Nat /\ t[Len(s) + 1] = new
         /\ \A k \in 1 .. Len(s) : t[k] = s[k]
         /\ ToSet(t) = ToSet(s) \cup {new}
         /\ \A k \in 1 .. Len(s) + 1 : ChainAt(t, k) = ChainAt(s, k)
    BY <2>6, <2>8, LogGrows DEF IsChain
  <2>11. IsChain(t)
    <3>1. ASSUME NEW k \in 1 .. Len(t) PROVE t[k] = Link(ChainAt(t, k), Kept(t[k]), "gateway")
      <4>1. CASE k \in 1 .. Len(s)
        BY <2>8, <2>10, <4>1 DEF IsChain
      <4>2. CASE k = Len(s) + 1
        BY <2>1, <2>2, <2>9, <2>10, <4>2
      <4> QED BY <2>10, <4>1, <4>2
    <3> QED BY <2>10, <3>1 DEF IsChain
  <2>12. IsOfRun(t, g, gw.run)'
    <3>1. ASSUME NEW k \in 1 .. Len(t)
          PROVE  /\ requests'[Kept(t[k]).by].at = g
                 /\ requests'[Kept(t[k]).by].run = gw.run
      <4>1. CASE k \in 1 .. Len(s)
        BY <2>8, <2>10, <4>1 DEF IsOfRun, Kept
      <4>2. CASE k = Len(s) + 1
        BY <1>1, <1>2, <1>3, <2>2, <2>10, <4>2
      <4> QED BY <2>10, <4>1, <4>2
    <3> QED BY <3>1 DEF IsOfRun, Kept
  <2>13. gateways'[g].chain = ChainAt(t, Len(t) + 1)
    <3>1. new.receipt = Signed(body, {gw.chain}, "gateway")
      BY <2>1 DEF Link, Envelope
    <3>2. gw.chain.seq = Len(s)
      BY <2>9, <2>10 DEF ChainAt
    <3>3. gateways'[g].chain = [seq |-> Len(s) + 1, prev |-> {new.receipt}]
      BY <2>4, <3>1, <3>2 DEF Advanced
    <3>4. Len(t) + 1 # 1 /\ Len(t) + 1 - 1 = Len(s) + 1
      BY <2>10
    <3>5. ChainAt(t, Len(t) + 1) = [seq |-> Len(s) + 1, prev |-> {t[Len(s) + 1].receipt}]
      <4>1. PICK n : n = Len(t) + 1
        OBVIOUS
      <4>2. n # 1 /\ n - 1 = Len(s) + 1
        BY <3>4, <4>1
      <4>3. ChainAt(t, n) = [seq |-> n - 1, prev |-> {t[n - 1].receipt}]
        BY <4>2 DEF ChainAt
      <4> QED BY <4>1, <4>2, <4>3
    <3> QED BY <2>10, <3>3, <3>5
  <2>14. ASSUME NEW e PROVE InSigned(e)' <=> InSigned(e) \/ e = new
    <3>1. ASSUME InSigned(e)' PROVE InSigned(e) \/ e = new
      <4>1. PICK h \in Instances, run \in Runs : e \in ToSet(signed'[h][run])
        BY <3>1 DEF InSigned, Runs, ToSet
      <4>2. CASE h = g /\ run = gw.run
        BY <1>1, <1>4, <2>5, <2>7, <2>10, <4>1, <4>2 DEF InSigned
      <4>3. CASE h # g \/ run # gw.run
        BY <2>7, <4>1, <4>3 DEF InSigned
      <4> QED BY <4>2, <4>3
    <3>2. ASSUME InSigned(e) \/ e = new
          PROVE  \E h \in Instances, run \in Runs : e \in ToSet(signed'[h][run])
      <4>1. CASE e = new
        BY <1>1, <1>4, <2>7, <2>10, <4>1
      <4>2. CASE InSigned(e)
        <5>1. PICK h \in Instances, run \in Runs : e \in ToSet(signed[h][run])
          BY <4>2 DEF InSigned
        <5>2. CASE h = g /\ run = gw.run
          BY <2>5, <2>7, <2>10, <5>1, <5>2
        <5>3. CASE h # g \/ run # gw.run
          BY <2>7, <5>1, <5>3
        <5> QED BY <5>2, <5>3
      <4> QED BY <3>2, <4>1, <4>2
    <3>3. (InSigned(e) \/ e = new) => InSigned(e)'
      BY <3>2 DEF InSigned, Runs, ToSet
    <3> QED BY <3>1, <3>3
  <2>15. \A e : OnItsWay(e)' => OnItsWay(e) \/ e = new
    BY <1>1, <1>3, <1>5, <2>4 DEF OnItsWay
  <2>16. RecordsInv'
    BY <1>1, <1>2, <2>2, <2>14, <2>15, RecordsThen, RecordsGain DEF LogInv, RecordsNow
  <2>17. ASSUME NEW h \in Instances, NEW run \in Runs PROVE ChainOfRun(h, run)'
    <3>1. CASE h = g /\ run = gw.run
      <4>1. gateways'[g].run = gw.run
        BY <2>4
      <4>2. gw.run \in Int
        BY <1>4 DEF Runs
      <4>3. IsChain(t)'
        BY <2>11 DEF IsChain, IsLog, ChainAt, Link, Kept, ToSet, Envelope, Signed
      <4>4. signed'[h][run] = t /\ gateways'[h].run = gw.run
        BY <2>7, <3>1, <4>1
      <4>5. ~(run > gateways'[h].run)
        BY <3>1, <4>2, <4>4
      <4>6. gateways'[h].chain = ChainAt(t, Len(t) + 1)
        BY <2>13, <3>1
      <4> QED BY <2>12, <3>1, <4>3, <4>4, <4>5, <4>6 DEF ChainOfRun, ChainAt
    <3>2. CASE h # g \/ run # gw.run
      <4>1. PICK u : u = signed[h][run]
        OBVIOUS
      <4>2. IsChain(u)' /\ IsOfRun(u, h, run)'
        BY <4>1, RunStays
      <4>3. signed'[h][run] = u
        BY <2>7, <3>2, <4>1
      <4>4. gateways'[h].run = gateways[h].run
        BY <1>3, <1>5, <2>4
      <4>5. run > gateways'[h].run => u = <<>>
        BY <4>1, <4>4 DEF LogInv, ChainOfRun
      <4>6. run = gateways'[h].run => gateways'[h].chain = ChainAt(u, Len(u) + 1)
        <5>1. SUFFICES ASSUME run = gateways'[h].run
                       PROVE  gateways'[h].chain = ChainAt(u, Len(u) + 1)
          OBVIOUS
        <5>2. h # g
          BY <1>3, <3>2, <4>4, <5>1
        <5> QED BY <1>5, <4>1, <4>4, <5>1, <5>2 DEF LogInv, ChainOfRun
      <4> QED BY <4>2, <4>3, <4>5, <4>6 DEF ChainOfRun, ChainAt
    <3> QED BY <3>1, <3>2
  <2> QED BY <2>14, <2>15, <2>16, <2>17 DEF LogInv, IsReceipt, Runs
<1> QED BY <1>6, <1>7 DEF RecordStep, WriteReceipt

LEMMA LogInductive == GatewayInv /\ LogInv /\ [Next]_vars => LogInv'
<1> SUFFICES ASSUME GatewayInv, LogInv, [Next]_vars PROVE LogInv'
  OBVIOUS
<1>1. Shapes
  BY DEF GatewayInv
<1>2. CASE Next
  <2>1. LogStep
    BY <1>2, StepIsLogStep
  <2> QED BY <1>1, <2>1, RecordLogKeeps, WriteLogKeeps, RestartLogKeeps, QuietLogKeeps DEF LogStep
<1>3. CASE UNCHANGED vars
  <2>1. DoneStays /\ UNCHANGED <<gateways, signed, delivered>>
    BY <1>3 DEF vars, DoneStays
  <2> QED BY <2>1, QuietLogKeeps
<1> QED BY <1>2, <1>3

LEMMA LogInvHolds == Spec => [](GatewayInv /\ LogInv)
BY InitInv, StepKeeps, InitLog, LogInductive, PTL DEF Spec

-----------------------------------------------------------------------------
(* What verifyReceiptChain finds nothing wrong with.                       *)

\* The link a receipt must have after prev.
LinkOk(chain, prev) ==
    IF prev = {} THEN chain = Genesis
    ELSE chain # Genesis /\ Follows(chain, prev) /\ chain.prev = prev

LEMMA NoLinkIssues ==
    ASSUME NEW chain, NEW prev
    PROVE  LinkIssues(chain, prev) = {} <=> LinkOk(chain, prev)
<1> DEFINE a == <<prev = {} /\ chain # Genesis, "genesis-mismatch">>
           b == <<prev # {} /\ chain = Genesis, "chain-restart">>
           c == <<prev # {} /\ chain # Genesis /\ ~Follows(chain, prev), "seq-mismatch">>
           d == <<prev # {} /\ chain # Genesis /\ chain.prev # prev, "prev-hash-mismatch">>
<1>1. LinkIssues(chain, prev) = Raised({a, b, c, d})
  BY DEF LinkIssues
<1>2. /\ a[1] = (prev = {} /\ chain # Genesis)
      /\ b[1] = (prev # {} /\ chain = Genesis)
      /\ c[1] = (prev # {} /\ chain # Genesis /\ ~Follows(chain, prev))
      /\ d[1] = (prev # {} /\ chain # Genesis /\ chain.prev # prev)
  OBVIOUS
<1> HIDE DEF a, b, c, d
<1>3. Raised({a, b, c, d}) = {} <=> ~a[1] /\ ~b[1] /\ ~c[1] /\ ~d[1]
  BY DEF Raised
<1> QED BY <1>1, <1>2, <1>3 DEF LinkOk

CleanEntry(e, prev) ==
    /\ IsChained(e) /\ e.receipt.payload = e.receipt.signed /\ e.receipt.key = "gateway"
    /\ e.stored # "differs"
    /\ \A chain \in e.receipt.payload.chain : LinkOk(chain, prev)

LEMMA NoEntryIssues ==
    ASSUME NEW log, NEW i, NEW options,
           options.signer = {"gateway"}, options.allowUnchained = FALSE
    PROVE  EntryIssues(log, i, options) = {} <=> CleanEntry(log[i], ChainedBefore(log, i))
<1>1. PICK e, prev : e = log[i] /\ prev = ChainedBefore(log, i)
  OBVIOUS
<1>2. CASE ~IsReceipt(e)
  BY <1>1, <1>2 DEF EntryIssues, CleanEntry, IsChained
<1>3. CASE IsReceipt(e)
  <2>1. PICK r : r = e.receipt
    OBVIOUS
  <2> DEFINE bad == <<\/ r.payload # r.signed
                      \/ \E key \in options.signer : r.key # key, "signature-invalid">>
             after == <<prev # {}, "unchained-after-chained">>
             missing == <<prev = {} /\ ~options.allowUnchained, "missing-chain-fields">>
             hash == <<e.stored = "differs", "receipt-hash-mismatch">>
  <2>2. EntryIssues(log, i, options) =
           Raised({bad}) \cup IF r.payload.chain = {} THEN Raised({after, missing})
                              ELSE (UNION {LinkIssues(chain, prev) : chain \in r.payload.chain})
                                   \cup Raised({hash})
    BY <1>1, <1>3, <2>1 DEF EntryIssues
  <2>3. /\ bad[1] = (\/ r.payload # r.signed
                     \/ \E key \in options.signer : r.key # key)
        /\ after[1] = (prev # {}) /\ missing[1] = (prev = {} /\ ~options.allowUnchained)
        /\ hash[1] = (e.stored = "differs")
    OBVIOUS
  <2> HIDE DEF bad, after, missing, hash
  <2>4. /\ Raised({bad}) = {} <=> ~bad[1]
        /\ Raised({after, missing}) = {} <=> ~after[1] /\ ~missing[1]
        /\ Raised({hash}) = {} <=> ~hash[1]
    BY DEF Raised
  <2>5. ~(~after[1] /\ ~missing[1])
    BY <2>3
  <2>6. ~bad[1] <=> r.payload = r.signed /\ r.key = "gateway"
    BY <2>3
  <2>7. CASE r.payload.chain = {}
    BY <1>1, <2>1, <2>2, <2>4, <2>5, <2>7 DEF CleanEntry, IsChained
  <2>8. CASE r.payload.chain # {}
    <3>1. PICK U : U = UNION {LinkIssues(chain, prev) : chain \in r.payload.chain}
      OBVIOUS
    <3>2. U = {} <=> \A chain \in r.payload.chain : LinkIssues(chain, prev) = {}
      <4>1. \A x : x \in U <=> \E chain \in r.payload.chain : x \in LinkIssues(chain, prev)
        BY <3>1, Zenon
      <4> QED BY <4>1
    <3>3. U = {} <=> \A chain \in r.payload.chain : LinkOk(chain, prev)
      BY <3>2, NoLinkIssues
    <3>4. EntryIssues(log, i, options) = Raised({bad}) \cup (U \cup Raised({hash}))
      BY <2>2, <2>8, <3>1
    <3>5. EntryIssues(log, i, options) = {} <=> ~bad[1] /\ U = {} /\ ~hash[1]
      BY <2>4, <3>4
    <3> QED BY <1>1, <1>3, <2>1, <2>3, <2>6, <2>8, <3>3, <3>5 DEF CleanEntry, IsChained
  <2> QED BY <2>7, <2>8
<1> QED BY <1>2, <1>3

LEMMA PreviousChained ==
    ASSUME NEW log, NEW i \in Nat, i > 0, \A j \in 1 .. i - 1 : IsChained(log[j])
    PROVE  ChainedBefore(log, i) = IF i = 1 THEN {} ELSE {log[i - 1].receipt}
<1>1. PICK earlier : earlier = {j \in 1 .. i - 1 : IsChained(log[j])}
  OBVIOUS
<1>2. earlier = 1 .. i - 1
  BY <1>1
<1>3. PICK last : last = {k \in earlier : \A l \in earlier : l <= k}
  OBVIOUS
<1>4. last = IF i = 1 THEN {} ELSE {i - 1}
  <2>1. CASE i = 1
    BY <1>2, <1>3, <2>1
  <2>2. CASE i > 1
    <3>1. i - 1 \in earlier /\ \A l \in earlier : l <= i - 1
      BY <1>2, <2>2
    <3>2. \A k \in earlier : (\A l \in earlier : l <= k) => k = i - 1
      BY <1>2, <3>1
    <3>3. \A k : k \in last <=> k = i - 1
      BY <1>3, <3>1, <3>2
    <3> QED BY <2>2, <3>3
  <2> QED BY <2>1, <2>2
<1>5. ChainedBefore(log, i) = {log[j].receipt : j \in last}
  BY <1>1, <1>3 DEF ChainedBefore
<1> QED BY <1>4, <1>5

-----------------------------------------------------------------------------
(* What is handed to the auditor.                                          *)

IsSequence(log) ==
    /\ Len(log) \in Nat /\ DOMAIN log = 1 .. Len(log)
    /\ log = [k \in 1 .. Len(log) |-> log[k]]

\* What is clean was signed by the gateway as it stands.
Genuine(log) ==
    \A k \in DOMAIN log : \A prev : CleanEntry(log[k], prev) => InSigned(log[k])

LEMMA FunctionIsSequence ==
    ASSUME NEW S, NEW m \in Nat, NEW log \in [1 .. m -> S]
    PROVE  IsSequence(log)
<1>1. log \in Seq(S)
  BY SeqDef
<1> QED BY <1>1 DEF IsSequence

\* An edited receipt no longer is what was signed; one signed by somebody else
\* has another key; one of the time before chains has no link.
LEMMA TamperedIsNotClean ==
    ASSUME NEW e, IsReceipt(e), IsEntry(e), Kept(e).allowed \in BOOLEAN,
           Kept(e) = [by |-> Kept(e).by, allowed |-> Kept(e).allowed],
           NEW t \in Tampered(e), NEW prev
    PROVE  ~CleanEntry(t, prev)
<1>1. PICK body : body = Kept(e)
  OBVIOUS
<1>2. PICK chain : e = Link(chain, body, "gateway")
  <2>1. e # [unsigned |-> Kept(e)]
    BY EntryKept
  <2> QED BY <1>1, <2>1 DEF IsEntry
<1>3. PICK content : content = [body |-> body, chain |-> {chain}]
  OBVIOUS
<1>4. PICK r : r = [payload |-> content, signed |-> content, key |-> "gateway"]
  OBVIOUS
<1>5. e = [receipt |-> r, stored |-> "agrees"]
  BY <1>2, <1>3, <1>4 DEF Link, Envelope, Signed
<1>6. CASE t = [e EXCEPT !.receipt.payload.body.allowed = ~@]
  <2>1. t = [receipt |-> [r EXCEPT !.payload.body.allowed = ~@], stored |-> "agrees"]
    BY <1>5, <1>6
  <2>2. PICK u : u = [r EXCEPT !.payload.body.allowed = ~@]
    OBVIOUS
  <2>3. u.signed = content
    BY <1>4, <2>2
  <2>4. u.payload = [content EXCEPT !.body.allowed = ~@]
    BY <1>4, <2>2
  <2>5. u.payload.body = [body EXCEPT !.allowed = ~@]
    BY <1>3, <2>4
  <2>6. u.payload.body.allowed = ~body.allowed
    BY <1>1, <2>5
  <2>7. u.signed.body.allowed = body.allowed /\ body.allowed \in BOOLEAN
    BY <1>1, <1>3, <2>3
  <2>8. u.payload # u.signed
    BY <2>6, <2>7
  <2>9. t.receipt = u
    BY <2>1, <2>2
  <2> QED BY <2>8, <2>9 DEF CleanEntry
<1>7. CASE t = [e EXCEPT !.stored = "differs"]
  BY <1>5, <1>7 DEF CleanEntry
<1>8. CASE t = Envelope(Signed(Kept(e), e.receipt.payload.chain, "another"), "agrees")
  <2>1. t.receipt.key = "another"
    BY <1>8 DEF Envelope, Signed
  <2> QED BY <2>1 DEF CleanEntry
<1>9. CASE t = Envelope(Signed(Kept(e), {}, "gateway"), "agrees")
  <2>1. t.receipt.payload.chain = {}
    BY <1>9 DEF Envelope, Signed
  <2> QED BY <2>1 DEF CleanEntry, IsChained
<1> QED BY <1>6, <1>7, <1>8, <1>9 DEF Tampered

LEMMA HandedIsGenuine ==
    ASSUME GatewayInv, LogInv, NEW log \in Handed
    PROVE  IsSequence(log) /\ Genuine(log)
<1>1. PICK n : n = Cardinality(config.callers)
  OBVIOUS
<1>2. n \in Nat
  <2>1. IsFiniteSet(config.callers)
    BY GatewayConstants DEF GatewayInv, Shapes
  <2> QED BY <1>1, <2>1, FS_CardinalityType
<1>3. ASSUME NEW e \in delivered
      PROVE  /\ IsEntry(e) /\ Said(Kept(e))
             /\ IsReceipt(e) => InSigned(e)
  <2>1. OnItsWay(e)
    BY DEF OnItsWay
  <2>2. e \in Records
    BY <2>1, InRecords
  <2> QED BY <2>1, <2>2 DEF LogInv, RecordsInv
<1>4. ASSUME NEW one \in SeqOf(delivered, n)
      PROVE  /\ \E m \in Nat : one \in [1 .. m -> delivered]
             /\ Genuine(one)
  <2>1. PICK m \in 0 .. n : one \in [1 .. m -> delivered]
    BY Zenon DEF SeqOf
  <2>2. m \in Nat
    BY <1>2
  <2>3. \A k \in DOMAIN one : one[k] \in delivered
    BY <2>1
  <2> QED BY <1>3, <2>1, <2>2, <2>3 DEF Genuine, CleanEntry, IsChained
<1>5. CASE log \in SeqOf(delivered, n)
  BY <1>4, <1>5, FunctionIsSequence
<1>6. CASE \E one \in SeqOf(delivered, n) : log \in Altered(one)
  <2>1. PICK one \in SeqOf(delivered, n) : log \in Altered(one)
    BY <1>6
  <2>2. PICK m \in Nat : one \in [1 .. m -> delivered]
    BY <1>4
  <2>10. PICK i \in DOMAIN one :
            IsReceipt(one[i]) /\ log \in {[one EXCEPT ![i] = e] : e \in Tampered(one[i])}
    BY <2>1, Zenon DEF Altered
  <2>3. PICK t \in Tampered(one[i]) : IsReceipt(one[i]) /\ log = [one EXCEPT ![i] = t]
    BY <2>10
  <2>4. log \in [1 .. m -> delivered \cup {t}] /\ log[i] = t
    BY <2>2, <2>3
  <2>5. ASSUME NEW k \in DOMAIN log, NEW prev, CleanEntry(log[k], prev) PROVE InSigned(log[k])
    <3>1. CASE k = i
      <4>1. PICK e : e = one[i]
        OBVIOUS
      <4>2. e \in delivered /\ IsReceipt(e) /\ t \in Tampered(e)
        BY <2>2, <2>3, <4>1
      <4>3. IsEntry(e) /\ Said(Kept(e))
        BY <1>3, <4>2
      <4>4. ~CleanEntry(t, prev)
        BY <4>2, <4>3, TamperedIsNotClean DEF Said
      <4> QED BY <2>4, <2>5, <3>1, <4>4
    <3>2. CASE k # i
      <4>1. log[k] = one[k] /\ k \in DOMAIN one
        BY <2>2, <2>3, <3>2
      <4>2. Genuine(one)
        BY <1>4
      <4> QED BY <2>5, <4>1, <4>2 DEF Genuine
    <3> QED BY <3>1, <3>2
  <2>6. IsSequence(log)
    BY <2>2, <2>4, FunctionIsSequence
  <2> QED BY <2>5, <2>6 DEF Genuine
<1>7. \/ log \in SeqOf(delivered, n)
      \/ \E one \in SeqOf(delivered, n) : log \in Altered(one)
  BY <1>1, Zenon DEF Handed
<1> QED BY <1>5, <1>6, <1>7

-----------------------------------------------------------------------------
(* A log without issues is the beginning of a run.                         *)

Clean(log) == \A i \in DOMAIN log : CleanEntry(log[i], ChainedBefore(log, i))
Begins(log, s) == Len(log) <= Len(s) /\ \A k \in 1 .. Len(log) : log[k] = s[k]

LEMMA NoIssues ==
    ASSUME NEW log, NEW options, options.signer = {"gateway"}, options.allowUnchained = FALSE
    PROVE  Verifies(log, options) <=>
              /\ Clean(log)
              /\ \A n \in options.count : Len(log) = n
              /\ options.head # {} => LastLink(log) = options.head
<1> DEFINE count == <<\E n \in options.count : Len(log) # n, "count-mismatch">>
           head == <<options.head # {} /\ LastLink(log) # options.head, "head-hash-mismatch">>
<1>1. PICK U : U = UNION {EntryIssues(log, i, options) : i \in DOMAIN log}
  OBVIOUS
<1>2. Issues(log, options) = U \cup Raised({count, head})
  BY <1>1 DEF Issues
<1>3. /\ count[1] = (\E n \in options.count : Len(log) # n)
      /\ head[1] = (options.head # {} /\ LastLink(log) # options.head)
  OBVIOUS
<1> HIDE DEF count, head
<1>4. Raised({count, head}) = {} <=> ~count[1] /\ ~head[1]
  BY DEF Raised
<1>5. U = {} <=> \A i \in DOMAIN log : EntryIssues(log, i, options) = {}
  <2>1. \A x : x \in U <=> \E i \in DOMAIN log : x \in EntryIssues(log, i, options)
    BY <1>1, Zenon
  <2> QED BY <2>1
<1>6. U = {} <=> Clean(log)
  BY <1>5, NoEntryIssues DEF Clean
<1>7. Verifies(log, options) <=> U = {} /\ Raised({count, head}) = {}
  BY <1>2 DEF Verifies
<1> QED BY <1>3, <1>4, <1>6, <1>7

LEMMA ChainEntry ==
    ASSUME NEW s, IsChain(s), NEW k \in 1 .. Len(s)
    PROVE  /\ IsChained(s[k]) /\ s[k].stored = "agrees"
           /\ s[k].receipt.payload = s[k].receipt.signed /\ s[k].receipt.key = "gateway"
           /\ s[k].receipt.payload.chain = {ChainAt(s, k)}
           /\ s[k].receipt.payload.body = Kept(s[k])
<1>1. PICK body, chain : body = Kept(s[k]) /\ chain = ChainAt(s, k)
  OBVIOUS
<1>2. s[k] = Link(chain, body, "gateway")
  BY <1>1 DEF IsChain
<1>3. PICK r : r = Signed(body, {chain}, "gateway")
  OBVIOUS
<1>4. s[k] = [receipt |-> r, stored |-> "agrees"]
  BY <1>2, <1>3 DEF Link, Envelope
<1>5. /\ r.payload = [body |-> body, chain |-> {chain}] /\ r.payload = r.signed
      /\ r.key = "gateway"
  BY <1>3 DEF Signed
<1> QED BY <1>1, <1>4, <1>5 DEF IsChained, IsReceipt

\* Every beginning of a chain verifies.
LEMMA BeginningIsClean ==
    ASSUME NEW s, IsChain(s), NEW log, IsSequence(log), Len(s) \in Nat, Begins(log, s)
    PROVE  Clean(log)
<1>1. \A k \in 1 .. Len(log) : k \in 1 .. Len(s) /\ log[k] = s[k] /\ IsChained(log[k])
  BY ChainEntry DEF Begins, IsSequence
<1>2. ASSUME NEW i \in 1 .. Len(log) PROVE CleanEntry(log[i], ChainedBefore(log, i))
  <2>1. PICK chain, prev : chain = ChainAt(s, i) /\ prev = ChainedBefore(log, i)
    OBVIOUS
  <2>2. i \in Nat /\ i > 0 /\ \A j \in 1 .. i - 1 : j \in 1 .. Len(log)
    BY DEF IsSequence
  <2>3. prev = IF i = 1 THEN {} ELSE {log[i - 1].receipt}
    BY <1>1, <2>1, <2>2, PreviousChained
  <2>4. chain = [seq |-> i - 1, prev |-> IF i = 1 THEN {} ELSE {s[i - 1].receipt}]
    BY <2>1 DEF ChainAt
  <2>5. LinkOk(chain, prev)
    <3>1. CASE i = 1
      BY <2>3, <2>4, <3>1 DEF LinkOk, Genesis
    <3>2. CASE i # 1
      <4>1. i - 1 \in 1 .. Len(log) /\ i - 1 \in Int
        BY <2>2, <3>2 DEF IsSequence
      <4>2. PICK j : j = i - 1
        OBVIOUS
      <4>3. /\ j \in 1 .. Len(s) /\ log[j] = s[j]
            /\ s[j].receipt.payload.chain = {ChainAt(s, j)}
        BY <1>1, <4>1, <4>2, ChainEntry
      <4>4. prev = {s[j].receipt} /\ chain.prev = prev /\ chain.seq = j /\ j # 0
        BY <2>3, <2>4, <3>2, <4>1, <4>2, <4>3
      <4>5. ChainAt(s, j).seq = j - 1
        BY DEF ChainAt
      <4>6. chain # Genesis
        BY <4>4 DEF Genesis
      <4>7. chain.seq = ChainAt(s, j).seq + 1
        BY <4>1, <4>2, <4>4, <4>5
      <4>8. Follows(chain, prev)
        BY <4>3, <4>4, <4>7 DEF Follows
      <4> QED BY <4>4, <4>6, <4>8 DEF LinkOk
    <3> QED BY <3>1, <3>2
  <2>6. /\ IsChained(log[i]) /\ log[i].stored = "agrees"
        /\ log[i].receipt.payload = log[i].receipt.signed /\ log[i].receipt.key = "gateway"
        /\ log[i].receipt.payload.chain = {chain}
    BY <1>1, <2>1, ChainEntry
  <2> QED BY <2>1, <2>5, <2>6 DEF CleanEntry
<1> QED BY <1>2 DEF Clean, IsSequence

LEMMA RunIsSequence ==
    ASSUME LogInv, NEW g \in Instances, NEW run \in Runs
    PROVE  IsChain(signed[g][run]) /\ IsSequence(signed[g][run])
<1>1. PICK s : s = signed[g][run]
  OBVIOUS
<1>2. IsChain(s)
  BY <1>1 DEF LogInv, ChainOfRun
<1>3. s \in Seq(ToSet(s))
  BY <1>2 DEF IsChain, IsLog
<1> QED BY <1>1, <1>2, <1>3 DEF IsSequence

\* What is clean where it stands was signed by a run, first or after the receipt
\* that stands before it.
LEMMA CleanPlace ==
    ASSUME LogInv, NEW log, IsSequence(log), Genuine(log), Clean(log), NEW k \in 1 .. Len(log)
    PROVE  \E g \in Instances, run \in Runs : \E p \in 1 .. Len(signed[g][run]) :
              /\ log[k] = signed[g][run][p]
              /\ k = 1 => p = 1
              /\ k # 1 => p # 1 /\ signed[g][run][p - 1].receipt = log[k - 1].receipt
<1>1. PICK prev : prev = ChainedBefore(log, k)
  OBVIOUS
<1>2. CleanEntry(log[k], prev) /\ InSigned(log[k])
  BY <1>1 DEF Clean, Genuine, IsSequence
<1>3. \A j \in 1 .. k - 1 : IsChained(log[j])
  BY DEF Clean, CleanEntry, IsSequence
<1>4. prev = IF k = 1 THEN {} ELSE {log[k - 1].receipt}
  <2>1. k \in Nat /\ k > 0
    BY DEF IsSequence
  <2> QED BY <1>1, <1>3, <2>1, PreviousChained
<1>5. PICK g \in Instances, run \in Runs : log[k] \in ToSet(signed[g][run])
  BY <1>2 DEF InSigned
<1>6. PICK s : s = signed[g][run]
  OBVIOUS
<1>7. IsChain(s) /\ Len(s) \in Nat /\ DOMAIN s = 1 .. Len(s)
  BY <1>6, RunIsSequence DEF IsSequence
<1>8. PICK p \in 1 .. Len(s) : log[k] = s[p]
  BY <1>5, <1>6, <1>7 DEF ToSet
<1>9. PICK chain : chain = ChainAt(s, p)
  OBVIOUS
<1>10. LinkOk(chain, prev)
  BY <1>2, <1>7, <1>8, <1>9, ChainEntry DEF CleanEntry
<1>11. chain.seq = p - 1 /\ chain.prev = IF p = 1 THEN {} ELSE {s[p - 1].receipt}
  BY <1>9 DEF ChainAt
<1>12. CASE k = 1
  <2>1. chain.seq = 0
    BY <1>4, <1>10, <1>12 DEF LinkOk, Genesis
  <2>2. p = 1
    BY <1>7, <1>11, <2>1
  <2> QED BY <1>6, <1>8, <1>12, <2>2
<1>13. CASE k # 1
  <2>1. prev = {log[k - 1].receipt}
    BY <1>4, <1>13
  <2>2. chain.prev = prev
    BY <1>10, <2>1 DEF LinkOk
  <2>3. p # 1 /\ s[p - 1].receipt = log[k - 1].receipt
    BY <1>11, <2>1, <2>2
  <2> QED BY <1>6, <1>8, <1>13, <2>3
<1> QED BY <1>12, <1>13

LEMMA CleanIsBeginning ==
    ASSUME LogInv, NEW log, IsSequence(log), Genuine(log), Clean(log)
    PROVE  \E g \in Instances, run \in Runs : Begins(log, signed[g][run])
<1>1. CASE Len(log) = 0
  <2>1. PICK g \in Instances : TRUE
    BY GatewayConstants
  <2>2. 1 \in Runs
    BY GatewayConstants DEF Runs
  <2>3. Len(signed[g][1]) \in Nat
    BY <2>1, <2>2, RunIsSequence DEF IsSequence
  <2> QED BY <1>1, <2>1, <2>2, <2>3 DEF Begins
<1>2. CASE Len(log) # 0
  <2>1. 1 \in 1 .. Len(log)
    BY <1>2 DEF IsSequence
  <2>2. PICK g \in Instances, run \in Runs :
           \E p \in 1 .. Len(signed[g][run]) : p = 1 /\ log[1] = signed[g][run][p]
    BY <2>1, CleanPlace
  <2>3. PICK s : s = signed[g][run]
    OBVIOUS
  <2>4. /\ IsChain(s) /\ Len(s) \in Nat /\ 1 \in 1 .. Len(s) /\ log[1] = s[1]
        /\ IsOfRun(s, g, run)
    BY <2>2, <2>3, RunIsSequence DEF IsSequence, LogInv, ChainOfRun
  <2> DEFINE bad == {k \in 1 .. Len(log) : ~(k \in 1 .. Len(s) /\ log[k] = s[k])}
  <2>5. CASE bad = {}
    <3>1. \A k \in 1 .. Len(log) : k \in 1 .. Len(s) /\ log[k] = s[k]
      BY <2>5
    <3>2. Len(log) <= Len(s)
      <4>1. Len(log) \in 1 .. Len(log)
        BY <1>2 DEF IsSequence
      <4> QED BY <3>1, <4>1
    <3> QED BY <2>3, <3>1, <3>2 DEF Begins
  <2>6. CASE bad # {}
    <3>1. bad \in SUBSET Nat
      OBVIOUS
    <3>2. PICK k \in bad : \A j \in bad : k <= j
      BY <2>6, <3>1, LeastNatural
    <3>3. k \in 1 .. Len(log) /\ k # 1
      BY <2>4, <3>2
    <3>4. PICK j : j = k - 1
      OBVIOUS
    <3>5. j \in 1 .. Len(log) /\ k = j + 1 /\ j \notin bad
      BY <3>2, <3>3, <3>4 DEF IsSequence
    <3>6. j \in 1 .. Len(s) /\ log[j] = s[j]
      BY <3>5
    <3>7. PICK h \in Instances, own \in Runs :
             \E p \in 1 .. Len(signed[h][own]) :
                /\ log[k] = signed[h][own][p]
                /\ k = 1 => p = 1
                /\ k # 1 => p # 1 /\ signed[h][own][p - 1].receipt = log[k - 1].receipt
      BY <3>3, CleanPlace, ZenonT(60)
    <3>8. PICK u : u = signed[h][own]
      OBVIOUS
    <3>9. IsChain(u) /\ Len(u) \in Nat /\ IsOfRun(u, h, own)
      BY <3>8, RunIsSequence DEF IsSequence, LogInv, ChainOfRun
    <3>10. PICK p \in 1 .. Len(u) :
              log[k] = u[p] /\ p # 1 /\ u[p - 1].receipt = log[k - 1].receipt
      BY <3>3, <3>7, <3>8
    <3>11. PICK i : i = p - 1
      OBVIOUS
    <3>12. i \in 1 .. Len(u) /\ p = i + 1 /\ u[i].receipt = s[j].receipt
      BY <3>4, <3>6, <3>9, <3>10, <3>11
    <3>13. /\ u[i].receipt.payload.chain = {ChainAt(u, i)}
           /\ u[i].receipt.payload.body = Kept(u[i])
      BY <3>9, <3>12, ChainEntry
    <3>14. /\ s[j].receipt.payload.chain = {ChainAt(s, j)}
           /\ s[j].receipt.payload.body = Kept(s[j])
      BY <2>4, <3>6, ChainEntry
    <3>15. ChainAt(u, i) = ChainAt(s, j) /\ Kept(u[i]) = Kept(s[j])
      BY <3>12, <3>13, <3>14
    <3>16. p = k
      <4>1. ChainAt(u, i).seq = i - 1 /\ ChainAt(s, j).seq = j - 1
        BY DEF ChainAt
      <4> QED BY <3>5, <3>12, <3>15, <4>1
    <3>17. h = g /\ own = run
      BY <2>4, <3>6, <3>9, <3>12, <3>15 DEF IsOfRun
    <3>18. k \in 1 .. Len(s) /\ log[k] = s[k]
      BY <2>3, <3>8, <3>10, <3>16, <3>17
    <3> QED BY <3>2, <3>18
  <2> QED BY <2>5, <2>6
<1> QED BY <1>1, <1>2

\* The head of a clean log that is not empty is its last receipt.
LEMMA HeadOfClean ==
    ASSUME NEW log, IsSequence(log), Clean(log), Len(log) # 0
    PROVE  LastLink(log) = {log[Len(log)].receipt}
<1>1. PICK n : n = Len(log) + 1
  OBVIOUS
<1>2. n \in Nat /\ n > 0 /\ n # 1 /\ n - 1 = Len(log)
  BY <1>1 DEF IsSequence
<1>3. \A j \in 1 .. n - 1 : IsChained(log[j])
  BY <1>2 DEF Clean, CleanEntry, IsSequence
<1>4. ChainedBefore(log, n) = {log[n - 1].receipt}
  BY <1>2, <1>3, PreviousChained
<1> QED BY <1>1, <1>2, <1>4 DEF LastLink

LEMMA WholeIsClean ==
    ASSUME LogInv, NEW g \in Instances, NEW run \in Runs
    PROVE  Clean(signed[g][run])
<1>1. PICK s : s = signed[g][run]
  OBVIOUS
<1>2. IsChain(s) /\ IsSequence(s)
  BY <1>1, RunIsSequence
<1>3. Len(s) \in Nat /\ Begins(s, s)
  BY <1>2 DEF Begins, IsSequence
<1> QED BY <1>1, <1>2, <1>3, BeginningIsClean

\* As long as the whole and with its head, a clean log is the whole.
LEMMA WholeIsOnly ==
    ASSUME LogInv, NEW log, IsSequence(log), Genuine(log), Clean(log),
           NEW g \in Instances, NEW run \in Runs, signed[g][run] # <<>>,
           Len(log) = Len(signed[g][run]), LastLink(log) = LastLink(signed[g][run])
    PROVE  log = signed[g][run]
<1>1. PICK s, n : s = signed[g][run] /\ n = Len(s)
  OBVIOUS
<1>2. IsChain(s) /\ IsSequence(s) /\ Clean(s) /\ IsOfRun(s, g, run)
  BY <1>1, RunIsSequence, WholeIsClean DEF LogInv, ChainOfRun
<1>3. n \in Nat /\ n # 0
  <2>1. s # <<>>
    BY <1>1
  <2>2. Len(s) # 0
    BY <1>2, <2>1 DEF IsChain, IsLog
  <2> QED BY <1>1, <1>2, <2>2 DEF IsSequence
<1>4. log[n].receipt = s[n].receipt
  <2>1. LastLink(log) = {log[n].receipt} /\ LastLink(s) = {s[n].receipt}
    BY <1>1, <1>2, <1>3, HeadOfClean
  <2> QED BY <1>1, <2>1
<1>5. PICK h \in Instances, own \in Runs : Begins(log, signed[h][own])
  BY CleanIsBeginning
<1>6. PICK u : u = signed[h][own]
  OBVIOUS
<1>7. IsChain(u) /\ IsSequence(u) /\ IsOfRun(u, h, own)
  BY <1>6, RunIsSequence DEF LogInv, ChainOfRun
<1>8. n \in 1 .. Len(u) /\ n \in 1 .. n /\ \A k \in 1 .. n : log[k] = u[k]
  BY <1>1, <1>3, <1>5, <1>6, <1>7 DEF Begins, IsSequence
<1>9. u[n].receipt = s[n].receipt
  BY <1>4, <1>8
<1>10. Kept(u[n]) = Kept(s[n])
  BY <1>1, <1>2, <1>7, <1>8, <1>9, ChainEntry
<1>11. h = g /\ own = run
  BY <1>1, <1>2, <1>7, <1>8, <1>10 DEF IsOfRun
<1>12. \A k \in 1 .. n : log[k] = s[k]
  BY <1>1, <1>6, <1>8, <1>11
<1>13. log = [k \in 1 .. n |-> log[k]] /\ s = [k \in 1 .. n |-> s[k]]
  BY <1>1, <1>2 DEF IsSequence
<1> QED BY <1>1, <1>12, <1>13

-----------------------------------------------------------------------------
(* The log tells the truth.                                                *)

LEMMA PrefixBegins ==
    ASSUME NEW log, NEW s, IsSequence(log), IsSequence(s)
    PROVE  IsPrefix(log, s) <=> Begins(log, s)
<1>1. PICK n : n = Len(log)
  OBVIOUS
<1>2. SubSeq(log, 1, n) = [k \in 1 .. n |-> log[k]]
  BY <1>1 DEF IsSequence
<1>3. SubSeq(s, 1, n) = [k \in 1 .. n |-> s[k]]
  BY <1>1 DEF IsSequence
<1>4. SubSeq(log, 1, n) = SubSeq(s, 1, n) <=> \A k \in 1 .. n : log[k] = s[k]
  BY <1>2, <1>3
<1> QED BY <1>1, <1>4 DEF IsPrefix, Begins

LEMMA LogIsComplete == GatewayInv /\ LogInv => LogCleanIffPrefix
<1> SUFFICES ASSUME GatewayInv, LogInv, NEW log \in Handed
             PROVE  /\ Verifies(log, OfGateway) <=>
                          \E g \in Instances, run \in Runs : IsPrefix(log, signed[g][run])
                    /\ \A g \in Instances, run \in Runs :
                          LET whole == signed[g][run]
                              expected == [OfGateway EXCEPT !.count = {Len(whole)},
                                                            !.head = LastLink(whole)]
                          IN  whole # <<>> => (Verifies(log, expected) <=> log = whole)
  BY DEF LogCleanIffPrefix
<1>1. IsSequence(log) /\ Genuine(log)
  BY HandedIsGenuine
<1>2. OfGateway = [signer |-> {"gateway"}, count |-> {}, head |-> {}, allowUnchained |-> FALSE]
  <2>1. PICK d : d = [signer |-> {}, count |-> {}, head |-> {}, allowUnchained |-> FALSE]
    OBVIOUS
  <2>2. OfGateway = [d EXCEPT !.signer = {"gateway"}]
    BY <2>1 DEF OfGateway, NoOptions
  <2> QED BY <2>1, <2>2
<1>3. Verifies(log, OfGateway) <=> Clean(log)
  BY <1>2, NoIssues
<1>4. Clean(log) => \E g \in Instances, run \in Runs : IsPrefix(log, signed[g][run])
  BY <1>1, CleanIsBeginning, PrefixBegins, RunIsSequence
<1>5. ASSUME NEW g \in Instances, NEW run \in Runs, IsPrefix(log, signed[g][run])
      PROVE  Clean(log)
  <2>1. PICK s : s = signed[g][run]
    OBVIOUS
  <2>2. IsChain(s) /\ IsSequence(s) /\ Begins(log, s)
    BY <1>1, <1>5, <2>1, RunIsSequence, PrefixBegins
  <2> QED BY <1>1, <2>2, BeginningIsClean DEF IsSequence
<1>6. ASSUME NEW g \in Instances, NEW run \in Runs, NEW whole, whole = signed[g][run],
             whole # <<>>
      PROVE  Verifies(log, [OfGateway EXCEPT !.count = {Len(whole)}, !.head = LastLink(whole)])
                <=> log = whole
  <2>1. PICK expected :
           expected = [OfGateway EXCEPT !.count = {Len(whole)}, !.head = LastLink(whole)]
    OBVIOUS
  <2>2. /\ expected.signer = {"gateway"} /\ expected.allowUnchained = FALSE
        /\ expected.count = {Len(whole)} /\ expected.head = LastLink(whole)
    BY <1>2, <2>1
  <2>3. Verifies(log, expected) <=>
           /\ Clean(log) /\ Len(log) = Len(whole)
           /\ LastLink(whole) # {} => LastLink(log) = LastLink(whole)
    BY <2>2, NoIssues
  <2>4. Clean(whole) /\ IsSequence(whole) /\ IsChain(whole)
    BY <1>6, RunIsSequence, WholeIsClean
  <2>5. Len(whole) # 0
    BY <1>6, <2>4 DEF IsChain, IsLog
  <2>6. LastLink(whole) # {}
    BY <2>4, <2>5, HeadOfClean
  <2>7. log = whole => Verifies(log, expected)
    BY <2>3, <2>4
  <2>8. ASSUME Verifies(log, expected) PROVE log = whole
    BY <1>1, <1>6, <2>3, <2>6, <2>8, WholeIsOnly
  <2> QED BY <2>1, <2>7, <2>8
<1> QED BY <1>3, <1>4, <1>5, <1>6

\* A log that verifies under the gateway's key is the beginning of what one run of
\* one process signed, whatever the writer lost and a restart cut off, and the
\* records say of each call what the caller was told (chain.ts, proxy.ts).
THEOREM LogIsTruthful == Spec => []LogTruthful
<1>1. LogInv => TruthfulRecords
  BY DEF LogInv, RecordsInv, TruthfulRecords, Said
<1>2. GatewayInv /\ LogInv => LogTruthful
  BY <1>1, LogIsComplete DEF LogTruthful
<1> QED BY <1>2, LogInvHolds, PTL

=============================================================================
