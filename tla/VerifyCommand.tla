--------------------------- MODULE VerifyCommand ---------------------------
(***************************************************************************)
(* The algorithm of `bolyra verify` (integrations/cli/src/verify/core.ts,  *)
(* delegation.ts) over its durable replay store.  Each verification is a   *)
(* process of its own: it judges a presentation step by step, marks the    *)
(* nullifiers of the hops on the way and those of the agent and the human  *)
(* at the end, or, in host mode, tells its caller to.  Proofs and          *)
(* signatures are ideal: a presentation says which checks it fails.        *)
(***************************************************************************)
EXTENDS FileNonceStore, Sequences, Verdicts, SequencesExt

CONSTANTS
    Verifications,
    Workloads,       \* what is verified together: [by -> set of requests]
    Cap              \* MAX_NONCE_RETENTION_SECONDS

MaxHops == 3

\* A presentation with its request: flaws names the checks it fails, hops the
\* nullifiers of its delegation, badHop the first hop that does not verify (0 when
\* all do) with its code, and skew how far now_unix is from the machine's clock.
Requests == UNION UNION {{w.asks[v] : v \in DOMAIN w.asks} : w \in Workloads}

Nullifiers(r) == (ToSet(r.hops) \cup {r.agent, r.human}) \ {None}

\* The i-th mark of a verification v is <<v, i>>.  A hop's nullifier is no agent's and
\* no human's: they are hashes of other things, and a human's has a prefix.
ASSUME VerifyConstants ==
    /\ Cap \in Nat \ {0}
    /\ Marks \subseteq Verifications \X (Nat \ {0})
    /\ None \notin {"allow", "nonce_replayed"}
    /\ \A w \in Workloads : DOMAIN w.asks \subseteq Verifications
    /\ \A r \in Requests :
          /\ r.mode \in {"local", "host"}
          /\ r.hops \in Seq(Keys) /\ r.badHop \in 0 .. Len(r.hops)
          /\ r.badCode \notin {"allow", "nonce_replayed"}
          /\ {r.agent, r.human} \subseteq (Keys \cup {None}) \ ToSet(r.hops)
          /\ r.expiry \in Int /\ r.credExpiry \in Int /\ r.skew \in Int
          /\ r.expiry <= r.credExpiry      \* a delegation only narrows
          /\ Verifications \X (1 .. Len(r.hops) + 2) \subseteq Marks

VARIABLES workload, verifications
allVars == <<vars, workload, verifications>>

NewVerification == [phase |-> "new", request |-> None, now |-> 0, began |-> 0, burned |-> 0,
                    verdict |-> None, consume |-> {}]

VInit ==
    /\ Init
    /\ workload \in Workloads
    /\ verifications = [v \in Verifications |-> NewVerification]

-----------------------------------------------------------------------------
(* The checks, in order.                                                   *)

Passes(r, checks) == FirstRefusal([i \in DOMAIN checks |-> <<checks[i][1] \notin r.flaws, checks[i][2]>>], "ok")

ChecksBeforeDelegation ==
    <<<<"shape", "malformed_input">>, <<"version", "unsupported_version">>,
      <<"bundle", "invalid_bundle">>, <<"vkey", "internal_error">>, <<"proof", "invalid_proof">>,
      <<"root", "untrusted_root">>, <<"session", "invalid_proof">>, <<"anchor", "invalid_proof">>,
      <<"signature", "invalid_signature">>, <<"bindingExpiry", "invalid_bundle">>>>
ChecksOfRequest ==
    <<<<"leaf", "delegation_invalid">>, <<"request", "request_mismatch">>, <<"model", "model_mismatch">>,
      <<"capability", "unknown_capability">>, <<"encoding", "internal_error">>,
      <<"scope", "scope_exceeded">>>>

\* The chain ends at its first bad hop; a chain too long is refused at once.
GoodHops(r) == IF r.badHop = 0 THEN Len(r.hops) ELSE r.badHop - 1

\* What follows the chain: the leaf, the request, the scope, the expiry and the
\* nullifier.
RefusalAfterDelegation(r, now) ==
    LET refusal == Passes(r, ChecksOfRequest)
    IN  IF refusal # "ok" THEN refusal
        ELSE IF now >= r.expiry THEN "expired"
        ELSE IF r.agent = None THEN "nonce_missing"
        ELSE "ok"

\* What a local verification marks, in order.
Plan(r) == SubSeq(r.hops, 1, GoodHops(r)) \o <<r.agent>> \o (IF r.human = None THEN <<>> ELSE <<r.human>>)

\* Until the credential, or for the agent's and the human's nullifier the
\* delegation, expires: at least a second, at most the cap.
NonceTtlSwapped(expiry, now) == IF expiry - now < 1 THEN expiry - now ELSE 1
NonceTtl(expiry, now) ==
    LET span == expiry - now
    IN  IF span < 1 THEN 1 ELSE IF span > Cap THEN Cap ELSE span
TtlOf(v, i) ==
    LET x == verifications[v]
    IN  NonceTtl(IF i <= GoodHops(x.request) THEN x.request.credExpiry ELSE x.request.expiry, x.now)

-----------------------------------------------------------------------------
(* A verification.                                                         *)

Deny(x, code) == [x EXCEPT !.phase = "done", !.verdict = code]
Allow(x, consume) == [x EXCEPT !.phase = "done", !.verdict = "allow", !.consume = consume]

Consume(x) ==
    {[nonce |-> n, until |-> x.now + NonceTtl(x.request.expiry, x.now)] :
        n \in {x.request.agent, x.request.human} \ {None}}

ResumedMarkingFirst(x) ==
    LET r == x.request
        refusal == RefusalAfterDelegation(r, x.now)
    IN  IF r.mode = "local" /\ x.burned < Len(Plan(r)) THEN x
        ELSE IF refusal # "ok" THEN Deny(x, refusal)
        ELSE Allow(x, IF r.mode = "host" THEN Consume(x) ELSE {})
\* What happens once the first `burned` nullifiers are this verification's own.
Resumed(x) ==
    LET r == x.request
        refusal == RefusalAfterDelegation(r, x.now)
    IN  IF r.mode = "local" /\ x.burned < GoodHops(r) THEN x
        ELSE IF GoodHops(r) < Len(r.hops) THEN Deny(x, r.badCode)
        ELSE IF refusal # "ok" THEN Deny(x, refusal)
        ELSE IF r.mode = "host" THEN Allow(x, Consume(x))
        ELSE IF x.burned < Len(Plan(r)) THEN x
        ELSE Allow(x, {})

Begin(v, r) ==
    /\ verifications[v].phase = "new"
    /\ LET x == [verifications[v] EXCEPT !.phase = "judging", !.request = r, !.began = clock,
                                         !.now = clock + r.skew]
           refusal == Passes(r, ChecksBeforeDelegation)
       IN  verifications' = [verifications EXCEPT ![v] =
               IF refusal # "ok" THEN Deny(x, refusal)
               ELSE IF Len(r.hops) > MaxHops THEN Deny(x, "delegation_invalid")
               ELSE Resumed(x)]
    /\ UNCHANGED <<vars, workload>>

Judging(v) == verifications[v].phase = "judging"
Current(v) == <<v, verifications[v].burned + 1>>

Burn(v) ==
    /\ Judging(v)
    /\ Start(Current(v), Plan(verifications[v].request)[Current(v)[2]], TtlOf(v, Current(v)[2]))
    /\ UNCHANGED <<workload, verifications>>

Resume(v) ==
    /\ Judging(v) /\ At(Current(v), "done")
    /\ LET x == verifications[v]
           answer == marks[Current(v)].answer
       IN  verifications' = [verifications EXCEPT ![v] =
               IF answer = "true" THEN Resumed([x EXCEPT !.burned = @ + 1])
               ELSE Deny(x, IF answer = "false" THEN "nonce_replayed" ELSE "internal_error")]
    /\ UNCHANGED <<vars, workload>>

\* The process is killed, in the middle of a mark or between two.
Kill(v) ==
    /\ Judging(v)
    /\ verifications' = [verifications EXCEPT ![v].phase = "crashed"]
    /\ Crash(Current(v)) \/ (marks[Current(v)].pc \in {"new", "done"} /\ UNCHANGED vars)
    /\ UNCHANGED workload

StoreStep(v) ==
    /\ Judging(v)
    /\ LET m == Current(v)
       IN  \/ \E key \in Keys : PruneRead(m, key) \/ PruneRemove(m, key)
           \/ Write(m) \/ Link(m) \/ Read(m)
           \/ Lock(m) \/ Recheck(m) \/ Rename(m) \/ Unlock(m) \/ Fail(m)
    /\ UNCHANGED <<workload, verifications>>

VNext ==
    \/ \E v \in DOMAIN workload.asks :
        \/ \E r \in workload.asks[v] : Begin(v, r)
        \/ Burn(v) \/ StoreStep(v) \/ Resume(v) \/ Kill(v)
    \/ Tick /\ UNCHANGED <<workload, verifications>>

VSpec == VInit /\ [][VNext]_allVars

-----------------------------------------------------------------------------
(* Correctness.                                                            *)

Allowed(v, mode) == verifications[v].verdict = "allow" /\ verifications[v].request.mode = mode
MarkOf(v, key) == CHOOSE m \in Marks : m[1] = v /\ marks[m].key = key

\* A local allow is not repeated while its nullifiers are retained, and they are
\* retained, unless the cap is shorter or the caller's clock was ahead, until the
\* presentation has expired: of two allows with a nullifier in common one marked
\* it when the other's mark had expired. Marks the store lost are the exception.
AllowedAgainOnlyPastExpiry ==
    \A v, w \in Verifications :
        v # w /\ Allowed(v, "local") /\ Allowed(w, "local") =>
        \A key \in (Nullifiers(verifications[v].request)
                    \cap Nullifiers(verifications[w].request)) \ Lost :
            LET Precedes(a, b) ==
                    LET x == verifications[a]
                    IN  /\ marks[MarkOf(a, key)].expiry <= marks[MarkOf(b, key)].at
                        /\ x.now <= x.began /\ x.request.expiry - x.now <= Cap =>
                              marks[MarkOf(b, key)].at >= x.request.expiry
            IN  Precedes(v, w) \/ Precedes(w, v)

\* A refused presentation does not use up somebody's nullifier: who has started
\* to mark the agent's or the human's nullifier passed every other check, who has
\* started to mark a hop's had a good proof of it, each owns all nullifiers
\* before it, and a verification is only told of a replay when another one that
\* came as far was marking the same nullifier, or itself for an earlier hop.
SpentOnlyByVerified ==
    /\ \A m \in Marks : marks[m].pc # "new" =>
          LET x == verifications[m[1]]
              r == x.request
          IN  /\ r.mode = "local" /\ Passes(r, ChecksBeforeDelegation) = "ok"
              /\ \A i \in 1 .. m[2] - 1 : Won(<<m[1], i>>)
              /\ r.badHop # 0 => m[2] < r.badHop
              /\ marks[m].key \in {r.agent, r.human} => RefusalAfterDelegation(r, x.now) = "ok"
    /\ \A v \in Verifications : verifications[v].verdict = "nonce_replayed" =>
          \E m \in Marks \ {Current(v)} : /\ m[1] = v => m[2] < Current(v)[2]
                                          /\ marks[m].pc # "new"
                                          /\ marks[m].key = marks[Current(v)].key

\* An allow answers for every nullifier of the presentation: a local one has
\* marked them all itself; a host's has marked none, and asks its caller to keep
\* the agent's and the human's beyond now and no longer than until the
\* presentation expires or the cap.
AllowSpendsAll ==
    \A v \in Verifications :
        LET x == verifications[v]
            own == {m \in Marks : m[1] = v /\ marks[m].pc # "new"}
        IN  /\ Allowed(v, "local") =>
                  /\ x.consume = {}
                  /\ \A key \in Nullifiers(x.request) : \E m \in own : marks[m].key = key /\ Won(m)
            /\ Allowed(v, "host") =>
                  /\ own = {}
                  /\ {c.nonce : c \in x.consume} = Nullifiers(x.request) \ ToSet(x.request.hops)
                  /\ \A c \in x.consume : /\ c.until > x.now /\ c.until <= x.request.expiry
                                          /\ c.until <= x.now + Cap

\* Every nullifier of a presentation is spent by the verification that answers for
\* it and by no refused one (verify in core.ts, verifyDelegationChain).
NullifiersAccounted == SpentOnlyByVerified /\ AllowSpendsAll
=============================================================================
